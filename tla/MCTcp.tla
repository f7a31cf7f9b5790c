------------------------------- MODULE MCTcp --------------------------------
EXTENDS Tcp

\* Who calls: the client, or both ends at once.
EitherWay   == {{"Client"}, Ends}

\* What is written: three octets overflow a buffer of two.
ThreeOneWay == [e \in Ends |-> IF e = "Client" THEN 3 ELSE 0]
=============================================================================
