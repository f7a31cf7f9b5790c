------------------------------- MODULE MCPpp --------------------------------
(***************************************************************************)
(* Instances of Ppp for TLC: a provider that knows both addresses and may  *)
(* ask who is calling, and a caller that knows neither.                    *)
(***************************************************************************)
EXTENDS Ppp

Provider(demands, compress) ==
  [local |-> "server", remote |-> "caller", compress |-> compress,
   account |-> "wrong", demands |-> demands]

Dialler(account, compress) ==
  [local |-> Unspecified, remote |-> Unspecified, compress |-> compress,
   account |-> account, demands |-> "None"]

\* Nobody asks, and only one end compresses; PAP, with the right password
\* and with a wrong one; and CHAP with a wrong one.
AnyCall ==
  {[Server |-> Provider("None", TRUE), Caller |-> Dialler("wrong", FALSE)],
   [Server |-> Provider("Pap", TRUE), Caller |-> Dialler("right", TRUE)],
   [Server |-> Provider("Pap", FALSE), Caller |-> Dialler("wrong", TRUE)],
   [Server |-> Provider("Chap", FALSE), Caller |-> Dialler("wrong", TRUE)]}

ChapCall == {[Server |-> Provider("Chap", TRUE), Caller |-> Dialler("right", TRUE)]}

Never      == [Server |-> 0, Caller |-> 0]
CallerOnce == [Server |-> 0, Caller |-> 1]
=============================================================================
