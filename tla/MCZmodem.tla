------------------------------ MODULE MCZmodem ------------------------------
(***************************************************************************)
(* Instances of Zmodem for TLC and the properties they check.              *)
(***************************************************************************)
EXTENDS Zmodem

NeverEarly  == [sender |-> 0, receiver |-> 0]
OnceEarly   == [sender |-> 1, receiver |-> 1]

-----------------------------------------------------------------------------
(* Safety.                                                                 *)

\* "A file that arrives must be the file" (tests/loopback.rs): whatever the
\* line damages and however the timers fall, the receiver only ever holds a
\* beginning of the file, and hands it up whole, and once.
Transfer == INSTANCE FileTransfer WITH
              Length <- FileLen, received <- receiver.data, kept <- receiver.arrived
TransferSpec == Transfer!Spec

\* "A damaged subpacket is recovered from" (tests/loopback.rs): a file whose
\* subpackets fail their checks is there in the end, though the receiver's timer
\* asks in the middle of the stream.  That there is an end is SessionEnds.
OnlyChecksFail == only_checks /\ early.sender = 0 /\ cancels = 0
FileArrives ==
  Over(sender) /\ Over(receiver) /\ OnlyChecksFail => receiver.arrived # <<>>

\* State::Done: "Over, and the file arrived."
DoneMeansArrived == sender.state = "Done" => receiver.arrived # <<>>

-----------------------------------------------------------------------------
(* Liveness.                                                               *)

\* A session ends at both ends, whatever was damaged and whoever cancelled:
\* nobody is left waiting for a piece that will not come.
SessionEnds == <>(Over(sender) /\ Over(receiver))

=============================================================================
