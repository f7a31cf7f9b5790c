---------------------------- MODULE FileTransfer ----------------------------
(***************************************************************************)
(* What a transfer promises whoever receives: what has been received is    *)
(* always the beginning of the file, and the file is kept whole, and once. *)
(***************************************************************************)
EXTENDS Integers, Sequences

CONSTANT Length          \* of the file, which is <<1, 2, .., Length>>

VARIABLES received,      \* what has been taken off the line so far
          kept           \* the files handed up

vars == <<received, kept>>

File == [i \in 1 .. Length |-> i]

Init == received = <<>> /\ kept = <<>>

Extend ==
  /\ Len(received) < Length
  /\ received' = Append(received, Len(received) + 1)
  /\ UNCHANGED kept

StartOver == received' = <<>> /\ UNCHANGED kept

Keep ==
  /\ received = File /\ kept = <<>>
  /\ kept' = <<File>>
  /\ UNCHANGED received

Next == Extend \/ StartOver \/ Keep

Spec == Init /\ [][Next]_vars
=============================================================================
