---------------------------- MODULE ReliableLink ----------------------------
(***************************************************************************)
(* What an error-corrected connection promises its two users: what one     *)
(* hands over reaches the other in the order it was handed over, no chunk  *)
(* twice and none made up; and none is skipped as long as the user who     *)
(* handed it over has not asked for the link's release and has not been    *)
(* told of a release or a reset.                                           *)
(***************************************************************************)
EXTENDS Integers, Sequences

CONSTANTS End, PeerOf(_)

VARIABLES accepted,   \* [End -> Nat]: chunks handed over, numbered from 1
          received,   \* [End -> Seq(Nat)]: what each user was given
          settled     \* [End -> BOOLEAN]: no release or reset at this end

vars == <<accepted, received, settled>>

Init ==
  /\ accepted = [e \in End |-> 0]
  /\ received = [e \in End |-> <<>>]
  /\ settled = [e \in End |-> TRUE]

LastOf(seq) == IF seq = <<>> THEN 0 ELSE seq[Len(seq)]

Accept(e) ==
  /\ accepted' = [accepted EXCEPT ![e] = @ + 1]
  /\ UNCHANGED <<received, settled>>

\* The user of e is given the chunks "more" of its peer.
Give(e, more) ==
  LET from == PeerOf(e)
      all  == received[e] \o more
  IN  /\ \A i \in Len(received[e]) + 1 .. Len(all) :
           /\ all[i] > LastOf(SubSeq(all, 1, i - 1))
           /\ settled[from] => all[i] = LastOf(SubSeq(all, 1, i - 1)) + 1
           /\ all[i] <= accepted[from]
      /\ received' = [received EXCEPT ![e] = all]
      /\ UNCHANGED <<accepted, settled>>

\* What the step appended is exactly received'[e] past received[e].
Deliver(e) ==
  LET old == received[e]
      new == received'[e]
  IN  /\ Len(new) > Len(old)
      /\ Give(e, SubSeq(new, Len(old) + 1, Len(new)))

Unsettle(e) ==
  /\ settled' = [settled EXCEPT ![e] = FALSE]
  /\ UNCHANGED <<accepted, received>>

Next == \E e \in End : Accept(e) \/ Deliver(e) \/ Unsettle(e)

Spec == Init /\ [][Next]_vars
=============================================================================
