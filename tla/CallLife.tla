------------------------------ MODULE CallLife ------------------------------
(***************************************************************************)
(* What a telephone line promises the modem above it about each call: it   *)
(* is dialled or it comes in, it may be answered, once, and then it is     *)
(* over, once and for good.  Nothing comes in that nobody dialled, and     *)
(* nothing is answered at the end that dialled it that was not answered at *)
(* the other.                                                              *)
(***************************************************************************)
EXTENDS Sequences, Naturals

CONSTANTS End, Call

VARIABLE told   \* what each end has been told of each call, in order

Words == {"Dialling", "Incoming", "Answered", "Failed", "Ended"}

Heard(word, e, c) == \E i \in 1 .. Len(told[e][c]) : told[e][c][i] = word

Elsewhere(word, e, c) == \E f \in End \ {e} : Heard(word, f, c)

May(word, e, c) ==
  LET so_far == told[e][c]
      last   == IF so_far = <<>> THEN "Nothing" ELSE so_far[Len(so_far)]
  IN  CASE last = "Nothing"  -> \/ word \in {"Dialling", "Failed"}
                                \/ word = "Incoming" /\ Elsewhere("Dialling", e, c)
        [] last = "Dialling" -> \/ word \in {"Failed", "Ended"}
                                \/ word = "Answered" /\ Elsewhere("Answered", e, c)
        [] last = "Incoming" -> word \in {"Answered", "Failed", "Ended"}
        [] last = "Answered" -> word = "Ended"
        [] OTHER             -> FALSE

Init == told = [e \in End |-> [c \in Call |-> <<>>]]

\* One turn may end one call and begin another.
Next ==
  \E e \in End :
    \A f \in End, c \in Call :
      \/ told'[f][c] = told[f][c]
      \/ f = e /\ \E word \in Words : May(word, f, c) /\ told'[f][c] = Append(told[f][c], word)

Spec == Init /\ [][Next]_told

=============================================================================
