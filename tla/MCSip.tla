------------------------------- MODULE MCSip --------------------------------
(***************************************************************************)
(* Instances of Sip for TLC and the properties they check.                 *)
(***************************************************************************)
EXTENDS Sip

Datagrams == {FALSE}
Either    == BOOLEAN
OnlyA     == {"a"}
OnlyB     == {"b"}
Both      == {"a", "b"}

Calls(e)    == worker[e].call.call
Up(e, c)    == Calls(e) = c /\ worker[e].call.established
Heard(word, e, c) == \E i \in 1 .. Len(told[e][c]) : told[e][c][i] = word

-----------------------------------------------------------------------------
(* Safety.                                                                 *)

\* "the 200 brought up a call the user had hung up on -- and was billed for it":
\* a call put down, at whatever stage and whatever crosses it, is never up.
StaysDown == \A e \in End : \A c \in put_down[e] : ~Up(e, c)

\* A call that was answered at both ends and that nobody put down does not end.
CallsAreKept ==
  \A e \in End, c \in Call :
    /\ Heard("Ended", e, c) /\ Heard("Answered", "a", c) /\ Heard("Answered", "b", c)
    => \E f \in End : c \in put_down[f]

\* What each end tells the modem of its calls implements CallLife: above all, no
\* copy of an INVITE or of its answer is told of twice, since every Answered
\* flushes the media.
Life == INSTANCE CallLife
CallLife == Life!Spec

-----------------------------------------------------------------------------
(* Liveness.                                                               *)

\* "Every path out of here that does not end in an INVITE raises Event::Failed":
\* every number dialled, whether it was held or refused, is answered for in the
\* end, by an answer or by a word that it is over, since over SIP nothing else
\* wakes the modem.
AnsweredFor(c) ==
  \E e \in End : \/ told[e][c] # <<>> /\ told[e][c][1] = "Failed"
                 \/ Len(told[e][c]) > 1 /\ told[e][c][1] = "Dialling"
DialsAreAnsweredFor ==
  <>[](\A c \in 1 .. dialled : AnsweredFor(c) \/ \E e \in Callers : ~Running(e))

\* A call is not left up at one end alone ("its half of the call stays up and is
\* billed"), unless the other program is gone.
UpAlone(e) == worker[e].call.established /\ Calls(Peer(e)) # Calls(e)
NotUpAlone == <>[](\A e \in End : UpAlone(e) => ~Running(Peer(e)))

=============================================================================
