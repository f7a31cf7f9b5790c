----------------------------- MODULE CallProofs -----------------------------
(***************************************************************************)
(* What holds of the calls of Sip for every number of dials, resends,      *)
(* faults and challenges and for either transport.  One call has one BYE   *)
(* (OneBye), where one end does the dialling or no credentials are asked   *)
(* for.  The state that the window shows is that of the call (StateIsTrue) *)
(* and nothing rings for a call that is over, where one end does the       *)
(* dialling and until its program is closed.                               *)
(***************************************************************************)
EXTENDS SipProofs

-----------------------------------------------------------------------------
(* An end that has dialled the calls M, whose far end has dialled T, and   *)
(* whose BYEs B are on their way.                                          *)

IsBye(m) == m.code = "Request" /\ m.method = "BYE"

\* What no BYE, INVITE or challenge is, and what an end may say.
Plain(m)  == ~IsBye(m) /\ ~IsInvite(m) /\ m.code \notin Challenge
Fit(m, M) == m.code \notin Challenge /\ (IsInvite(m) => m.call \in M)

ByesOf(w, B) ==
  {m \in B \cup {w.bye.request} \cup {w.out[i] : i \in 1 .. Len(w.out)} : IsBye(m)}

\* A BYE is the last of a call that was dialled here, and the second request of
\* one that came from the far end.
Last(m, w, M, T) ==
  /\ m.call \in M \cup T
  /\ m.call \in M => m.call \notin {w.call.call, w.held_dial}
  /\ m.call \in T => m.cseq = 2

Tidy(w, M, T, B) ==
  /\ w.call # NoDialog => w.call.call \in M \/ (w.call.call \in T /\ w.call.cseq = 1)
  /\ w.invite # Free => w.invite.request.call \in M
  /\ w.held_dial # NoCall => w.held_dial \in M /\ w.held_dial # w.call.call
  /\ Plain(w.cancel.request) /\ Plain(w.answer.request) /\ Fit(w.bye.request, M)
  /\ \A r \in w.kept : Plain(r)
  /\ \A i \in 1 .. Len(w.out) : Fit(w.out[i], M)
  /\ \A m \in ByesOf(w, B) : Last(m, w, M, T)
  /\ \A m, n \in ByesOf(w, B) : m.call = n.call => m = n

Parted(M, T, B) ==
  M \subseteq Call /\ T \subseteq Call /\ M \cap T = {} /\ B \subseteq Message

\* A worker of the inductive invariant.
Fine(w, H, M, T, B) == Good(w, H) /\ Tidy(w, M, T, B) /\ Parted(M, T, B)

\* v does no more of a call than w, and has said as much.
Less(v, w) ==
  /\ v.call = NoDialog
     \/ (w.call # NoDialog /\ v.call.call = w.call.call /\ v.call.cseq = w.call.cseq)
  /\ v.invite = Free \/ (w.invite # Free /\ v.invite.request = w.invite.request)
  /\ v.held_dial \in {w.held_dial, NoCall}
  /\ v.cancel.request \in {w.cancel.request, Nothing}
  /\ v.answer.request \in {w.answer.request, Nothing}
  /\ v.bye.request \in {w.bye.request, Nothing}
  /\ v.kept \subseteq w.kept /\ v.out = w.out

LEMMA NothingIsPlain == Plain(Nothing) /\ Free.request = Nothing /\ NoDialog.call = NoCall
                        /\ NoCall \notin Call
BY DEF Nothing, Request, Plain, IsBye, IsInvite, Challenge, Free, Pending, NoDialog, Dialog,
       NoCall, Call

LEMMA FineLess ==
  ASSUME NEW H, NEW M, NEW T, NEW B, NEW w, Fine(w, H, M, T, B), NEW v, Good(v, H), Less(v, w)
  PROVE  Fine(v, H, M, T, B)
<1>1. Parted(M, T, B) /\ Tidy(w, M, T, B)
  BY DEF Fine
<1>2. ByesOf(v, B) \subseteq ByesOf(w, B)
  BY NothingIsPlain DEF Less, ByesOf, Plain
<1>3. v.call = NoDialog \/ v.call.call = w.call.call
  BY DEF Less
<1>4. ASSUME NEW m \in ByesOf(v, B)
      PROVE  Last(m, v, M, T)
  <2>1. Last(m, w, M, T)
    BY <1>1, <1>2 DEF Tidy
  <2>2. m.call \in M => m.call # NoCall
    BY <1>1, NothingIsPlain DEF Parted
  <2>. QED
    BY <1>3, <2>1, <2>2, NothingIsPlain DEF Last, Less
<1>5. v.call # NoDialog => v.call.call \in M \/ (v.call.call \in T /\ v.call.cseq = 1)
  BY <1>1 DEF Tidy, Less
<1>6. v.held_dial # NoCall => v.held_dial \in M /\ v.held_dial # v.call.call
  BY <1>1, <1>3, NothingIsPlain DEF Tidy, Less
<1>7. /\ v.invite # Free => v.invite.request.call \in M
      /\ Plain(v.cancel.request) /\ Plain(v.answer.request) /\ Fit(v.bye.request, M)
      /\ \A r \in v.kept : Plain(r)
      /\ \A i \in 1 .. Len(v.out) : Fit(v.out[i], M)
  BY <1>1, NothingIsPlain DEF Tidy, Less, Fit, Plain
<1>8. \A m, n \in ByesOf(v, B) : m.call = n.call => m = n
  BY <1>1, <1>2 DEF Tidy
<1>9. Tidy(v, M, T, B)
  BY <1>4, <1>5, <1>6, <1>7, <1>8 DEF Tidy
<1>. QED
  BY <1>1, <1>9 DEF Fine

LEMMA OutOfSay ==
  ASSUME NEW H, NEW w, Good(w, H), NEW m \in Message
  PROVE  /\ Say(w, m).out = Append(w.out, m) /\ Len(Say(w, m).out) = Len(w.out) + 1
         /\ Len(w.out) \in Nat
         /\ \A i \in 1 .. Len(w.out) : Say(w, m).out[i] = w.out[i]
         /\ Say(w, m).out[Len(w.out) + 1] = m
         /\ \A B : ByesOf(Say(w, m), B) = ByesOf(w, B) \cup {n \in {m} : IsBye(n)}
<1>1. w.out \in Seq(Message) /\ Say(w, m).out = Append(w.out, m)
  BY DEF Good, Worker, Say
<1>2. /\ Len(w.out) \in Nat /\ Len(Append(w.out, m)) = Len(w.out) + 1
      /\ \A i \in 1 .. Len(w.out) : Append(w.out, m)[i] = w.out[i]
      /\ Append(w.out, m)[Len(w.out) + 1] = m
  BY <1>1, AppendProperties, LenProperties
<1>3. Say(w, m).bye = w.bye
  BY DEF Good, Worker, Say
<1>. DEFINE v == Say(w, m)
            old == {w.out[i] : i \in 1 .. Len(w.out)}
            new == {v.out[i] : i \in 1 .. Len(v.out)}
<1>4. new = old \cup {m}
  BY <1>1, <1>2
<1>5. \A B : ByesOf(v, B) = ByesOf(w, B) \cup {n \in {m} : IsBye(n)}
  <2>1. \A B : ByesOf(v, B) = {n \in B \cup {v.bye.request} \cup new : IsBye(n)}
    BY DEF ByesOf
  <2>2. \A B : ByesOf(w, B) = {n \in B \cup {w.bye.request} \cup old : IsBye(n)}
    BY DEF ByesOf
  <2>. HIDE DEF new, old, v
  <2>. QED
    BY <1>3, <1>4, <2>1, <2>2 DEF v
<1>. QED
  BY <1>1, <1>2, <1>5

\* A BYE that is said again is no new one.
LEMMA SameByes ==
  ASSUME NEW H, NEW w, Good(w, H), NEW B, NEW m \in Message, IsBye(m) => m \in ByesOf(w, B)
  PROVE  ByesOf(Say(w, m), B) = ByesOf(w, B)
<1>1. ByesOf(Say(w, m), B) = ByesOf(w, B) \cup {n \in {m} : IsBye(n)}
  BY OutOfSay
<1>2. {n \in {m} : IsBye(n)} \subseteq ByesOf(w, B)
  OBVIOUS
<1>. QED
  BY <1>1, <1>2

LEMMA FineSay ==
  ASSUME NEW H, NEW M, NEW T, NEW B, NEW w, Fine(w, H, M, T, B), NEW m \in Message,
         Founded(m, H), Fit(m, M), IsBye(m) => m \in ByesOf(w, B)
  PROVE  Fine(Say(w, m), H, M, T, B)
<1>. DEFINE v == Say(w, m)
<1>1. Good(v, H) /\ Good(w, H) /\ Tidy(w, M, T, B) /\ Parted(M, T, B)
  BY GoodSay DEF Fine
<1>2. ByesOf(v, B) = ByesOf(w, B)
  BY <1>1, SameByes
<1>3. \A i \in 1 .. Len(v.out) : Fit(v.out[i], M)
  BY <1>1, OutOfSay DEF Tidy
<1>4. /\ v.call = w.call /\ v.invite = w.invite /\ v.held_dial = w.held_dial
      /\ v.cancel = w.cancel /\ v.answer = w.answer /\ v.bye = w.bye /\ v.kept = w.kept
  BY <1>1 DEF Say, Good, Worker
<1>. HIDE DEF v
<1>5. Tidy(v, M, T, B)
  BY <1>1, <1>2, <1>3, <1>4 DEF Tidy, Last
<1>. QED
  BY <1>1, <1>5 DEF Fine, v

-----------------------------------------------------------------------------
(* The methods, in the order of SipAgent.                                  *)

LEMMA FineTell ==
  ASSUME NEW H, NEW M, NEW T, NEW B, NEW w, Fine(w, H, M, T, B), NEW word \in Word,
         NEW call \in Call \cup {NoCall}
  PROVE  Fine(Tell(w, word, call), H, M, T, B)
<1>1. Good(w, H) /\ Good(Tell(w, word, call), H)
  BY GoodTell DEF Fine
<1>2. Less(Tell(w, word, call), w)
  BY <1>1 DEF Less, Tell, Good, Worker
<1>. QED
  BY <1>1, <1>2, FineLess

LEMMA FineState ==
  ASSUME NEW H, NEW M, NEW T, NEW B, NEW w, Fine(w, H, M, T, B), NEW state \in State
  PROVE  Fine([w EXCEPT !.state = state], H, M, T, B)
<1>1. Good(w, H) /\ Good([w EXCEPT !.state = state], H)
  BY SetState DEF Fine
<1>2. Less([w EXCEPT !.state = state], w)
  BY <1>1 DEF Less, Good, Worker
<1>. QED
  BY <1>1, <1>2, FineLess

LEMMA FineRespond ==
  ASSUME NEW H, NEW M, NEW T, NEW B, NEW w, Fine(w, H, M, T, B), NEW request \in Message,
         NEW code \in Code \ ({"Request"} \cup Challenge),
         request.code = "Request", request.method # "None",
         request.method = "INVITE" => request \in H
  PROVE  Fine(Respond(w, request, code), H, M, T, B)
<1>. DEFINE response == Response(request, code)
            said     == Say(w, response)
            sent     == Remember(said, response)
            done     == [sent EXCEPT !.answer = Pending(response)]
<1>1. /\ response \in Message /\ response.method = request.method /\ response.code = code
      /\ Response(response, "Request") = request
  <2>1. response \in Message /\ response.method = request.method /\ response.code = code
    BY ResponseType
  <2>2. Response(response, "Request") = request
    BY ResponseType DEF Response, Message
  <2>. QED
    BY <2>1, <2>2
<1>2. Plain(response) /\ Founded(response, H)
  BY <1>1 DEF Plain, IsBye, IsInvite, Founded
<1>3. Fine(said, H, M, T, B)
  BY <1>1, <1>2, FineSay DEF Plain, Fit
<1>4. Good(sent, H) /\ Good(done, H)
  BY <1>1, <1>2, <1>3, GoodRemember, SlotOf, SetAnswer DEF Fine
<1>. HIDE DEF said
<1>5. /\ sent.call = said.call /\ sent.invite = said.invite /\ sent.held_dial = said.held_dial
      /\ sent.cancel = said.cancel /\ sent.answer = said.answer /\ sent.bye = said.bye
      /\ sent.out = said.out /\ sent.kept \subseteq said.kept \cup {response}
  BY <1>3 DEF Fine, Good, Worker, Remember
<1>6. Fine(sent, H, M, T, B)
  <2>. HIDE DEF sent, response
  <2>1. ByesOf(sent, B) = ByesOf(said, B)
    BY <1>5 DEF ByesOf
  <2>. QED
    BY <1>2, <1>3, <1>4, <1>5, <2>1 DEF Fine, Tidy, Last
<1>7. Fine(done, H, M, T, B)
  <2>1. /\ done.call = sent.call /\ done.invite = sent.invite /\ done.out = sent.out
        /\ done.held_dial = sent.held_dial /\ done.cancel = sent.cancel
        /\ done.answer.request = response /\ done.bye = sent.bye /\ done.kept = sent.kept
    BY <1>1, <1>4, PendingType DEF Good, Worker
  <2>. HIDE DEF sent, done, response
  <2>2. ByesOf(done, B) = ByesOf(sent, B)
    BY <2>1 DEF ByesOf
  <2>. QED
    BY <1>2, <1>4, <1>6, <2>1, <2>2 DEF Fine, Tidy, Last
<1>. QED
  BY <1>6, <1>7 DEF Respond, said

LEMMA FineFinishCall ==
  ASSUME NEW H, NEW M, NEW T, NEW B, NEW w, Fine(w, H, M, T, B)
  PROVE  Fine(FinishCall(w), H, M, T, B)
<1>1. Good(w, H) /\ Good(FinishCall(w), H)
  BY GoodFinishCall DEF Fine
<1>2. Less(FinishCall(w), w)
  BY <1>1, NothingIsPlain DEF Less, Good, Worker, FinishCall, Tell
<1>. QED
  BY <1>1, <1>2, FineLess


\* A BYE is the only one of its call: the call is over here, and if it was
\* dialled here no other has its number.
LEMMA FineSendBye ==
  ASSUME NEW H, NEW M, NEW T, NEW B, NEW w, Fine(w, H, M, T, B)
  PROVE  Fine(SendBye(w), H, M, T, B)
<1>. DEFINE request == Request("BYE", w.call.call, w.call.cseq + 1)
            said    == Say(w, request)
            sent    == [said EXCEPT !.bye = Pending(request)]
            v       == FinishCall(sent)
<1>1. Good(w, H) /\ Tidy(w, M, T, B) /\ Parted(M, T, B) /\ Good(SendBye(w), H)
  BY GoodSendBye DEF Fine
<1>2. CASE w.call = NoDialog
  <2>1. SendBye(w) = [w EXCEPT !.answer = Free]
    BY <1>2 DEF SendBye, ByeUnderway
  <2>2. Less(SendBye(w), w)
    BY <1>1, <2>1, NothingIsPlain DEF Less, Good, Worker
  <2>. QED
    BY <1>1, <2>2, FineLess
<1>3. CASE w.call # NoDialog /\ ~ByeUnderway(w)
  <2>1. SendBye(w) = v
    BY <1>3 DEF SendBye
  <2>2. /\ w.call.call \in Call \cup {NoCall} /\ w.call.cseq \in Nat
        /\ request \in Message /\ IsBye(request)
        /\ request.call = w.call.call /\ request.cseq = w.call.cseq + 1
    <3>1. w.call.call \in Call \cup {NoCall} /\ w.call.cseq \in Nat
      BY <1>1 DEF Good, Worker
    <3>2. w.call.cseq + 1 \in Nat
      BY <3>1
    <3>3. request \in Message
      BY <3>1, <3>2, RequestType
    <3>4. IsBye(request) /\ request.call = w.call.call /\ request.cseq = w.call.cseq + 1
      BY DEF Request, IsBye
    <3>. QED
      BY <3>1, <3>3, <3>4
  <2>3. ByesOf(said, B) = ByesOf(w, B) \cup {request}
    <3>1. ByesOf(said, B) = ByesOf(w, B) \cup {n \in {request} : IsBye(n)}
      BY <1>1, <2>2, OutOfSay
    <3>2. {n \in {request} : IsBye(n)} = {request}
      BY <2>2
    <3>. QED
      BY <3>1, <3>2
  <2>4. said \in Worker /\ said.call = w.call /\ said.kept = w.kept
        /\ said.held_dial = w.held_dial
    <3>1. Founded(request, H)
      BY <2>2 DEF IsBye, Founded
    <3>2. Good(said, H)
      BY <1>1, <2>2, <3>1, GoodSay
    <3>. HIDE DEF request
    <3>. QED
      BY <1>1, <3>2 DEF Say, Good, Worker
  <2>5. /\ v.call = NoDialog /\ v.invite = Free /\ v.cancel = Free /\ v.answer = Free
        /\ v.bye = Pending(request) /\ v.out = said.out /\ v.kept = w.kept
        /\ v.held_dial = w.held_dial
    <3>. HIDE DEF said, request
    <3>. QED
      BY <2>4 DEF FinishCall, Tell, Worker
  <2>6. v.bye.request = request
    BY <2>2, <2>5, PendingType
  <2>7. request \in {said.out[i] : i \in 1 .. Len(said.out)}
    BY <1>1, <2>2, OutOfSay
  <2>. HIDE DEF v, said
  <2>8. ByesOf(v, B) \subseteq ByesOf(w, B) \cup {request}
    <3>1. ByesOf(v, B) \subseteq ByesOf(said, B)
      BY <2>5, <2>6, <2>7 DEF ByesOf
    <3>. QED
      BY <2>3, <3>1
  <2>9. ASSUME NEW m \in ByesOf(w, B), m.call = w.call.call
        PROVE  m = request
    <3>1. Last(m, w, M, T) /\ m.call \in T
      BY <1>1, <2>9 DEF Tidy, Last
    <3>2. m.cseq = 2 /\ w.call.cseq = 1
      BY <1>1, <1>3, <2>9, <3>1 DEF Tidy, Last, Parted
    <3>3. m \in Message /\ IsBye(m)
      <4>1. \A i \in 1 .. Len(w.out) : w.out[i] \in Message
        BY <1>1, ElementOfSeq DEF Good, Worker
      <4>2. w.bye.request \in Message
        BY <1>1 DEF Good, Worker, Slot
      <4>. QED
        BY <1>1, <4>1, <4>2 DEF ByesOf, Parted
    <3>. QED
      BY <2>2, <2>9, <3>2, <3>3 DEF Message, IsBye
  <2>10. Last(request, v, M, T)
    <3>1. w.call.call \in M \/ (w.call.call \in T /\ w.call.cseq = 1)
      BY <1>1, <1>3 DEF Tidy
    <3>2. w.call.call \in M => w.call.call # NoCall /\ w.call.call \notin T
      BY <1>1, NothingIsPlain DEF Parted
    <3>3. w.call.call \in M => w.held_dial # w.call.call
      BY <1>1, <3>2 DEF Tidy
    <3>. QED
      BY <2>2, <2>5, <3>1, <3>2, <3>3, NothingIsPlain DEF Last
  <2>11. \A m \in ByesOf(w, B) : Last(m, v, M, T)
    BY <1>1, <2>5, NothingIsPlain DEF Tidy, Last, Parted
  <2>12. \A m, n \in ByesOf(v, B) : m.call = n.call => m = n
    BY <1>1, <2>2, <2>8, <2>9 DEF Tidy
  <2>13. \A i \in 1 .. Len(v.out) : Fit(v.out[i], M)
    <3>1. Fit(request, M)
      BY <2>2 DEF Fit, IsBye, IsInvite, Challenge
    <3>. QED
      BY <1>1, <2>2, <2>5, <3>1, OutOfSay DEF Tidy, said
  <2>14. Fit(v.bye.request, M)
    BY <2>2, <2>6 DEF Fit, IsBye, IsInvite, Challenge
  <2>15. v.held_dial # NoCall => v.held_dial \in M /\ v.held_dial # v.call.call
    BY <1>1, <2>5, NothingIsPlain DEF Tidy, Parted
  <2>16. Tidy(v, M, T, B)
    BY <1>1, <2>5, <2>8, <2>10, <2>11, <2>12, <2>13, <2>14, <2>15, NothingIsPlain DEF Tidy
  <2>. QED
    BY <1>1, <2>1, <2>16 DEF Fine
<1>4. CASE ByeUnderway(w)
  BY <1>4 DEF SendBye
<1>. QED
  BY <1>2, <1>3, <1>4

LEMMA FineSendCancel ==
  ASSUME NEW H, NEW M, NEW T, NEW B, NEW w, Fine(w, H, M, T, B), w.invite.prov
  PROVE  Fine(SendCancel(w), H, M, T, B)
<1>. DEFINE request == [w.invite.request EXCEPT !.method = "CANCEL"]
            said    == Say(w, request)
            v       == [said EXCEPT
                          !.invite.cancelled = TRUE, !.cancel = Pending(request),
                          !.cancel_wanted = FALSE, !.state = "cancelling"]
<1>1. Good(w, H) /\ Good(SendCancel(w), H)
  BY GoodSendCancel DEF Fine
<1>. SUFFICES ASSUME w.invite # Free, ~w.invite.cancelled
              PROVE  Fine(v, H, M, T, B)
  BY DEF SendCancel
<1>2. Good(v, H)
  BY <1>1 DEF SendCancel
<1>3. w.invite \in Slot /\ IsInvite(w.invite.request) /\ w.invite.request \in H
  BY <1>1 DEF Good, Worker
<1>4. request \in Message /\ request.method = "CANCEL" /\ request.code = "Request"
  BY <1>3 DEF Slot, Message, IsInvite
<1>5. [request EXCEPT !.method = "INVITE"] = w.invite.request
  BY <1>3 DEF Slot, Message, IsInvite
<1>6. Founded(request, H) /\ Plain(request)
  BY <1>3, <1>4, <1>5 DEF Founded, Plain, IsBye, IsInvite, Challenge
<1>7. Fine(said, H, M, T, B) /\ said.invite = w.invite
  BY <1>1, <1>4, <1>6, FineSay DEF Plain, Fit, Say, Good, Worker
<1>8. Pending(request).request = request
  BY <1>4, PendingType
<1>. HIDE DEF said, request
<1>9. /\ v.call = said.call /\ v.invite.request = said.invite.request
      /\ v.held_dial = said.held_dial /\ v.cancel.request = request /\ v.answer = said.answer
      /\ v.bye = said.bye /\ v.kept = said.kept /\ v.out = said.out
  BY <1>7, <1>8 DEF Fine, Good, Worker, Slot
<1>. HIDE DEF v
<1>10. ByesOf(v, B) = ByesOf(said, B)
  BY <1>9 DEF ByesOf
<1>11. Tidy(v, M, T, B)
  BY <1>6, <1>7, <1>9, <1>10 DEF Fine, Tidy, Last
<1>. QED
  BY <1>2, <1>7, <1>11 DEF Fine

LEMMA FineWantCancel ==
  ASSUME NEW H, NEW M, NEW T, NEW B, NEW w, Fine(w, H, M, T, B)
  PROVE  Fine(WantCancel(w), H, M, T, B)
<1>. DEFINE v == [w EXCEPT !.cancel_wanted = TRUE, !.state = "cancelling"]
<1>1. Good(w, H)
  BY DEF Fine
<1>2. Good(v, H)
  BY <1>1, SetWanted
<1>3. Less(v, w)
  BY <1>1 DEF Less, Good, Worker
<1>. QED
  BY <1>2, <1>3, FineLess, FineSendCancel DEF WantCancel

LEMMA FineDecline ==
  ASSUME NEW H, NEW M, NEW T, NEW B, NEW w, Fine(w, H, M, T, B), w.ringing # Nothing
  PROVE  Fine(Decline(w), H, M, T, B)
<1>. DEFINE gone == Respond(w, w.ringing, "Declined")
            v    == [gone EXCEPT !.ringing = Nothing, !.call = NoDialog, !.state = "idle"]
<1>1. w.ringing \in Message /\ w.ringing \in H /\ IsInvite(w.ringing)
  BY DEF Fine, Good, Worker
<1>2. Fine(gone, H, M, T, B)
  BY <1>1, FineRespond DEF IsInvite, Code, Refusal, Challenge
<1>. HIDE DEF gone
<1>3. Good(v, H)
  BY <1>2, SetNoCall DEF Fine
<1>4. Less(v, gone)
  BY <1>2 DEF Less, Fine, Good, Worker
<1>5. Fine(v, H, M, T, B)
  BY <1>2, <1>3, <1>4, FineLess
<1>. HIDE DEF v
<1>. QED
  BY <1>1, <1>5, FineTell DEF Decline, Word, Message, gone, v

LEMMA FineGiveUpHeldDial ==
  ASSUME NEW H, NEW M, NEW T, NEW B, NEW w, Fine(w, H, M, T, B)
  PROVE  Fine(GiveUpHeldDial(w), H, M, T, B)
<1>1. Good(w, H) /\ Good(GiveUpHeldDial(w), H)
  BY GoodGiveUpHeldDial DEF Fine
<1>2. Less(GiveUpHeldDial(w), w)
  BY <1>1 DEF Less, Good, Worker, GiveUpHeldDial, Tell
<1>. QED
  BY <1>1, <1>2, FineLess

\* A number that no call and no BYE of this end has had.
Unused(number, w, M, B) ==
  /\ number \in M /\ number # w.call.call
  /\ \A m \in ByesOf(w, B) : m.call # number

LEMMA FinePlaceCall ==
  ASSUME NEW H, NEW M, NEW T, NEW B, NEW w, Fine(w, H, M, T, B), NEW number,
         Unused(number, w, M, B), w.held_dial # number
  PROVE  Fine(PlaceCall(w, number), H, M, T, B)
<1>. DEFINE request == Request("INVITE", number, 1)
            said    == Say(w, request)
            v       == [said EXCEPT !.call = Dialog(number, 1), !.invite = Pending(request),
                                    !.state = "dialling"]
<1>1. Good(w, H) /\ Tidy(w, M, T, B) /\ Parted(M, T, B) /\ number \in Call
  BY DEF Fine, Unused, Parted
<1>2. request \in Message /\ IsInvite(request) /\ request.call = number
  BY <1>1, RequestType DEF Request, IsInvite
<1>3. Fine(said, H, M, T, B)
  BY <1>2, FineSay DEF Founded, Fit, IsInvite, IsBye, Challenge, Unused
<1>4. CASE StillGettingRidOfACall(w)
  <2>. DEFINE given == GiveUpHeldDial(w)
              held  == [given EXCEPT !.held_dial = number]
  <2>1. Fine(given, H, M, T, B)
    BY FineGiveUpHeldDial
  <2>2. given.call = w.call /\ given.bye = w.bye /\ given.out = w.out
    BY <1>1 DEF GiveUpHeldDial, Tell, Good, Worker
  <2>. HIDE DEF given
  <2>3. Good(held, H)
    BY <1>1, <2>1, SetHeld DEF Fine
  <2>4. /\ held.call = given.call /\ held.invite = given.invite /\ held.out = given.out
        /\ held.held_dial = number /\ held.cancel = given.cancel
        /\ held.answer = given.answer /\ held.bye = given.bye /\ held.kept = given.kept
    BY <2>1 DEF Fine, Good, Worker
  <2>. HIDE DEF held
  <2>5. ByesOf(held, B) = ByesOf(given, B) /\ ByesOf(held, B) = ByesOf(w, B)
    BY <2>2, <2>4 DEF ByesOf
  <2>6. Tidy(held, M, T, B)
    BY <2>1, <2>2, <2>4, <2>5 DEF Fine, Tidy, Last, Unused
  <2>7. PlaceCall(w, number) = held
    BY <1>4 DEF PlaceCall, HoldADial, held, given
  <2>. QED
    BY <1>1, <2>3, <2>6, <2>7 DEF Fine
<1>5. CASE ~StillGettingRidOfACall(w) /\ (w.call # NoDialog \/ w.invite # Free)
  <2>1. PlaceCall(w, number) = Tell(w, "Failed", number)
    BY <1>5 DEF PlaceCall
  <2>. QED
    BY <1>1, <2>1, FineTell DEF Word
<1>6. CASE ~StillGettingRidOfACall(w) /\ w.call = NoDialog /\ w.invite = Free
  <2>1. PlaceCall(w, number) = Tell(v, "Dialling", number)
    BY <1>6 DEF PlaceCall
  <2>2. Good(v, H)
    BY <1>1, <1>2, <1>3, PendingType, SetCall DEF Fine
  <2>3. ByesOf(said, B) \subseteq ByesOf(w, B)
    BY <1>1, <1>2, OutOfSay DEF IsBye, IsInvite
  <2>4. said.held_dial = w.held_dial
    BY <1>1 DEF Say, Good, Worker
  <2>. HIDE DEF said
  <2>5. /\ v.call = Dialog(number, 1) /\ v.invite = Pending(request) /\ v.out = said.out
        /\ v.held_dial = said.held_dial /\ v.cancel = said.cancel
        /\ v.answer = said.answer /\ v.bye = said.bye /\ v.kept = said.kept
    BY <1>3 DEF Fine, Good, Worker
  <2>6. v.call.call = number /\ v.invite.request = request
    BY <1>2, <2>5, PendingType DEF Dialog
  <2>. HIDE DEF v, request
  <2>7. ByesOf(v, B) = ByesOf(said, B)
    BY <2>5 DEF ByesOf
  <2>8. \A m \in ByesOf(v, B) : Last(m, v, M, T)
    BY <1>3, <2>3, <2>5, <2>6, <2>7 DEF Fine, Tidy, Last, Unused
  <2>9. Tidy(v, M, T, B)
    BY <1>1, <1>2, <1>3, <2>4, <2>5, <2>6, <2>7, <2>8 DEF Fine, Tidy, Unused
  <2>10. Fine(v, H, M, T, B)
    BY <1>1, <2>2, <2>9 DEF Fine
  <2>. QED
    BY <1>1, <2>1, <2>10, FineTell DEF Word
<1>. QED
  BY <1>4, <1>5, <1>6

LEMMA FineAcceptCall ==
  ASSUME NEW H, NEW M, NEW T, NEW B, NEW w, Fine(w, H, M, T, B), w.ringing # Nothing, NEW usable
  PROVE  Fine(AcceptCall(w, usable), H, M, T, B)
<1>. DEFINE request == w.ringing
            taken   == [w EXCEPT !.ringing = Nothing]
            agreed  == Respond(taken, request, "OK")
            refused == Respond(taken, request, "NotAcceptable")
            up      == [agreed EXCEPT !.call.established = w.call # NoDialog, !.state = "answered"]
            over    == [refused EXCEPT !.call = NoDialog, !.state = "idle"]
<1>1. Good(w, H) /\ request \in Message /\ request \in H /\ IsInvite(request)
  BY DEF Fine, Good, Worker
<1>2. Good(taken, H) /\ Less(taken, w) /\ taken.call = w.call
  <2>1. Good(taken, H)
    BY <1>1, FreeType DEF Good, Worker, Sound
  <2>2. Less(taken, w) /\ taken.call = w.call
    BY <1>1 DEF Less, Good, Worker
  <2>. QED
    BY <2>1, <2>2
<1>3. Fine(taken, H, M, T, B)
  BY <1>2, FineLess
<1>. HIDE DEF taken
<1>4. Fine(agreed, H, M, T, B) /\ Fine(refused, H, M, T, B)
  BY <1>1, <1>3, FineRespond DEF IsInvite, Code, Refusal, Challenge
<1>5. agreed.call = w.call
  BY <1>2, <1>3 DEF Respond, Remember, Say, Fine, Good, Worker
<1>. HIDE DEF agreed, refused
<1>6. Good(up, H) /\ Good(over, H)
  BY <1>4, SetUp, SetNoCall DEF Fine
<1>7. Less(over, refused)
  BY <1>4 DEF Less, Fine, Good, Worker
<1>8. Less(up, agreed)
  <2>1. /\ up.invite = agreed.invite /\ up.held_dial = agreed.held_dial
        /\ up.cancel = agreed.cancel /\ up.answer = agreed.answer /\ up.bye = agreed.bye
        /\ up.kept = agreed.kept /\ up.out = agreed.out
        /\ up.call = [w.call EXCEPT !.established = w.call # NoDialog]
    BY <1>4, <1>5 DEF Fine, Good, Worker
  <2>2. CASE w.call = NoDialog
    <3>1. [NoDialog EXCEPT !.established = FALSE] = NoDialog
      <4>1. /\ NoDialog \in [call : Call \cup {NoCall}, cseq : Nat, invite_cseq : Nat,
                             established : BOOLEAN]
            /\ NoDialog.established = FALSE
        BY FreeType DEF NoDialog, Dialog
      <4>. QED
        BY <4>1
    <3>2. (w.call # NoDialog) = FALSE
      BY <2>2
    <3>3. up.call = NoDialog
      BY <2>1, <2>2, <3>1, <3>2
    <3>. QED
      BY <2>1, <3>3 DEF Less
  <2>3. CASE w.call # NoDialog
    <3>1. up.call.call = w.call.call /\ up.call.cseq = w.call.cseq
      BY <1>1, <2>1 DEF Good, Worker
    <3>. QED
      BY <1>5, <2>1, <2>3, <3>1 DEF Less
  <2>. QED
    BY <2>2, <2>3
<1>9. Fine(up, H, M, T, B) /\ Fine(over, H, M, T, B)
  BY <1>4, <1>6, <1>7, <1>8, FineLess
<1>. HIDE DEF up, over
<1>. QED
  BY <1>1, <1>9, FineTell DEF AcceptCall, Word, Message, up, over, agreed, refused, taken

LEMMA FineEndCall ==
  ASSUME NEW H, NEW M, NEW T, NEW B, NEW w, Fine(w, H, M, T, B)
  PROVE  Fine(EndCall(w), H, M, T, B)
<1>. DEFINE v == GiveUpHeldDial(w)
<1>1. Fine(v, H, M, T, B)
  BY FineGiveUpHeldDial
<1>2. Fine([v EXCEPT !.state = "idle"], H, M, T, B)
  BY <1>1, FineState DEF State
<1>. HIDE DEF v
<1>3. Fine(HangUpNow(v), H, M, T, B)
  BY <1>1, <1>2, FineDecline, FineSendBye, FineWantCancel DEF HangUpNow
<1>. QED
  BY <1>3 DEF EndCall, v

-----------------------------------------------------------------------------
(* Responses.                                                              *)

LEMMA FineSendAck ==
  ASSUME NEW H, NEW M, NEW T, NEW B, NEW w, Fine(w, H, M, T, B), NEW response \in Message
  PROVE  Fine(SendAck(w, response), H, M, T, B)
<1>. DEFINE ack == Request("ACK", w.call.call, response.cseq)
<1>1. w.call.call \in Call \cup {NoCall} /\ response.cseq \in Nat
  BY DEF Fine, Good, Worker, Message
<1>2. ack \in Message /\ Founded(ack, H) /\ Plain(ack)
  BY <1>1, RequestType DEF Founded, Request, Plain, IsBye, IsInvite, Challenge
<1>. QED
  BY <1>2, FineSay DEF SendAck, Plain, Fit

LEMMA FineAckFailure ==
  ASSUME NEW H, NEW M, NEW T, NEW B, NEW w, Fine(w, H, M, T, B)
  PROVE  Fine(AckFailure(w), H, M, T, B)
<1>. DEFINE ack == [w.invite.request EXCEPT !.method = "ACK"]
<1>1. w.invite.request \in Message /\ w.invite.request.code = "Request"
  BY FreeType DEF Fine, Good, Worker, Slot, IsInvite, Nothing, Request
<1>2. ack \in Message /\ Founded(ack, H) /\ Plain(ack)
  BY <1>1 DEF Message, Founded, Plain, IsBye, IsInvite, Challenge
<1>. QED
  BY <1>2, FineSay DEF AckFailure, Plain, Fit

\* The next number is the INVITE's, and the call has it too if it is the one
\* that was dialled: it is no call of the far end's when only one end dials.
LEMMA FineRetry ==
  ASSUME NEW H, NEW M, NEW T, NEW B, NEW w, Fine(w, H, M, T, B), M = {} \/ T = {},
         w.invite # Free, w.invite.attempts < AUTH_ATTEMPTS
  PROVE  Fine(RetryWithCredentials(w), H, M, T, B)
<1>. DEFINE cseq    == w.invite.request.cseq + 1
            request == [w.invite.request EXCEPT !.cseq = cseq]
            call    == IF w.call = NoDialog THEN NoDialog
                       ELSE [w.call EXCEPT !.cseq = cseq, !.invite_cseq = cseq]
            known   == [w EXCEPT !.call = call]
            slot    == [Pending(request) EXCEPT !.attempts = w.invite.attempts + 1]
            v       == [Say(known, request) EXCEPT !.invite = slot]
<1>1. Good(w, H) /\ Tidy(w, M, T, B) /\ Parted(M, T, B) /\ Good(RetryWithCredentials(w), H)
  BY GoodRetry DEF Fine
<1>2. w.invite.request \in Message /\ IsInvite(w.invite.request) /\ w.invite.request.call \in M
  BY <1>1 DEF Tidy, Good, Worker, Slot
<1>3. cseq \in Nat /\ request \in Message /\ IsInvite(request) /\ request.call \in M
  BY <1>2 DEF Message, IsInvite
<1>4. v = RetryWithCredentials(w)
  BY <1>1 DEF RetryWithCredentials, Good, Worker
<1>5. T = {} /\ (w.call # NoDialog => w.call.call \in M)
  BY <1>1, <1>2 DEF Tidy
<1>6. /\ known \in Worker /\ known.call = call /\ call.call = w.call.call
      /\ call = NoDialog <=> w.call = NoDialog
      /\ known.invite = w.invite /\ known.out = w.out /\ known.bye = w.bye
      /\ known.held_dial = w.held_dial /\ known.cancel = w.cancel
      /\ known.answer = w.answer /\ known.kept = w.kept
  <2>. HIDE DEF cseq
  <2>1. /\ call \in [call : Call \cup {NoCall}, cseq : Nat, invite_cseq : Nat,
                     established : BOOLEAN]
        /\ call.call = w.call.call
    BY <1>1, <1>3 DEF Good, Worker, NoDialog, Dialog
  <2>2. call = NoDialog <=> w.call = NoDialog
    BY <1>1, <1>5, <2>1, NothingIsPlain DEF Parted
  <2>. HIDE DEF call
  <2>. QED
    BY <1>1, <2>1, <2>2 DEF Good, Worker
<1>7. Good(known, H)
  BY <1>1, <1>6 DEF Good
<1>. HIDE DEF known, request, call
<1>8. ByesOf(known, B) = ByesOf(w, B)
  BY <1>6 DEF ByesOf
<1>9. Fine(known, H, M, T, B)
  BY <1>1, <1>5, <1>6, <1>7, <1>8 DEF Fine, Tidy, Last
<1>10. Fine(Say(known, request), H, M, T, B)
  BY <1>3, <1>9, FineSay DEF Founded, Fit, IsInvite, IsBye, Challenge
<1>11. slot.request = request
  BY <1>3, PendingType DEF Pending
<1>. DEFINE said == Say(known, request)
<1>. HIDE DEF slot, said
<1>12. /\ v.call = said.call /\ v.invite.request = request /\ v.out = said.out
       /\ v.held_dial = said.held_dial /\ v.cancel = said.cancel
       /\ v.answer = said.answer /\ v.bye = said.bye /\ v.kept = said.kept
  BY <1>10, <1>11 DEF Fine, Good, Worker, said
<1>. HIDE DEF v
<1>13. ByesOf(v, B) = ByesOf(said, B)
  BY <1>12 DEF ByesOf
<1>14. Tidy(v, M, T, B)
  BY <1>3, <1>10, <1>12, <1>13 DEF Fine, Tidy, Last, said
<1>. QED
  BY <1>1, <1>4, <1>14 DEF Fine

LEMMA FineInviteProvisional ==
  ASSUME NEW H, NEW M, NEW T, NEW B, NEW w, Fine(w, H, M, T, B),
         w.invite # Free, w.invite.request \in H, NEW response
  PROVE  Fine(InviteProvisional(w, response), H, M, T, B)
<1>. DEFINE slot  == [w.invite EXCEPT !.prov = TRUE]
            state == IF response.code = "Ringing" THEN "ringing" ELSE w.state
            known == [w EXCEPT !.invite = slot, !.state = state]
<1>0. Good(w, H)
  BY DEF Fine
<1>1. slot \in Slot /\ slot.request = w.invite.request /\ slot.prov /\ IsInvite(slot.request)
  BY <1>0 DEF Good, Worker, Slot
<1>2. state \in State
  BY <1>0 DEF Good, Worker, State
<1>3. [w EXCEPT !.invite.prov = TRUE, !.state = IF response.code = "Ringing" THEN "ringing" ELSE @]
        = known
  BY <1>0 DEF Good, Worker
<1>. HIDE DEF slot, state
<1>4. Good(known, H) /\ known.invite = slot
  BY <1>0, <1>1, <1>2 DEF Good, Worker, Sound
<1>5. Less(known, w)
  BY <1>0, <1>1 DEF Less, Good, Worker
<1>6. Fine(known, H, M, T, B)
  BY <1>4, <1>5, FineLess
<1>. HIDE DEF known
<1>. QED
  BY <1>1, <1>3, <1>4, <1>6, FineSendCancel DEF InviteProvisional, known

LEMMA FineInviteAccepted ==
  ASSUME NEW H, NEW M, NEW T, NEW B, NEW w, Fine(w, H, M, T, B), NEW response \in Message,
         NEW readable
  PROVE  Fine(InviteAccepted(w, response, readable), H, M, T, B)
<1>. DEFINE adopted == AdoptDialog(w, response)
            up      == SendAck(adopted, response)
            quiet   == [up EXCEPT !.cancel = Free, !.cancel_wanted = FALSE]
<1>1. Good(w, H) /\ Good(adopted, H)
  BY GoodAdoptDialog DEF Fine
<1>2. Less(adopted, w)
  BY <1>1 DEF Less, AdoptDialog, Good, Worker
<1>3. Fine(adopted, H, M, T, B)
  BY <1>1, <1>2, FineLess
<1>. HIDE DEF adopted
<1>4. Fine(up, H, M, T, B)
  BY <1>3, FineSendAck
<1>. HIDE DEF up
<1>5. Good(quiet, H)
  BY <1>4, SetNotCancelled DEF Fine
<1>6. Less(quiet, up)
  BY <1>4, NothingIsPlain DEF Less, Fine, Good, Worker
<1>7. Fine(quiet, H, M, T, B)
  BY <1>4, <1>5, <1>6, FineLess
<1>8. Fine([up EXCEPT !.state = "up"], H, M, T, B)
  BY <1>4, FineState DEF State
<1>. HIDE DEF quiet
<1>9. Fine(Tell([up EXCEPT !.state = "up"], "Answered", response.call), H, M, T, B)
  BY <1>8, FineTell DEF Word, Message
<1>. QED
  BY <1>4, <1>7, <1>9, FineSendBye DEF InviteAccepted, up, adopted, quiet

LEMMA FineInviteFailed ==
  ASSUME NEW H, NEW M, NEW T, NEW B, NEW w, Fine(w, H, M, T, B)
  PROVE  Fine(InviteFailed(w), H, M, T, B)
<1>1. Good(w, H) /\ Good(InviteFailed(w), H)
  BY GoodInviteFailed DEF Fine
<1>2. Less(InviteFailed(w), w)
  BY <1>1, NothingIsPlain DEF Less, Good, Worker, InviteFailed, Tell
<1>. QED
  BY <1>1, <1>2, FineLess


\* Credentials are asked for only where no call is the far end's.
LEMMA FineInviteAnswered ==
  ASSUME NEW H, NEW M, NEW T, NEW B, NEW w, Fine(w, H, M, T, B), NEW response \in Message,
         Founded(response, H), response.code # "Request",
         response.code \in Challenge => M = {} \/ T = {},
         Answers(w.invite.request, response), NEW readable
  PROVE  Fine(InviteAnswered(w, response, readable), H, M, T, B)
<1>0. Good(w, H)
  BY DEF Fine
<1>1. w.invite.request \in Message
  BY <1>0 DEF Good, Worker, Slot
<1>2. w.invite.request = Response(response, "Request") /\ w.invite.request.method # "None"
  BY <1>1, AnswersAlike DEF Founded
<1>3. w.invite # Free /\ IsInvite(w.invite.request)
  BY <1>0, <1>2, FreeType DEF Good, Nothing, Request
<1>4. w.invite.request \in H
  BY <1>1, <1>2, <1>3, AnswersAlike DEF Founded, IsInvite
<1>5. CASE response.code \in Provisional
  <2>1. InviteAnswered(w, response, readable) = InviteProvisional(w, response)
    BY <1>5 DEF InviteAnswered, Provisional, Challenge
  <2>. QED
    BY <1>3, <1>4, <2>1, FineInviteProvisional
<1>6. CASE response.code = "OK"
  <2>1. response.code \notin Provisional /\ response.code \notin Challenge
    BY <1>6 DEF Provisional, Challenge
  <2>2. InviteAnswered(w, response, readable) = InviteAccepted(w, response, readable)
    BY <1>6, <2>1 DEF InviteAnswered
  <2>. QED
    BY <2>2, FineInviteAccepted
<1>7. CASE response.code \in Challenge /\ MayAnswerAgain(w.invite.attempts, response)
  <2>1. AckFailure(w).invite = w.invite
    BY <1>0 DEF AckFailure, Say, Good, Worker
  <2>2. Fine(AckFailure(w), H, M, T, B)
    BY FineAckFailure
  <2>3. w.invite.attempts < AUTH_ATTEMPTS
    BY <1>0, <1>7 DEF MayAnswerAgain, AUTH_ATTEMPTS, Good, Worker, Slot
  <2>4. Fine(RetryWithCredentials(AckFailure(w)), H, M, T, B)
    BY <1>3, <1>7, <2>1, <2>2, <2>3, FineRetry
  <2>5. response.code \notin Provisional /\ response.code # "OK"
    BY <1>7 DEF Provisional, Challenge
  <2>6. InviteAnswered(w, response, readable) = RetryWithCredentials(AckFailure(w))
    BY <1>7, <2>5 DEF InviteAnswered
  <2>. QED
    BY <2>4, <2>6
<1>8. CASE ~(response.code \in Provisional) /\ response.code # "OK"
           /\ ~(response.code \in Challenge /\ MayAnswerAgain(w.invite.attempts, response))
  <2>1. InviteAnswered(w, response, readable) = InviteFailed(AckFailure(w))
    BY <1>8 DEF InviteAnswered
  <2>. QED
    BY <2>1, FineAckFailure, FineInviteFailed
<1>. QED
  BY <1>5, <1>6, <1>7, <1>8

LEMMA FineHandleResponse ==
  ASSUME NEW H, NEW M, NEW T, NEW B, NEW w, Fine(w, H, M, T, B), NEW response \in Message,
         Founded(response, H), response.code # "Request",
         response.code \in Challenge => M = {} \/ T = {}, NEW readable
  PROVE  Fine(HandleResponse(w, response, readable), H, M, T, B)
<1>0. Good(w, H)
  BY DEF Fine
<1>1. Good([w EXCEPT !.cancel = Free], H) /\ Good([w EXCEPT !.bye = Free], H)
  BY <1>0, SetFree
<1>2. Less([w EXCEPT !.cancel = Free], w) /\ Less([w EXCEPT !.bye = Free], w)
  BY <1>0, NothingIsPlain DEF Less, Good, Worker
<1>3. Fine([w EXCEPT !.cancel = Free], H, M, T, B) /\ Fine([w EXCEPT !.bye = Free], H, M, T, B)
  BY <1>1, <1>2, FineLess
<1>4. Fine(StrayInviteResponse(w, response), H, M, T, B)
  BY FineSendAck DEF StrayInviteResponse
<1>. QED
  BY <1>3, <1>4, FineInviteAnswered DEF HandleResponse

-----------------------------------------------------------------------------
(* Requests.                                                               *)

\* A call that comes from the far end starts from its first number.
LEMMA FineIncomingInvite ==
  ASSUME NEW H, NEW M, NEW T, NEW B, NEW w, Fine(w, H, M, T, B), NEW request \in Message,
         IsInvite(request), request \in H, request.call \in T
  PROVE  Fine(IncomingInvite(w, request), H, M, T, B)
<1>. DEFINE trying  == Respond(w, request, "Trying")
            ringing == Respond(trying, request, "Ringing")
            call    == Dialog(request.call, request.cseq)
            v       == [ringing EXCEPT !.call = call, !.ringing = request,
                                       !.state = "ringing here"]
<1>1. \A u, code : Fine(u, H, M, T, B) /\ code \in Code \ ({"Request"} \cup Challenge)
                     => Fine(Respond(u, request, code), H, M, T, B)
  BY FineRespond DEF IsInvite
<1>2. Fine(ringing, H, M, T, B) /\ Parted(M, T, B)
  BY <1>1 DEF Code, Provisional, Challenge, Fine
<1>3. call.call = request.call /\ call.cseq = 1 /\ request.call \in Call
  BY <1>2 DEF Dialog, Parted
<1>. HIDE DEF ringing
<1>4. Good(v, H)
  BY <1>2, SetRinging DEF Fine
<1>5. /\ v.call = call /\ v.invite = ringing.invite /\ v.out = ringing.out
      /\ v.held_dial = ringing.held_dial /\ v.cancel = ringing.cancel
      /\ v.answer = ringing.answer /\ v.bye = ringing.bye /\ v.kept = ringing.kept
  BY <1>2 DEF Fine, Good, Worker
<1>. HIDE DEF v, call
<1>6. ByesOf(v, B) = ByesOf(ringing, B)
  BY <1>5 DEF ByesOf
<1>7. request.call \notin M
  BY <1>2 DEF Parted
<1>8. Tidy(v, M, T, B)
  BY <1>2, <1>3, <1>5, <1>6, <1>7 DEF Fine, Tidy, Last
<1>9. Fine(v, H, M, T, B)
  BY <1>2, <1>4, <1>8 DEF Fine
<1>10. Fine(Tell(v, "Incoming", request.call), H, M, T, B)
  BY <1>3, <1>9, FineTell DEF Word
<1>. QED
  BY <1>1, <1>10 DEF IncomingInvite, ringing, call, v, Code, Provisional, Refusal, Challenge

LEMMA FineOnBye ==
  ASSUME NEW H, NEW M, NEW T, NEW B, NEW w, Fine(w, H, M, T, B), NEW request \in Message,
         request.code = "Request", request.method = "BYE"
  PROVE  Fine(OnBye(w, request), H, M, T, B)
<1>1. /\ Fine(Respond(w, request, "OK"), H, M, T, B)
      /\ Fine(Respond(w, request, "NoSuchCall"), H, M, T, B)
  BY FineRespond DEF Code, Refusal, Challenge
<1>. QED
  BY <1>1, FineFinishCall DEF OnBye

LEMMA FineOnCancel ==
  ASSUME NEW H, NEW M, NEW T, NEW B, NEW w, Fine(w, H, M, T, B), NEW request \in Message,
         request.code = "Request", request.method = "CANCEL"
  PROVE  Fine(OnCancel(w, request), H, M, T, B)
<1>. DEFINE taken == Respond(w, request, "OK")
            quiet == [taken EXCEPT !.ringing = Nothing]
<1>1. Fine(taken, H, M, T, B) /\ Fine(Respond(w, request, "NoSuchCall"), H, M, T, B)
  BY FineRespond DEF Code, Refusal, Challenge
<1>. HIDE DEF taken
<1>2. Good(quiet, H)
  BY <1>1, SetFree DEF Fine
<1>3. Less(quiet, taken)
  BY <1>1 DEF Less, Fine, Good, Worker
<1>4. Fine(quiet, H, M, T, B)
  BY <1>1, <1>2, <1>3, FineLess
<1>. HIDE DEF quiet
<1>5. ASSUME w.ringing # Nothing
      PROVE  Fine(Respond(quiet, w.ringing, "Terminated"), H, M, T, B)
  <2>1. w.ringing \in Message /\ w.ringing \in H /\ IsInvite(w.ringing)
    BY <1>5 DEF Fine, Good, Worker
  <2>. QED
    BY <1>4, <2>1, FineRespond DEF IsInvite, Code, Refusal, Challenge
<1>. QED
  BY <1>1, <1>5, FineFinishCall DEF OnCancel, quiet, taken

LEMMA FineHandleRequest ==
  ASSUME NEW H, NEW M, NEW T, NEW B, NEW w, Fine(w, H, M, T, B), NEW request \in Message,
         request.code = "Request", Founded(request, H),
         IsInvite(request) => request \in H /\ request.call \in T
  PROVE  Fine(HandleRequest(w, request), H, M, T, B)
<1>. DEFINE again == {r \in w.kept : Answers(request, r)}
            kept  == CHOOSE r \in again : TRUE
<1>1. CASE again # {}
  <2>1. kept \in w.kept
    BY <1>1
  <2>2. kept \in Message /\ Founded(kept, H) /\ Plain(kept)
    BY <2>1 DEF Fine, Good, Worker, Tidy
  <2>3. HandleRequest(w, request) = Say(w, kept)
    BY <1>1 DEF HandleRequest
  <2>. QED
    BY <2>2, <2>3, FineSay DEF Plain, Fit
<1>2. CASE again = {}
  <2>1. HandleRequest(w, request) = HandleAfresh(w, request)
    BY <1>2 DEF HandleRequest
  <2>2. request.method \in {"INVITE", "ACK", "CANCEL", "BYE"}
    BY DEF Founded, Message
  <2>3. CASE request.method = "INVITE"
    <3>1. HandleAfresh(w, request) = IncomingInvite(w, request)
      BY <2>3 DEF HandleAfresh
    <3>. QED
      BY <2>1, <2>3, <3>1, FineIncomingInvite DEF IsInvite
  <2>4. CASE request.method = "ACK"
    <3>1. HandleAfresh(w, request) = AnswerAcknowledged(w, request)
      BY <2>4 DEF HandleAfresh
    <3>2. Good([w EXCEPT !.answer = Free], H) /\ Good(w, H)
      BY SetAnswer, FreeType DEF Sound, Fine
    <3>3. Less([w EXCEPT !.answer = Free], w)
      BY <3>2, NothingIsPlain DEF Less, Good, Worker
    <3>. QED
      BY <2>1, <3>1, <3>2, <3>3, FineLess DEF AnswerAcknowledged
  <2>5. CASE request.method = "BYE"
    <3>1. HandleAfresh(w, request) = OnBye(w, request)
      BY <2>5 DEF HandleAfresh
    <3>. QED
      BY <2>1, <2>5, <3>1, FineOnBye
  <2>6. CASE request.method = "CANCEL"
    <3>1. HandleAfresh(w, request) = OnCancel(w, request)
      BY <2>6 DEF HandleAfresh
    <3>. QED
      BY <2>1, <2>6, <3>1, FineOnCancel
  <2>. QED
    BY <2>2, <2>3, <2>4, <2>5, <2>6
<1>. QED
  BY <1>1, <1>2

LEMMA FineHandle ==
  ASSUME NEW H, NEW M, NEW T, NEW B, NEW w, Fine(w, H, M, T, B), NEW m \in Message,
         Founded(m, H), IsInvite(m) => m \in H /\ m.call \in T,
         m.code \in Challenge => M = {} \/ T = {}, NEW readable
  PROVE  Fine(Handle(w, m, readable), H, M, T, B)
BY FineHandleRequest, FineHandleResponse DEF Handle

-----------------------------------------------------------------------------
(* Timers, and the connection made again.                                  *)

\* What a slot holds may be said again.
LEMMA SlotFits ==
  ASSUME NEW H, NEW M, NEW T, NEW B, NEW w, Fine(w, H, M, T, B), NEW slot \in Slots,
         w[slot] # Free
  PROVE  /\ w[slot] \in Slot /\ w[slot].request \in Message /\ Founded(w[slot].request, H)
         /\ Fit(w[slot].request, M)
         /\ IsBye(w[slot].request) => w[slot].request \in ByesOf(w, B)
<1>1. w[slot] \in Slot /\ w[slot].request \in Message /\ Founded(w[slot].request, H)
  BY SlotFounded DEF Fine
<1>. DEFINE m == w[slot].request
<1>2. Fit(m, M) /\ (IsBye(m) => m \in ByesOf(w, B))
  <2>1. CASE slot = "invite"
    <3>1. IsInvite(m) /\ m.call \in M
      BY <2>1 DEF Fine, Good, Tidy
    <3>. QED
      BY <3>1 DEF Fit, IsInvite, IsBye, Challenge
  <2>2. CASE slot = "bye"
    BY <2>2 DEF Fine, Tidy, ByesOf
  <2>3. CASE slot \in {"cancel", "answer"}
    BY <2>3 DEF Fine, Tidy, Plain, Fit
  <2>. QED
    BY <2>1, <2>2, <2>3 DEF Slots
<1>. QED
  BY <1>1, <1>2

LEMMA FineResend ==
  ASSUME NEW H, NEW M, NEW T, NEW B, NEW w, Fine(w, H, M, T, B), NEW slot \in Slots,
         Resends(w, slot)
  PROVE  Fine(Resend(w, slot), H, M, T, B)
<1>. DEFINE said == Say(w, w[slot].request)
            v    == [said EXCEPT ![slot] = [said[slot] EXCEPT !.tries = said[slot].tries + 1]]
<1>1. Fine(said, H, M, T, B) /\ Good(Resend(w, slot), H)
  BY SlotFits, FineSay, GoodResend DEF Resends, Fine
<1>2. Resend(w, slot) = v
  BY DEF Resend
<1>3. said[slot] = w[slot] /\ w[slot] # Free
  BY <1>1 DEF Resends, Say, Fine, Good, Worker, Slots
<1>. HIDE DEF said
<1>4. Less(v, said)
  <2>. DEFINE later == [said[slot] EXCEPT !.tries = said[slot].tries + 1]
  <2>1. said \in Worker
    BY <1>1 DEF Fine, Good
  <2>2. said[slot] \in Slot
    BY <2>1 DEF Worker, Slots
  <2>3. later.request = said[slot].request
    BY <2>2 DEF Slot
  <2>. HIDE DEF later
  <2>4. slot = "invite" => said.invite # Free
    BY <1>3
  <2>5. ASSUME NEW s, s.request = said[slot].request, slot = "invite" => said.invite # Free
        PROVE  Less([said EXCEPT ![slot] = s], said)
    <3>1. CASE slot = "invite"
      BY <2>1, <2>5, <3>1 DEF Less, Worker
    <3>2. CASE slot = "cancel"
      BY <2>1, <2>5, <3>2 DEF Less, Worker
    <3>3. CASE slot = "bye"
      BY <2>1, <2>5, <3>3 DEF Less, Worker
    <3>4. CASE slot = "answer"
      BY <2>1, <2>5, <3>4 DEF Less, Worker
    <3>. QED
      BY <3>1, <3>2, <3>3, <3>4 DEF Slots
  <2>. QED
    BY <2>3, <2>4, <2>5 DEF later
<1>. HIDE DEF v
<1>. QED
  BY <1>1, <1>2, <1>4, FineLess

LEMMA FineExpire ==
  ASSUME NEW H, NEW M, NEW T, NEW B, NEW w, Fine(w, H, M, T, B), NEW slot \in Slots
  PROVE  Fine(Expire(w, slot), H, M, T, B)
<1>0. Good(w, H) /\ Good(Expire(w, slot), H)
  BY GoodExpire DEF Fine
<1>1. CASE slot = "invite"
  <2>1. Less(Expire(w, slot), w)
    BY <1>0, <1>1, NothingIsPlain DEF Less, Good, Worker, Expire, Tell
  <2>. QED
    BY <1>0, <2>1, FineLess
<1>2. CASE slot = "answer"
  <2>1. Good([w EXCEPT !.answer = Free], H)
    BY <1>0, SetAnswer, FreeType DEF Sound
  <2>2. Less([w EXCEPT !.answer = Free], w)
    BY <1>0, NothingIsPlain DEF Less, Good, Worker
  <2>3. Expire(w, slot) = SendBye([w EXCEPT !.answer = Free])
    BY <1>2 DEF Expire
  <2>. QED
    BY <2>1, <2>2, <2>3, FineLess, FineSendBye
<1>3. CASE slot \in {"cancel", "bye"}
  <2>1. Less(Expire(w, slot), w)
    BY <1>0, <1>3, NothingIsPlain DEF Less, Good, Worker, Expire
  <2>. QED
    BY <1>0, <2>1, FineLess
<1>. QED
  BY <1>1, <1>2, <1>3 DEF Slots

LEMMA FineServeHeldDial ==
  ASSUME NEW H, NEW M, NEW T, NEW B, NEW w, Fine(w, H, M, T, B), w.held_dial # NoCall
  PROVE  Fine(ServeHeldDial(w), H, M, T, B)
<1>. DEFINE v == [w EXCEPT !.held_dial = NoCall]
<1>1. Good(w, H) /\ Tidy(w, M, T, B) /\ Parted(M, T, B)
  BY DEF Fine
<1>2. Good(v, H)
  BY <1>1 DEF Good, Worker, Sound
<1>3. Less(v, w)
  BY <1>1 DEF Less, Good, Worker
<1>4. Fine(v, H, M, T, B)
  BY <1>2, <1>3, FineLess
<1>5. v.call = w.call /\ v.held_dial = NoCall /\ ByesOf(v, B) = ByesOf(w, B)
  BY <1>1 DEF Good, Worker, ByesOf
<1>. HIDE DEF v
<1>6. Unused(w.held_dial, v, M, B)
  BY <1>1, <1>5 DEF Unused, Tidy, Last
<1>. QED
  BY <1>4, <1>5, <1>6, FinePlaceCall DEF ServeHeldDial, v

LEMMA FineConnectionRemade ==
  ASSUME NEW H, NEW M, NEW T, NEW B, NEW w, Fine(w, H, M, T, B)
  PROVE  /\ Fine(ConnectionRemade(w), H, M, T, B)
         /\ ByesOf(ConnectionRemade(w), B) = ByesOf(w, B)
<1>. DEFINE Again(v, slot) == IF v[slot] = Free THEN v ELSE Say(v, v[slot].request)
            Same(v) == Fine(v, H, M, T, B) /\ ByesOf(v, B) = ByesOf(w, B)
<1>1. ASSUME NEW v, NEW slot \in Slots, Same(v) PROVE Same(Again(v, slot))
  <2>1. CASE v[slot] = Free
    BY <1>1, <2>1
  <2>2. CASE v[slot] # Free
    <3>. DEFINE m == v[slot].request
    <3>1. /\ m \in Message /\ Founded(m, H) /\ Fit(m, M) /\ (IsBye(m) => m \in ByesOf(v, B))
          /\ Good(v, H)
      BY <1>1, <2>2, SlotFits DEF Fine
    <3>2. Again(v, slot) = Say(v, m)
      BY <2>2
    <3>. HIDE DEF m, Again
    <3>. QED
      BY <1>1, <3>1, <3>2, FineSay, SameByes
  <2>. QED
    BY <2>1, <2>2
<1>2. ConnectionRemade(w) = Again(Again(Again(Again(w, "invite"), "cancel"), "bye"), "answer")
  BY DEF ConnectionRemade
<1>3. Same(w)
  OBVIOUS
<1>. HIDE DEF Again, Same
<1>4. Same(ConnectionRemade(w))
  BY <1>1, <1>2, <1>3 DEF Slots
<1>. QED
  BY <1>4 DEF Same

-----------------------------------------------------------------------------
(* The two lines.                                                          *)

\* The calls of the ends that "by" says have dialled them.
Mine(by, e) == {c \in 1 .. dialled : by[c] = e}

SentByes(e) == {m \in Sent(e) : IsBye(m)}

\* What is on its way from end e.
Posted(by, e) ==
  \A m \in Sent(e) : /\ IsInvite(m) => m.call \in Mine(by, e)
                     /\ m.code \in Challenge => MaxChallenges # 0

Dealt(by) ==
  /\ by \in [Call -> End]
  /\ \A c \in 1 .. dialled : by[c] \in Callers
  /\ \A e \in End : /\ Tidy(worker[e], Mine(by, e), Mine(by, Peer(e)), SentByes(e))
                    /\ Posted(by, e)

\* The inductive invariant: the calls have been dealt to the ends that dialled
\* them, which no state says.
Accounted == IInv /\ \E by : Dealt(by)

\* One end does the dialling, or nobody asks for credentials: a call of the far
\* end's does not share its dialog with credentials for another.
OneDials == \E e \in End : Callers \subseteq {e}
Unmixed  == OneDials \/ MaxChallenges = 0

LEMMA TidyFewer ==
  ASSUME NEW w, NEW M, NEW T, NEW B, NEW A, A \subseteq B, Tidy(w, M, T, B)
  PROVE  Tidy(w, M, T, A)
<1>1. ByesOf(w, A) \subseteq ByesOf(w, B)
  BY DEF ByesOf
<1>. QED
  BY <1>1 DEF Tidy

\* What is said is on its way.
LEMMA TidyRested ==
  ASSUME NEW H, NEW w, Good(w, H), NEW M, NEW T, NEW B, NEW A, A \subseteq ByesOf(w, B),
         Tidy(w, M, T, B)
  PROVE  Tidy([w EXCEPT !.out = <<>>, !.told = <<>>], M, T, A)
<1>. DEFINE v == [w EXCEPT !.out = <<>>, !.told = <<>>]
<1>1. /\ v.call = w.call /\ v.invite = w.invite /\ v.held_dial = w.held_dial
      /\ v.cancel = w.cancel /\ v.answer = w.answer /\ v.bye = w.bye /\ v.kept = w.kept
      /\ v.out = <<>>
  BY DEF Good, Worker
<1>. HIDE DEF v
<1>2. {v.out[i] : i \in 1 .. Len(v.out)} = {}
  BY <1>1
<1>3. ByesOf(v, A) \subseteq ByesOf(w, B)
  BY <1>1, <1>2 DEF ByesOf
<1>4. Tidy(v, M, T, A)
  BY <1>1, <1>2, <1>3 DEF Tidy, Last
<1>. QED
  BY <1>4 DEF v

LEMMA PartedMine ==
  ASSUME IInv, NEW by, NEW e \in End
  PROVE  Parted(Mine(by, e), Mine(by, Peer(e)), SentByes(e))
<1>1. dialled \in 0 .. MaxDials /\ net[Peer(e)] \in Seq(Message)
  BY Kept, PeerOf DEF Counted, Carried
<1>2. 1 .. dialled \subseteq Call
  BY <1>1, SipAssumption DEF Call
<1>3. SentByes(e) \subseteq Message
  BY <1>1, ElementOfSeq DEF SentByes, Sent
<1>. QED
  BY <1>2, <1>3, PeerOf DEF Parted, Mine

LEMMA FineEnd ==
  ASSUME IInv, NEW by, Dealt(by), NEW e \in End
  PROVE  Fine(worker[e], heard, Mine(by, e), Mine(by, Peer(e)), SentByes(e))
BY PartedMine, Kept DEF Fine, Dealt

LEMMA PeerPeer == \A e \in End : Peer(Peer(e)) = e /\ (\A f \in End : f = e \/ f = Peer(e))
BY DEF Peer, End

\* Where one end dials, no call is the other's.
LEMMA OneSided ==
  ASSUME NEW by, Dealt(by), NEW e \in End, Unmixed, MaxChallenges # 0
  PROVE  Mine(by, e) = {} \/ Mine(by, Peer(e)) = {}
BY PeerOf DEF Dealt, Unmixed, OneDials, Mine

LEMMA Beyond == \A a, b \in Nat : \A i \in 1 .. a + b : i > a => i - a \in 1 .. b
OBVIOUS

\* What two lists of messages say, one after the other, one of them says.
LEMMA OfConcat ==
  ASSUME NEW s \in Seq(Message), NEW t \in Seq(Message), NEW i \in 1 .. Len(s \o t)
  PROVE  (s \o t)[i] \in {s[j] : j \in 1 .. Len(s)} \cup {t[j] : j \in 1 .. Len(t)}
<1>1. Len(s \o t) = Len(s) + Len(t) /\ Len(s) \in Nat /\ Len(t) \in Nat
  BY ConcatProperties, LenProperties
<1>2. CASE i <= Len(s)
  <2>1. i \in 1 .. Len(s)
    BY <1>1, <1>2
  <2>2. (s \o t)[i] = s[i]
    BY <1>1, <1>2, ConcatProperties
  <2>. QED
    BY <2>1, <2>2
<1>3. CASE i > Len(s)
  <2>1. i - Len(s) \in 1 .. Len(t)
    BY <1>1, <1>3, Beyond
  <2>2. (s \o t)[i] = t[i - Len(s)]
    BY <1>1, <1>3, ConcatProperties
  <2>. QED
    BY <2>1, <2>2
<1>4. i <= Len(s) \/ i > Len(s)
  BY <1>1
<1>. QED
  BY <1>2, <1>3, <1>4

\* End e turns, and the other does not; M and T are the calls they have dialled.
LEMMA TurnAccounts ==
  ASSUME IInv, NEW by, NEW e \in End, NEW f \in End, f = Peer(e), NEW w, NEW arriving, NEW H,
         Becomes(e, w, arriving), by \in [Call -> End],
         \A c \in 1 .. dialled' : by[c] \in Callers,
         NEW M, M = Mine(by, e)', NEW T, T = Mine(by, f)',
         Good(w, H), Tidy(w, M, T, SentByes(e)),
         Tidy(worker[f], T, M, SentByes(f)),
         \A m \in Sent(e) : /\ (IsInvite(m) => m.call \in M)
                            /\ (m.code \in Challenge => MaxChallenges # 0),
         \A m \in Sent(f) : /\ (IsInvite(m) => m.call \in T)
                            /\ (m.code \in Challenge => MaxChallenges # 0),
         arriving \in Seq(Message), \A i \in 1 .. Len(arriving) : arriving[i] \in Sent(f)
  PROVE  Dealt(by)'
<1>. DEFINE rested == [w EXCEPT !.out = <<>>, !.told = <<>>]
            sent   == net[f] \o w.out
<1>1. f # e /\ Peer(f) = e /\ Peer(e) = f /\ (\A g \in End : g = e \/ g = f)
  BY PeerOf, PeerPeer
<1>2. /\ worker' = [worker EXCEPT ![e] = rested]
      /\ net' = [net EXCEPT ![e] = arriving, ![f] = IF open[f] = "gone" THEN net[f] ELSE sent]
  BY <1>1 DEF Becomes, IInv, Wires
<1>3. worker'[e] = rested /\ worker'[f] = worker[f]
  BY <1>1, <1>2 DEF IInv, Workers
<1>4. net'[e] = arriving /\ net'[f] = IF open[f] = "gone" THEN net[f] ELSE sent
  BY <1>1, <1>2 DEF IInv, Wires
<1>5. /\ net[f] \in Seq(Message) /\ w.out \in Seq(Message)
      /\ Len(net[f]) \in Nat /\ Len(w.out) \in Nat
  BY <1>1, Kept, LenProperties DEF Carried, Good, Worker
<1>. HIDE DEF rested
<1>6. {sent[i] : i \in 1 .. Len(sent)}
        \subseteq {net[f][i] : i \in 1 .. Len(net[f])} \cup {w.out[i] : i \in 1 .. Len(w.out)}
  <2>1. \A i \in 1 .. Len(sent) :
          sent[i] \in {net[f][j] : j \in 1 .. Len(net[f])} \cup {w.out[j] : j \in 1 .. Len(w.out)}
    BY <1>5, OfConcat
  <2>. HIDE DEF sent
  <2>. QED
    BY <2>1
<1>. HIDE DEF sent
<1>7. Sent(e)' \subseteq Sent(e) \cup {w.out[i] : i \in 1 .. Len(w.out)}
  <2>1. /\ Sent(e)' = {net'[f][i] : i \in 1 .. Len(net'[f])}
        /\ Sent(e) = {net[f][i] : i \in 1 .. Len(net[f])}
    BY <1>1 DEF Sent
  <2>2. CASE net'[f] = net[f]
    BY <2>1, <2>2
  <2>3. CASE net'[f] = sent
    BY <1>6, <2>1, <2>3
  <2>. QED
    BY <1>4, <2>2, <2>3
<1>8. Sent(f)' \subseteq Sent(f)
  BY <1>1, <1>4 DEF Sent
<1>9. SentByes(e)' \subseteq ByesOf(w, SentByes(e))
  BY <1>7 DEF SentByes, ByesOf
<1>10. Tidy(worker'[e], M, T, SentByes(e)')
  <2>1. \A A : A \subseteq ByesOf(w, SentByes(e)) => Tidy(rested, M, T, A)
    BY TidyRested DEF rested
  <2>. QED
    BY <1>3, <1>9, <2>1
<1>11. SentByes(f)' \subseteq SentByes(f)
  BY <1>8 DEF SentByes
<1>12. Tidy(worker'[f], T, M, SentByes(f)')
  BY <1>3, <1>11, TidyFewer
<1>13. \A m \in Sent(e)' : /\ (IsInvite(m) => m.call \in M)
                           /\ (m.code \in Challenge => MaxChallenges # 0)
  <2>1. \A i \in 1 .. Len(w.out) : Fit(w.out[i], M)
    BY DEF Tidy
  <2>. QED
    BY <1>7, <2>1 DEF Fit
<1>14. /\ Tidy(worker'[e], Mine(by, e)', Mine(by, f)', SentByes(e)') /\ Posted(by, e)'
       /\ Tidy(worker'[f], Mine(by, f)', Mine(by, e)', SentByes(f)') /\ Posted(by, f)'
  BY <1>8, <1>10, <1>12, <1>13 DEF Posted
<1>. QED
  BY <1>1, <1>14 DEF Dealt


-----------------------------------------------------------------------------
(* One step of each action.                                                *)

\* An end turns without anything arriving, or with one thing that was on its
\* way, and no call is dialled.
LEMMA TurnsAccount ==
  ASSUME IInv, NEW by, Dealt(by), NEW e \in End, NEW w, NEW arriving, NEW H,
         Becomes(e, w, arriving), dialled' = dialled,
         Fine(w, H, Mine(by, e), Mine(by, Peer(e)), SentByes(e)),
         arriving \in Seq(Message), \A i \in 1 .. Len(arriving) : arriving[i] \in Sent(Peer(e))
  PROVE  Dealt(by)'
<1>. DEFINE f == Peer(e)
            M == Mine(by, e)
            T == Mine(by, f)
<1>1. f \in End /\ Peer(f) = e
  BY PeerOf, PeerPeer
<1>2. M = Mine(by, e)' /\ T = Mine(by, f)'
  BY DEF Mine
<1>3. Tidy(worker[f], T, M, SentByes(f)) /\ Posted(by, e) /\ Posted(by, f)
  BY <1>1 DEF Dealt
<1>4. Good(w, H) /\ Tidy(w, M, T, SentByes(e))
  BY DEF Fine
<1>5. by \in [Call -> End] /\ \A c \in 1 .. dialled' : by[c] \in Callers
  BY DEF Dealt
<1>6. \A m \in Sent(e) : /\ (IsInvite(m) => m.call \in M)
                         /\ (m.code \in Challenge => MaxChallenges # 0)
  BY <1>3 DEF Posted
<1>7. \A m \in Sent(f) : /\ (IsInvite(m) => m.call \in T)
                         /\ (m.code \in Challenge => MaxChallenges # 0)
  BY <1>3 DEF Posted
<1>. HIDE DEF M, T
<1>. QED
  BY <1>1, <1>2, <1>3, <1>4, <1>5, <1>6, <1>7, TurnAccounts

LEMMA AloneAccounts ==
  ASSUME IInv, NEW by, Dealt(by), NEW e \in End, NEW w, Turns(e, w), dialled' = dialled,
         Fine(w, heard, Mine(by, e), Mine(by, Peer(e)), SentByes(e))
  PROVE  Dealt(by)'
<1>1. net[e] \in Seq(Message) /\ Peer(Peer(e)) = e
  BY Kept, PeerPeer DEF Carried
<1>2. \A i \in 1 .. Len(net[e]) : net[e][i] \in Sent(Peer(e))
  BY <1>1 DEF Sent
<1>. QED
  BY <1>1, <1>2, TurnsAccount DEF Turns

\* A new number is nobody's yet.
LEMMA DialAccounts ==
  ASSUME IInv, NEW by, Dealt(by), NEW e \in End, Dial(e)
  PROVE  \E to : Dealt(to)'
<1>. DEFINE f  == Peer(e)
            n  == dialled + 1
            M  == Mine(by, e) \cup {n}
            T  == Mine(by, f)
            w  == PlaceCall(worker[e], n)
<1>0. PICK to : to = [by EXCEPT ![n] = e]
  OBVIOUS
<1>1. f \in End /\ f # e /\ Peer(f) = e /\ Peer(e) = f
  BY PeerOf, PeerPeer
<1>2. dialled \in Nat /\ n \in Call /\ dialled' = n /\ e \in Callers /\ NoCall # n
  BY Kept, SipAssumption DEF Counted, Call, Dial, NoCall
<1>3. /\ by \in [Call -> End] /\ to \in [Call -> End]
      /\ \A c \in 1 .. n : c \in Call /\ (c = n \/ c \in 1 .. dialled)
      /\ n \notin 1 .. dialled
  BY <1>0, <1>2, Kept, SipAssumption DEF Dealt, Counted, Call
<1>4. \A c \in 1 .. n : to[c] \in Callers /\ to[c] = (IF c = n THEN e ELSE by[c])
  BY <1>0, <1>2, <1>3 DEF Dealt
<1>5. M = Mine(to, e)' /\ T = Mine(to, f)'
  BY <1>1, <1>2, <1>3, <1>4 DEF Mine
<1>6. n \notin Mine(by, e) /\ n \notin T
  BY <1>3 DEF Mine
<1>7. Fine(worker[e], heard, Mine(by, e), T, SentByes(e))
  BY FineEnd
<1>8. Fine(worker[f], heard, T, Mine(by, e), SentByes(f))
  BY <1>1, FineEnd
<1>. HIDE DEF n, T, f
<1>9. Parted(M, T, SentByes(e))
  BY <1>2, <1>6, <1>7 DEF Fine, Parted
<1>10. Tidy(worker[e], M, T, SentByes(e)) /\ Unused(n, worker[e], M, SentByes(e))
       /\ worker[e].held_dial # n
  BY <1>2, <1>6, <1>7, NothingIsPlain DEF Fine, Tidy, Last, Fit, Unused
<1>11. Fine(w, heard, M, T, SentByes(e))
  BY <1>7, <1>9, <1>10, FinePlaceCall DEF Fine
<1>12. Tidy(worker[f], T, M, SentByes(f))
  BY <1>6, <1>8 DEF Fine, Tidy, Last
<1>13. Posted(by, e) /\ Posted(by, f)
  BY <1>1 DEF Dealt
<1>14. \A m \in Sent(e) : /\ (IsInvite(m) => m.call \in M)
                          /\ (m.code \in Challenge => MaxChallenges # 0)
  BY <1>13 DEF Posted
<1>15. \A m \in Sent(f) : /\ (IsInvite(m) => m.call \in T)
                          /\ (m.code \in Challenge => MaxChallenges # 0)
  BY <1>13 DEF Posted, T
<1>16. Becomes(e, w, net[e])
  BY DEF Dial, Turns, n
<1>17. net[e] \in Seq(Message) /\ \A i \in 1 .. Len(net[e]) : net[e][i] \in Sent(f)
  BY <1>1, Kept DEF Carried, Sent
<1>18. Good(w, heard) /\ Tidy(w, M, T, SentByes(e))
  BY <1>11 DEF Fine
<1>. HIDE DEF M, w
<1>19. \A c \in 1 .. dialled' : to[c] \in Callers
  BY <1>2, <1>4
<1>20. Dealt(to)'
  BY <1>1, <1>3, <1>5, <1>12, <1>14, <1>15, <1>16, <1>17, <1>18, <1>19, TurnAccounts
<1>. QED
  BY <1>20

LEMMA AnswerAccounts ==
  ASSUME IInv, NEW by, Dealt(by), NEW e \in End, NEW usable, Answer(e, usable)
  PROVE  Dealt(by)'
BY FineEnd, FineAcceptCall, AloneAccounts DEF Answer, budgets

LEMMA HangUpAccounts ==
  ASSUME IInv, NEW by, Dealt(by), NEW e \in End, HangUp(e)
  PROVE  Dealt(by)'
BY FineEnd, FineEndCall, AloneAccounts DEF HangUp, budgets

LEMMA QuitAccounts ==
  ASSUME IInv, NEW by, Dealt(by), NEW e \in End, Quit(e)
  PROVE  Dealt(by)'
BY FineEnd, FineSendBye, AloneAccounts DEF Quit

LEMMA TimersAccount ==
  ASSUME IInv, NEW by, Dealt(by), NEW e \in End,
         HeldIsServed(e) \/ HeldTooLong(e)
         \/ (\E slot \in Slots : ResendOne(e, slot) \/ ExpireOne(e, slot))
  PROVE  Dealt(by)'
<1>1. ASSUME NEW slot \in Slots, ResendOne(e, slot) PROVE Dealt(by)'
  BY <1>1, FineEnd, FineResend, AloneAccounts DEF ResendOne, budgets
<1>2. ASSUME NEW slot \in Slots, ExpireOne(e, slot) PROVE Dealt(by)'
  BY <1>2, FineEnd, FineExpire, AloneAccounts DEF ExpireOne, budgets
<1>3. CASE HeldIsServed(e)
  BY <1>3, FineEnd, FineServeHeldDial, AloneAccounts DEF HeldIsServed, budgets
<1>4. CASE HeldTooLong(e)
  BY <1>4, FineEnd, FineGiveUpHeldDial, AloneAccounts DEF HeldTooLong, budgets
<1>. QED
  BY <1>1, <1>2, <1>3, <1>4

\* What arrives is one of what the other end has sent, and so is what is left.
LEMMA TakesAccounts ==
  ASSUME IInv, NEW by, Dealt(by), Unmixed, NEW e \in End, NEW i \in 1 .. Len(net[e]),
         NEW readable, NEW left, Takes(e, i, readable, left), left \in Seq(Message),
         \A j \in 1 .. Len(left) : left[j] \in Sent(Peer(e))
  PROVE  Dealt(by)'
<1>. DEFINE m == net[e][i]
            f == Peer(e)
            M == Mine(by, e)
            T == Mine(by, f)
            w == Handle(worker[e], m, readable)
<1>1. m \in Message /\ Founded(m, heard) /\ m \in Sent(f) /\ f \in End
  BY Kept, PeerOf, PeerPeer, ElementOfSeq DEF Carried, Sent
<1>2. heard' = heard \cup Invites(m)
  BY DEF Takes
<1>3. heard \subseteq heard' /\ (IsInvite(m) => m \in heard')
  BY <1>2 DEF Invites
<1>4. IsInvite(m) => m.call \in T
  BY <1>1 DEF Dealt, Posted
<1>5. m.code \in Challenge => M = {} \/ T = {}
  BY <1>1, OneSided DEF Dealt, Posted
<1>6. Fine(worker[e], heard', M, T, SentByes(e))
  BY <1>3, FineEnd, GoodStays DEF Fine
<1>7. Founded(m, heard')
  BY <1>1, <1>3, FoundedStays
<1>8. Becomes(e, w, left) /\ dialled' = dialled
  BY DEF Takes
<1>. DEFINE H == heard'
<1>9. H = heard'
  OBVIOUS
<1>. HIDE DEF m, M, T, H
<1>10. Fine(w, H, M, T, SentByes(e))
  BY <1>1, <1>3, <1>4, <1>5, <1>6, <1>7, <1>9, FineHandle
<1>. HIDE DEF w
<1>. QED
  BY <1>8, <1>10, TurnsAccount DEF M, T

\* The part of what is on its way to an end that is left.
LEMMA SentLeft ==
  ASSUME IInv, NEW e \in End, net[e] # <<>>
  PROVE  /\ net[e] \in Seq(Message) /\ Len(net[e]) >= 1 /\ Len(net[e]) \in Nat
         /\ \A j \in 1 .. Len(net[e]) : net[e][j] \in Sent(Peer(e))
         /\ Tail(net[e]) \in Seq(Message)
         /\ \A j \in 1 .. Len(Tail(net[e])) : Tail(net[e])[j] \in Sent(Peer(e))
<1>. DEFINE s == net[e]
<1>1. s \in Seq(Message) /\ Len(s) \in Nat /\ Len(s) >= 1
  BY Kept, LenProperties, EmptySeq DEF Carried
<1>2. /\ Tail(s) \in Seq(Message) /\ Len(Tail(s)) = Len(s) - 1
      /\ \A k \in 1 .. Len(Tail(s)) : Tail(s)[k] = s[k + 1]
  BY <1>1
<1>3. \A j \in 1 .. Len(s) : s[j] \in Sent(Peer(e))
  BY PeerPeer DEF Sent
<1>. HIDE DEF s
<1>4. \A k \in 1 .. Len(Tail(s)) : Tail(s)[k] \in Sent(Peer(e))
  BY <1>1, <1>2, <1>3
<1>. QED
  BY <1>1, <1>2, <1>3, <1>4 DEF s

LEMMA ReceiveAccounts ==
  ASSUME IInv, NEW by, Dealt(by), Unmixed, NEW e \in End, NEW readable, Receive(e, readable)
  PROVE  Dealt(by)'
<1>1. net[e] # <<>> /\ Takes(e, 1, readable, Tail(net[e]))
  BY DEF Receive
<1>2. 1 \in 1 .. Len(net[e])
  BY <1>1, SentLeft
<1>. QED
  BY <1>1, <1>2, SentLeft, TakesAccounts

LEMMA RepeatAccounts ==
  ASSUME IInv, NEW by, Dealt(by), Unmixed, NEW e \in End, NEW readable, Repeat(e, readable)
  PROVE  Dealt(by)'
<1>1. net[e] # <<>> /\ Takes(e, 1, readable, net[e])
  BY DEF Repeat
<1>2. 1 \in 1 .. Len(net[e])
  BY <1>1, SentLeft
<1>. QED
  BY <1>1, <1>2, SentLeft, TakesAccounts

LEMMA OvertakeAccounts ==
  ASSUME IInv, NEW by, Dealt(by), Unmixed, NEW e \in End, NEW readable, Overtake(e, readable)
  PROVE  Dealt(by)'
<1>. DEFINE s     == net[e]
            first == SubSeq(s, 1, 1)
            rest  == SubSeq(s, 3, Len(s))
            left  == Without(s, 2)
<1>1. s \in Seq(Message) /\ Len(s) \in Nat /\ Len(s) > 1 /\ Takes(e, 2, readable, left)
  BY Kept, LenProperties DEF Overtake, Carried
<1>2. \A j \in 1 .. Len(s) : s[j] \in Sent(Peer(e))
  BY PeerPeer DEF Sent
<1>3. left = first \o rest
  BY DEF Without
<1>. HIDE DEF s
<1>4. /\ first \in Seq(Message) /\ Len(first) = 1 /\ first[1] = s[1]
      /\ rest \in Seq(Message) /\ Len(rest) = Len(s) - 2
      /\ \A k \in 1 .. Len(s) - 2 : rest[k] = s[k + 2]
  <2>1. /\ first \in Seq(Message) /\ Len(first) = 1 - 1 + 1
        /\ \A k \in 1 .. 1 - 1 + 1 : first[k] = s[1 + k - 1]
    BY <1>1, SubSeqProperties
  <2>2. /\ rest \in Seq(Message) /\ Len(rest) = Len(s) - 3 + 1
        /\ \A k \in 1 .. Len(s) - 3 + 1 : rest[k] = s[3 + k - 1]
    <3>1. \A i \in 3 .. Len(s) : s[i] \in Message
      BY <1>1
    <3>2. /\ 3 \in Int /\ Len(s) \in Int
          /\ (IF 3 <= Len(s) THEN Len(s) - 3 + 1 ELSE 0) = Len(s) - 3 + 1
      <4>1. \A n \in Nat : n > 1 => (IF 3 <= n THEN n - 3 + 1 ELSE 0) = n - 3 + 1
        OBVIOUS
      <4>2. Len(s) \in Nat /\ Len(s) > 1
        BY <1>1
      <4>3. (IF 3 <= Len(s) THEN Len(s) - 3 + 1 ELSE 0) = Len(s) - 3 + 1
        BY <4>1, <4>2, Zenon
      <4>. QED
        BY <4>2, <4>3
    <3>. QED
      BY <3>1, <3>2, SubSeqProperties
  <2>. HIDE DEF first, rest
  <2>3. Len(first) = 1 /\ first[1] = s[1]
    BY <2>1
  <2>4. Len(rest) = Len(s) - 2 /\ \A k \in 1 .. Len(s) - 2 : rest[k] = s[k + 2]
    BY <1>1, <2>2
  <2>. QED
    BY <2>1, <2>2, <2>3, <2>4
<1>. HIDE DEF first, rest, left
<1>5. left \in Seq(Message) /\ Len(left) = Len(s) - 1
  <2>1. left \in Seq(Message) /\ Len(left) = Len(first) + Len(rest)
    BY <1>3, <1>4, ConcatProperties
  <2>. QED
    BY <1>1, <1>4, <2>1
<1>6. ASSUME NEW j \in 1 .. Len(left) PROVE left[j] \in Sent(Peer(e))
  <2>1. CASE j = 1
    <3>1. left[j] = s[1]
      BY <1>1, <1>3, <1>4, <1>5, <2>1, ConcatProperties
    <3>. QED
      BY <1>1, <1>2, <3>1
  <2>2. CASE j > 1
    <3>1. j - 1 \in 1 .. Len(s) - 2 /\ j + 1 \in 1 .. Len(s) /\ j - 1 + 2 = j + 1
      BY <1>1, <1>5, <2>2
    <3>2. left[j] = rest[j - 1]
      BY <1>1, <1>3, <1>4, <1>5, <2>2, ConcatProperties
    <3>3. left[j] = s[j + 1]
      BY <1>4, <3>1, <3>2
    <3>. QED
      BY <1>2, <3>1, <3>3
  <2>. QED
    BY <1>1, <1>5, <2>1, <2>2
<1>7. 2 \in 1 .. Len(net[e])
  BY <1>1 DEF s
<1>. QED
  BY <1>1, <1>5, <1>6, <1>7, TakesAccounts


\* Only the wire does something: what is on it then was on it, is no request of
\* an end or was asked for by the proxy, or is said again.
LEMMA WireAccounts ==
  ASSUME IInv, NEW by, Dealt(by), worker' = worker, dialled' = dialled,
         \A e \in End : \A m \in Sent(e)' :
           /\ IsInvite(m) => m.call \in Mine(by, e)
           /\ m.code \in Challenge => MaxChallenges # 0
           /\ IsBye(m) => m \in ByesOf(worker[e], SentByes(e))
  PROVE  Dealt(by)'
<1>1. ASSUME NEW e \in End
      PROVE  /\ Tidy(worker[e], Mine(by, e), Mine(by, Peer(e)), SentByes(e)')
             /\ Posted(by, e)'
  <2>. DEFINE B == SentByes(e)
              w == worker[e]
              M == Mine(by, e)
              T == Mine(by, Peer(e))
  <2>1. Tidy(w, M, T, B)
    BY DEF Dealt
  <2>2. \A m \in SentByes(e)' : m \in ByesOf(w, B)
    BY DEF SentByes
  <2>3. M' = M
    BY DEF Mine
  <2>4. Posted(by, e)'
    BY <2>3 DEF Posted
  <2>5. ASSUME NEW A, A \subseteq ByesOf(w, B) PROVE Tidy(w, M, T, A)
    <3>1. ByesOf(w, A) \subseteq ByesOf(w, B)
      BY <2>5 DEF ByesOf
    <3>. HIDE DEF w, M, T, B
    <3>. QED
      BY <2>1, <3>1 DEF Tidy
  <2>. QED
    BY <2>2, <2>4, <2>5
<1>2. \A e \in End : Mine(by, e)' = Mine(by, e) /\ Mine(by, Peer(e))' = Mine(by, Peer(e))
  BY DEF Mine
<1>3. \A e \in End : Tidy(worker[e], Mine(by, e), Mine(by, Peer(e)), SentByes(e))'
  BY <1>1, <1>2
<1>. QED
  BY <1>1, <1>3 DEF Dealt

\* What has been sent may be on its way or go.
LEMMA PostedStays ==
  ASSUME NEW by, Dealt(by), NEW e \in End, NEW m \in Sent(e)
  PROVE  /\ IsInvite(m) => m.call \in Mine(by, e)
         /\ m.code \in Challenge => MaxChallenges # 0
         /\ IsBye(m) => m \in ByesOf(worker[e], SentByes(e))
BY DEF Dealt, Posted, ByesOf, SentByes

LEMMA LeaveAccounts ==
  ASSUME IInv, NEW by, Dealt(by), NEW e \in End, Leave(e)
  PROVE  Dealt(by)'
<1>1. worker' = worker /\ dialled' = dialled /\ net' = [net EXCEPT ![e] = <<>>]
  BY DEF Leave, budgets
<1>2. \A f \in End : Sent(f)' \subseteq Sent(f)
  BY <1>1, PeerOf DEF Sent, IInv, Wires
<1>. QED
  BY <1>1, <1>2, PostedStays, WireAccounts

LEMMA LoseAccounts ==
  ASSUME IInv, NEW by, Dealt(by), NEW e \in End, Lose(e)
  PROVE  Dealt(by)'
<1>1. /\ worker' = worker /\ dialled' = dialled /\ net[e] # <<>>
      /\ net' = [net EXCEPT ![e] = Tail(net[e])]
  BY DEF Lose
<1>2. \A j \in 1 .. Len(Tail(net[e])) : Tail(net[e])[j] \in Sent(Peer(e))
  BY <1>1, SentLeft
<1>3. ASSUME NEW f \in End PROVE Sent(f)' \subseteq Sent(f)
  <2>1. CASE Peer(f) = e
    <3>1. net'[Peer(f)] = Tail(net[e]) /\ Peer(e) = f
      BY <1>1, <2>1, PeerPeer DEF IInv, Wires
    <3>. QED
      BY <1>2, <3>1 DEF Sent
  <2>2. CASE Peer(f) # e
    BY <1>1, <2>2, PeerOf DEF Sent, IInv, Wires
  <2>. QED
    BY <2>1, <2>2
<1>. QED
  BY <1>1, <1>3, PostedStays, WireAccounts

LEMMA ChallengesAccounts ==
  ASSUME IInv, NEW by, Dealt(by), NEW e \in End, NEW code \in Challenge, Challenges(e, code)
  PROVE  Dealt(by)'
<1>. DEFINE m       == net[e][1]
            f       == Peer(e)
            trying  == IF TryingFirst THEN <<Response(m, "Trying")>> ELSE <<>>
            asked   == <<Response(m, code)>>
            answers == (net[f] \o trying) \o asked
<1>1. /\ worker' = worker /\ dialled' = dialled /\ net[e] # <<>> /\ IsInvite(m)
      /\ MaxChallenges # 0
  BY Kept, SipBounds DEF Challenges, Counted
<1>2. f \in End /\ f # e /\ Peer(f) = e /\ (\A g \in End : g = e \/ g = f)
  BY PeerOf, PeerPeer
<1>3. net' = [net EXCEPT ![e] = Tail(net[e]), ![f] = answers]
  BY <1>2 DEF Challenges, IInv, Wires
<1>4. m \in Message /\ net[f] \in Seq(Message)
  BY <1>1, <1>2, Kept, SentLeft, ElementOfSeq DEF Carried
<1>5. ASSUME NEW c \in {"Trying"} \cup Challenge
      PROVE  Response(m, c) \in Message /\ ~IsInvite(Response(m, c)) /\ ~IsBye(Response(m, c))
  BY <1>4, ResponseType DEF Code, Provisional, Challenge, IsInvite, IsBye
<1>6. /\ trying \in Seq(Message) /\ asked \in Seq(Message)
      /\ \A i \in 1 .. Len(trying) : ~IsInvite(trying[i]) /\ ~IsBye(trying[i])
      /\ \A i \in 1 .. Len(asked) : ~IsInvite(asked[i]) /\ ~IsBye(asked[i])
  <2>1. ASSUME NEW c \in {"Trying"} \cup Challenge, NEW s, s = <<Response(m, c)>>
        PROVE  s \in Seq(Message) /\ \A i \in 1 .. Len(s) : ~IsInvite(s[i]) /\ ~IsBye(s[i])
    <3>. DEFINE r == Response(m, c)
    <3>1. r \in Message /\ ~IsInvite(r) /\ ~IsBye(r)
      BY <1>5
    <3>2. s = <<r>>
      BY <2>1
    <3>. HIDE DEF r
    <3>3. Len(s) = 1 /\ s[1] = r /\ s \in Seq(Message)
      BY <3>1, <3>2
    <3>. QED
      BY <3>1, <3>3
  <2>2. trying = <<>> \/ trying = <<Response(m, "Trying")>>
    OBVIOUS
  <2>3. asked = <<Response(m, code)>>
    OBVIOUS
  <2>. HIDE DEF trying, asked, m
  <2>4. /\ trying \in Seq(Message)
        /\ \A i \in 1 .. Len(trying) : ~IsInvite(trying[i]) /\ ~IsBye(trying[i])
    <3>1. CASE trying = <<>>
      BY <3>1
    <3>2. CASE trying = <<Response(m, "Trying")>>
      BY <2>1, <3>2
    <3>. QED
      BY <2>2, <3>1, <3>2
  <2>5. /\ asked \in Seq(Message)
        /\ \A i \in 1 .. Len(asked) : ~IsInvite(asked[i]) /\ ~IsBye(asked[i])
    BY <2>1, <2>3
  <2>. QED
    BY <2>4, <2>5
<1>. HIDE DEF m, trying, asked
<1>7. ASSUME NEW n \in {answers[i] : i \in 1 .. Len(answers)}
      PROVE  n \in Sent(e) \/ (~IsInvite(n) /\ ~IsBye(n))
  <2>1. ASSUME NEW s \in Seq(Message), NEW t \in Seq(Message), NEW i \in 1 .. Len(s \o t)
        PROVE  \/ \E j \in 1 .. Len(s) : (s \o t)[i] = s[j]
               \/ \E j \in 1 .. Len(t) : (s \o t)[i] = t[j]
    <3>1. (s \o t)[i] \in {s[j] : j \in 1 .. Len(s)} \cup {t[j] : j \in 1 .. Len(t)}
      BY OfConcat
    <3>. QED
      BY <3>1
  <2>2. net[f] \o trying \in Seq(Message)
    BY <1>4, <1>6, ConcatProperties
  <2>3. \/ \E j \in 1 .. Len(net[f] \o trying) : n = (net[f] \o trying)[j]
        \/ \E j \in 1 .. Len(asked) : n = asked[j]
    <3>1. PICK i \in 1 .. Len((net[f] \o trying) \o asked) : n = ((net[f] \o trying) \o asked)[i]
      OBVIOUS
    <3>2. \/ \E j \in 1 .. Len(net[f] \o trying) :
                ((net[f] \o trying) \o asked)[i] = (net[f] \o trying)[j]
          \/ \E j \in 1 .. Len(asked) : ((net[f] \o trying) \o asked)[i] = asked[j]
      <4>1. asked \in Seq(Message)
        BY <1>6
      <4>. QED
        BY <2>1, <2>2, <3>1, <4>1
    <3>. QED
      BY <3>1, <3>2
  <2>4. CASE \E j \in 1 .. Len(asked) : n = asked[j]
    BY <1>6, <2>4
  <2>5. CASE \E j \in 1 .. Len(net[f] \o trying) : n = (net[f] \o trying)[j]
    <3>1. PICK i \in 1 .. Len(net[f] \o trying) : n = (net[f] \o trying)[i]
      BY <2>5
    <3>2. \/ \E j \in 1 .. Len(net[f]) : (net[f] \o trying)[i] = net[f][j]
          \/ \E j \in 1 .. Len(trying) : (net[f] \o trying)[i] = trying[j]
      <4>1. net[f] \in Seq(Message) /\ trying \in Seq(Message)
        BY <1>4, <1>6
      <4>. QED
        BY <2>1, <3>1, <4>1
    <3>3. n \in {net[f][j] : j \in 1 .. Len(net[f])} \/ \E j \in 1 .. Len(trying) : n = trying[j]
      BY <3>1, <3>2
    <3>. QED
      BY <1>6, <3>3 DEF Sent
  <2>. QED
    BY <2>3, <2>4, <2>5
<1>. HIDE DEF answers
<1>8. \A n \in Sent(e)' : n \in Sent(e) \/ (~IsInvite(n) /\ ~IsBye(n))
  <2>1. net'[f] = answers
    BY <1>2, <1>3 DEF IInv, Wires
  <2>. QED
    BY <1>7, <2>1 DEF Sent
<1>9. Sent(f)' \subseteq Sent(f)
  <2>1. net'[e] = Tail(net[e])
    BY <1>2, <1>3 DEF IInv, Wires
  <2>2. \A j \in 1 .. Len(Tail(net[e])) : Tail(net[e])[j] \in Sent(f)
    BY <1>1, SentLeft
  <2>3. Sent(f)' = {net'[e][i] : i \in 1 .. Len(net'[e])}
    BY <1>2 DEF Sent
  <2>. QED
    BY <2>1, <2>2, <2>3
<1>10. \A g \in End : \A n \in Sent(g)' : n \in Sent(g) \/ (~IsInvite(n) /\ ~IsBye(n))
  BY <1>2, <1>8, <1>9
<1>. QED
  BY <1>1, <1>10, PostedStays, WireAccounts

LEMMA BreakAccounts ==
  ASSUME IInv, NEW by, Dealt(by), Break
  PROVE  Dealt(by)'
<1>1. worker' = worker /\ dialled' = dialled
  BY DEF Break
<1>2. net' = [f \in End |-> IF open[f] = "gone" \/ open[Peer(f)] = "gone" THEN <<>>
                            ELSE ConnectionRemade(worker[Peer(f)]).out]
  BY PeerOf DEF Break
<1>3. ASSUME NEW e \in End, NEW m \in Sent(e)'
      PROVE  /\ IsInvite(m) => m.call \in Mine(by, e)
             /\ m.code \in Challenge => MaxChallenges # 0
             /\ IsBye(m) => m \in ByesOf(worker[e], SentByes(e))
  <2>. DEFINE again == ConnectionRemade(worker[e])
              M     == Mine(by, e)
              B     == SentByes(e)
  <2>1. Tidy(again, M, Mine(by, Peer(e)), B) /\ ByesOf(again, B) = ByesOf(worker[e], B)
    BY FineEnd, FineConnectionRemade DEF Fine
  <2>2. net'[Peer(e)] = <<>> \/ net'[Peer(e)] = again.out
    BY <1>2, PeerOf, PeerPeer
  <2>3. PICK i \in 1 .. Len(again.out) : m = again.out[i]
    BY <2>2 DEF Sent
  <2>. HIDE DEF again
  <2>4. Fit(m, M) /\ (IsBye(m) => m \in ByesOf(again, B))
    BY <2>1, <2>3 DEF Tidy, ByesOf
  <2>. QED
    BY <2>1, <2>4 DEF Fit
<1>. QED
  BY <1>1, <1>3, WireAccounts

\* What was answered is forgotten, and no longer said again.
LEMMA ForgetAccounts ==
  ASSUME IInv, NEW by, Dealt(by), NEW e \in End, Forget(e)
  PROVE  Dealt(by)'
<1>. DEFINE w == [worker[e] EXCEPT !.kept = {}]
<1>1. worker' = [worker EXCEPT ![e] = w] /\ net' = net /\ dialled' = dialled
  BY DEF Forget, IInv, Workers, budgets
<1>2. Good(worker[e], heard) /\ Good(w, heard)
  BY Kept, SetFree
<1>3. Less(w, worker[e])
  BY <1>2 DEF Less, Good, Worker
<1>4. Tidy(w, Mine(by, e), Mine(by, Peer(e)), SentByes(e))
  BY <1>2, <1>3, FineEnd, FineLess DEF Fine
<1>. HIDE DEF w
<1>5. \A f \in End : worker'[f] = (IF f = e THEN w ELSE worker[f])
  BY <1>1 DEF IInv, Workers
<1>6. \A f \in End : /\ Sent(f)' = Sent(f) /\ Mine(by, f)' = Mine(by, f)
                     /\ SentByes(f)' = SentByes(f)
  BY <1>1 DEF Sent, Mine, SentByes
<1>7. \A f \in End : Tidy(worker'[f], Mine(by, f), Mine(by, Peer(f)), SentByes(f))
  BY <1>4, <1>5 DEF Dealt
<1>8. \A f \in End : Posted(by, f)'
  BY <1>6 DEF Dealt, Posted
<1>9. \A f \in End : Tidy(worker[f], Mine(by, f), Mine(by, Peer(f)), SentByes(f))'
  BY <1>6, <1>7, PeerOf
<1>. QED
  BY <1>1, <1>8, <1>9 DEF Dealt

-----------------------------------------------------------------------------
(* The theorem.                                                            *)

LEMMA StartsAccounted == Init => Accounted
<1>. SUFFICES ASSUME Init PROVE Accounted
  OBVIOUS
<1>1. PICK by : by = [c \in Call |-> "a"]
  OBVIOUS
<1>2. by \in [Call -> End] /\ dialled = 0 /\ 1 .. dialled = {}
  BY <1>1 DEF Init, End
<1>3. ASSUME NEW e \in End
      PROVE  /\ Sent(e) = {} /\ SentByes(e) = {} /\ Mine(by, e) = {} /\ Mine(by, Peer(e)) = {}
             /\ \E reliable : worker[e] = NewWorker(reliable)
  BY <1>2, PeerOf DEF Init, Sent, SentByes, Mine
<1>4. \A reliable : Tidy(NewWorker(reliable), {}, {}, {})
  BY NothingIsPlain DEF NewWorker, Tidy, ByesOf, Plain, Fit
<1>5. Dealt(by)
  BY <1>2, <1>3, <1>4 DEF Dealt, Posted
<1>. QED
  BY <1>5, Starts DEF Accounted

LEMMA StepsAccounted ==
  ASSUME Unmixed, Accounted, [Next]_vars
  PROVE  Accounted'
<1>1. IInv'
  BY Steps DEF Accounted
<1>2. PICK by : Dealt(by)
  BY DEF Accounted
<1>3. IInv
  BY DEF Accounted
<1>4. CASE UNCHANGED vars
  <2>1. worker' = worker /\ net' = net /\ dialled' = dialled
    BY <1>4 DEF vars
  <2>2. \A e \in End : Sent(e)' = Sent(e)
    BY <2>1 DEF Sent
  <2>3. Dealt(by)'
    BY <1>2, <1>3, <2>1, <2>2, PostedStays, WireAccounts
  <2>. QED
    BY <1>1, <2>3 DEF Accounted
<1>5. ASSUME NEW e \in End, Dial(e) PROVE \E to : Dealt(to)'
  BY <1>2, <1>3, <1>5, DialAccounts
<1>6. ASSUME NEW e \in End, HangUp(e) \/ Quit(e) \/ Lose(e) \/ HeldTooLong(e) \/ Forget(e)
      PROVE  Dealt(by)'
  BY <1>2, <1>3, <1>6, HangUpAccounts, QuitAccounts, LoseAccounts, TimersAccount, ForgetAccounts
<1>7. ASSUME NEW e \in End, NEW usable \in BOOLEAN, Answer(e, usable) PROVE Dealt(by)'
  BY <1>2, <1>3, <1>7, AnswerAccounts
<1>8. ASSUME NEW e \in End, NEW readable \in BOOLEAN,
             Overtake(e, readable) \/ Repeat(e, readable) \/ Receive(e, readable)
      PROVE  Dealt(by)'
  BY <1>2, <1>3, <1>8, OvertakeAccounts, RepeatAccounts, ReceiveAccounts
<1>9. ASSUME NEW e \in End, NEW code \in Challenge, Challenges(e, code) PROVE Dealt(by)'
  BY <1>2, <1>3, <1>9, ChallengesAccounts
<1>10. ASSUME System PROVE Dealt(by)'
  <2>1. PICK e \in End :
          \/ \E readable \in BOOLEAN : Receive(e, readable)
          \/ \E slot \in Slots : ResendOne(e, slot) \/ ExpireOne(e, slot)
          \/ HeldIsServed(e) \/ Leave(e)
    BY <1>10 DEF System
  <2>. QED
    BY <1>2, <1>3, <1>8, <2>1, TimersAccount, LeaveAccounts
<1>11. ASSUME Break PROVE Dealt(by)'
  BY <1>2, <1>3, <1>11, BreakAccounts
<1>12. ASSUME Next PROVE \E to : Dealt(to)'
  BY <1>5, <1>6, <1>7, <1>8, <1>9, <1>10, <1>11, <1>12 DEF Next
<1>. QED
  BY <1>1, <1>4, <1>12 DEF Accounted

\* No two BYEs of one end for one call differ, whatever is lost, repeated or
\* overtaken, however often the user hangs up and whoever quits: a caller has
\* done with the number of a call when its BYE goes out (send_bye, end_call), and
\* a call that comes again after it was forgotten has the same BYE, the second
\* request of its dialog.  That needs a dialog whose numbers are not moved on by
\* credentials sent for another call (retry_with_credentials): one end dials, or
\* no credentials are asked for.
THEOREM ByesAreOne == Unmixed => (Spec => []OneBye)
<1>. SUFFICES ASSUME Unmixed PROVE Spec => []OneBye
  OBVIOUS
<1>1. Init => Accounted
  BY StartsAccounted
<1>2. Accounted /\ [Next]_vars => Accounted'
  BY StepsAccounted
<1>3. Accounted => OneBye
  <2>. SUFFICES ASSUME Accounted PROVE OneBye
    OBVIOUS
  <2>1. PICK by : Dealt(by)
    BY DEF Accounted
  <2>2. ASSUME NEW e \in End, NEW m \in Byes(e), NEW n \in Byes(e), m.call = n.call
        PROVE  m = n
    <3>1. m \in ByesOf(worker[e], SentByes(e)) /\ n \in ByesOf(worker[e], SentByes(e))
      BY DEF Byes, ByesOf, SentByes, IsBye
    <3>. QED
      BY <2>1, <2>2, <3>1 DEF Dealt, Tidy
  <2>. QED
    BY <2>2 DEF OneBye
<1>. QED
  BY <1>1, <1>2, <1>3, PTL DEF Spec

-----------------------------------------------------------------------------
(* One end dials and the other is called, until the program of the first   *)
(* is closed.                                                              *)

OnlyCaller(a) == a \in End /\ Callers \subseteq {a}

Spoken(w) == {w.out[i] : i \in 1 .. Len(w.out)}

\* What is neither an INVITE nor a BYE, nor an answer to anything but a BYE.
Mild(m) == ~IsInvite(m) /\ ~IsBye(m) /\ (m.code # "Request" => m.method = "BYE")

\* The worker of the end that dials.
Calling(w) ==
  /\ w.ringing = Nothing /\ w.answer = Free
  /\ w.state \in {"idle", "dialling", "ringing", "cancelling", "up"}
  /\ w.state = "idle" <=> w.call = NoDialog
  /\ w.state = "up" <=> w.call.established
  /\ w.call # NoDialog => w.call.call # NoCall
  /\ w.invite = Free <=> w.state \in {"idle", "up"}
  /\ w.invite # Free => w.invite.request.call = w.call.call
  /\ Mild(w.cancel.request)
  /\ w.bye.request = Nothing \/ IsBye(w.bye.request)
  /\ \A r \in w.kept : r.method = "BYE" /\ r.code # "Request"

\* It is at rest, and has sent no BYE for the call it is in.
Caller(w, H) == Good(w, H) /\ Calling(w) /\ w.out = <<>> /\ ~ByeUnderway(w)

\* It goes on from v to w and asks for no call; "done" is that its INVITE, if it
\* has one, has had its final answer.
GoesOn(v, w, done) ==
  /\ Calling(w) /\ w.reliable = v.reliable
  /\ w.call.call \in {v.call.call, NoCall}
  /\ w.invite.request = v.invite.request
     \/ (w.invite = Free /\ (done \/ w.call.call = NoCall))
  /\ w.bye.request \in {v.bye.request, Nothing} \/ (done /\ w.bye.request.call = v.call.call)
  /\ \A m \in Spoken(w) :
       Mild(m) \/ (IsBye(m) /\ (m = v.bye.request \/ (done /\ m.call = v.call.call)))

Goes(v, w, done) == GoesOn(v, w, done) /\ w.held_dial \in {v.held_dial, NoCall}

\* The last word on m.
Final(m, r) == Answers(m, r) /\ r.code \notin Provisional \cup {"Request"}

\* w answers m as it answered it before.
Served(w, m) == \E r \in w.kept : Answers(m, r)

OneInvite(s) == \A i, j \in 1 .. Len(s) : IsInvite(s[i]) /\ IsInvite(s[j]) => i = j

\* It goes on and asks for the call of the INVITE m.
Asks(v, w, m) ==
  /\ Calling(w) /\ w.reliable = v.reliable
  /\ IsInvite(m) /\ w.invite.request = m /\ w.call.call = m.call
  /\ w.held_dial \in {v.held_dial, NoCall} /\ w.bye.request = v.bye.request
  /\ \A n \in Spoken(w) : Mild(n) \/ n = m
  /\ OneInvite(w.out)

\* All that Say and Tell leave alone.
Alike(v, w) ==
  /\ v.call = w.call /\ v.invite = w.invite /\ v.cancel = w.cancel /\ v.bye = w.bye
  /\ v.cancel_wanted = w.cancel_wanted /\ v.held_dial = w.held_dial /\ v.ringing = w.ringing
  /\ v.answer = w.answer /\ v.kept = w.kept /\ v.state = w.state /\ v.reliable = w.reliable

-----------------------------------------------------------------------------
(* What the methods leave in the fields of a worker.                       *)

LEMMA SpokenSay ==
  ASSUME NEW w \in Worker, NEW m \in Message
  PROVE  /\ Spoken(Say(w, m)) = Spoken(w) \cup {m}
         /\ Say(w, m) \in Worker
<1>1. w.out \in Seq(Message) /\ Say(w, m).out = Append(w.out, m)
  BY DEF Worker, Say
<1>2. /\ Len(w.out) \in Nat /\ Len(Append(w.out, m)) = Len(w.out) + 1
      /\ \A i \in 1 .. Len(w.out) : Append(w.out, m)[i] = w.out[i]
      /\ Append(w.out, m)[Len(w.out) + 1] = m
  BY <1>1, AppendProperties, LenProperties
<1>3. Append(w.out, m) \in Seq(Message)
  BY <1>1
<1>4. Say(w, m) \in Worker
  BY <1>3 DEF Say, Worker
<1>. QED
  BY <1>1, <1>2, <1>4 DEF Spoken

LEMMA SpokenNone == \A w : w.out = <<>> => Spoken(w) = {}
BY DEF Spoken

LEMMA SpokenAlike == \A v, w : v.out = w.out => Spoken(v) = Spoken(w)
BY DEF Spoken

LEMMA RequestFields ==
  \A method, call, cseq :
    LET m == Request(method, call, cseq)
    IN  m.code = "Request" /\ m.method = method /\ m.call = call /\ m.cseq = cseq
BY DEF Request

LEMMA FreeFields ==
  /\ Free.request = Nothing /\ Nothing.code = "Request" /\ Nothing.method = "None"
  /\ Nothing.call = NoCall /\ NoDialog.call = NoCall /\ ~NoDialog.established /\ NoCall = 0
BY DEF Free, Pending, Nothing, Request, NoDialog, Dialog, NoCall

LEMMA FinishFields ==
  ASSUME NEW k \in Worker, k.call # NoDialog, k.call.call # NoCall
  PROVE  LET w == FinishCall(k)
         IN  /\ w.call = NoDialog /\ w.invite = Free /\ w.cancel = Free /\ ~w.cancel_wanted
             /\ w.answer = Free /\ w.state = "idle" /\ w.ringing = k.ringing
             /\ w.held_dial = k.held_dial /\ w.kept = k.kept /\ w.bye = k.bye
             /\ w.out = k.out /\ w.reliable = k.reliable
BY DEF FinishCall, Tell, Worker

LEMMA SendByeFields ==
  ASSUME NEW k \in Worker, k.call # NoDialog, k.call.call # NoCall, ~ByeUnderway(k)
  PROVE  LET w == SendBye(k)
         IN  /\ w.call = NoDialog /\ w.invite = Free /\ w.cancel = Free /\ ~w.cancel_wanted
             /\ w.answer = Free /\ w.state = "idle" /\ w.ringing = k.ringing
             /\ w.held_dial = k.held_dial /\ w.kept = k.kept /\ w.reliable = k.reliable
             /\ \E bye \in Message :
                  /\ IsBye(bye) /\ bye.call = k.call.call
                  /\ w.bye.request = bye /\ Spoken(w) = Spoken(k) \cup {bye}
<1>. DEFINE bye  == Request("BYE", k.call.call, k.call.cseq + 1)
            said == Say(k, bye)
            sent == [said EXCEPT !.bye = Pending(bye)]
<1>1. bye \in Message /\ IsBye(bye) /\ bye.call = k.call.call
  <2>1. k.call.call \in Call \cup {NoCall} /\ k.call.cseq + 1 \in Nat
    BY DEF Worker
  <2>. QED
    BY <2>1, RequestType, RequestFields DEF IsBye
<1>2. Spoken(said) = Spoken(k) \cup {bye} /\ said \in Worker
  BY <1>1, SpokenSay
<1>3. /\ said.call = k.call /\ said.ringing = k.ringing /\ said.held_dial = k.held_dial
      /\ said.kept = k.kept /\ said.reliable = k.reliable
  BY DEF Say, Worker
<1>4. SendBye(k) = FinishCall(sent)
  BY DEF SendBye
<1>. HIDE DEF said, bye
<1>5. Pending(bye) \in Slot /\ Pending(bye).request = bye
  BY <1>1, PendingType
<1>6. /\ sent \in Worker /\ sent.bye = Pending(bye) /\ sent.out = said.out
      /\ sent.call = said.call /\ sent.ringing = said.ringing
      /\ sent.held_dial = said.held_dial /\ sent.kept = said.kept
      /\ sent.reliable = said.reliable
  BY <1>2, <1>5 DEF Worker
<1>. HIDE DEF sent
<1>7. Spoken(FinishCall(sent)) = Spoken(said)
  BY <1>3, <1>6, FinishFields, SpokenAlike
<1>. QED
  BY <1>1, <1>2, <1>3, <1>4, <1>5, <1>6, <1>7, FinishFields

LEMMA AlikeSay ==
  ASSUME NEW w \in Worker, NEW m
  PROVE  Alike(Say(w, m), w)
BY DEF Say, Worker, Alike

LEMMA AlikeTell ==
  ASSUME NEW w \in Worker, NEW word, NEW call
  PROVE  Alike(Tell(w, word, call), w) /\ Tell(w, word, call).out = w.out
BY DEF Tell, Worker, Alike

LEMMA SendCancelFields ==
  ASSUME NEW k \in Worker, k.invite = Free \/ IsInvite(k.invite.request)
  PROVE  LET w == SendCancel(k)
         IN  /\ w.call = k.call /\ w.bye = k.bye /\ w.held_dial = k.held_dial
             /\ w.ringing = k.ringing /\ w.answer = k.answer /\ w.kept = k.kept
             /\ w.reliable = k.reliable /\ w.invite.request = k.invite.request
             /\ w.invite = Free <=> k.invite = Free
             /\ w.state = k.state \/ (k.invite # Free /\ w.state = "cancelling")
             /\ w.cancel = k.cancel \/ Mild(w.cancel.request)
             /\ \A m \in Spoken(w) : m \in Spoken(k) \/ Mild(m)
<1>. DEFINE request == [k.invite.request EXCEPT !.method = "CANCEL"]
            said == Say(k, request)
            w == [said EXCEPT !.invite.cancelled = TRUE, !.cancel = Pending(request),
                              !.cancel_wanted = FALSE, !.state = "cancelling"]
<1>1. CASE k.invite = Free \/ k.invite.cancelled
  BY <1>1 DEF SendCancel
<1>2. CASE k.invite # Free /\ ~k.invite.cancelled
  <2>1. k.invite \in Slot /\ k.invite.request \in Message /\ IsInvite(k.invite.request)
    BY <1>2 DEF Worker, Slot
  <2>2. request \in Message /\ Mild(request)
    BY <2>1 DEF Message, Mild, IsInvite, IsBye
  <2>3. SendCancel(k) = w
    BY <1>2 DEF SendCancel
  <2>. HIDE DEF request
  <2>4. said \in Worker /\ Spoken(said) = Spoken(k) \cup {request} /\ Alike(said, k)
    BY <2>2, SpokenSay, AlikeSay
  <2>. HIDE DEF said
  <2>5. w.out = said.out /\ w.invite.request = k.invite.request /\ w.invite.cancelled
    BY <2>1, <2>4 DEF Worker, Slot, Alike
  <2>6. w.invite # Free /\ Pending(request).request = request
    BY <2>2, <2>5, PendingType DEF Free, Pending
  <2>7. /\ w.call = k.call /\ w.bye = k.bye /\ w.held_dial = k.held_dial
        /\ w.ringing = k.ringing /\ w.answer = k.answer /\ w.kept = k.kept
        /\ w.reliable = k.reliable /\ w.state = "cancelling" /\ w.cancel = Pending(request)
    BY <2>4 DEF Worker, Alike
  <2>. HIDE DEF w
  <2>8. Spoken(w) = Spoken(said)
    BY <2>5, SpokenAlike
  <2>. QED
    BY <1>2, <2>2, <2>3, <2>4, <2>5, <2>6, <2>7, <2>8
<1>. QED
  BY <1>1, <1>2

LEMMA SendAckFields ==
  ASSUME NEW k \in Worker, NEW response \in Message
  PROVE  LET w == SendAck(k, response)
         IN  /\ w \in Worker /\ Alike(w, k)
             /\ \A m \in Spoken(w) : m \in Spoken(k) \/ Mild(m)
<1>. DEFINE ack == Request("ACK", k.call.call, response.cseq)
<1>1. k.call.call \in Call \cup {NoCall} /\ response.cseq \in Nat
  BY DEF Worker, Message
<1>2. ack \in Message /\ Mild(ack)
  BY <1>1, RequestType, RequestFields DEF Mild, IsInvite, IsBye
<1>3. CASE k.call = NoDialog
  BY <1>3 DEF SendAck, Alike
<1>4. CASE k.call # NoDialog
  <2>. HIDE DEF ack
  <2>1. SendAck(k, response) = Say(k, ack)
    BY <1>4 DEF SendAck, ack
  <2>. QED
    BY <1>2, <2>1, SpokenSay, AlikeSay
<1>. QED
  BY <1>3, <1>4

-----------------------------------------------------------------------------
(* What the end that dials does.                                           *)

LEMMA CallerFields ==
  ASSUME NEW H, NEW v, Caller(v, H)
  PROVE  /\ v \in Worker /\ Calling(v) /\ Spoken(v) = {} /\ ~ByeUnderway(v)
         /\ v.invite = Free \/ IsInvite(v.invite.request)
         /\ v.invite.request \in Message /\ v.bye.request \in Message
         /\ v.invite = Free => v.invite.request = Nothing
         /\ Mild(Nothing)
BY SpokenNone, FreeFields DEF Caller, Good, Worker, Slot, Mild, IsInvite, IsBye

\* Alike to what it is, but for what it says.
LEMMA CallerSame ==
  ASSUME NEW H, NEW v, Caller(v, H), NEW w, Alike(w, v), NEW done \in BOOLEAN,
         \A m \in Spoken(w) : Mild(m) \/ (IsBye(m) /\ m = v.bye.request)
  PROVE  Goes(v, w, done)
<1>1. Calling(w)
  BY CallerFields DEF Calling, Alike
<1>. QED
  BY <1>1 DEF Goes, GoesOn, Alike

LEMMA CallerProvisional ==
  ASSUME NEW H, NEW v, Caller(v, H), v.invite # Free, NEW response
  PROVE  Goes(v, InviteProvisional(v, response), FALSE)
<1>. DEFINE known == [v EXCEPT !.invite.prov = TRUE,
                               !.state = IF response.code = "Ringing" THEN "ringing" ELSE @]
            w == InviteProvisional(v, response)
<1>1. v \in Worker /\ Calling(v) /\ Spoken(v) = {}
  BY CallerFields
<1>2. /\ known.call = v.call /\ known.bye = v.bye /\ known.held_dial = v.held_dial
      /\ known.ringing = v.ringing /\ known.answer = v.answer /\ known.kept = v.kept
      /\ known.reliable = v.reliable /\ known.invite.request = v.invite.request
      /\ known.invite.prov /\ known.state \in {"ringing", v.state} /\ known.cancel = v.cancel
      /\ known.out = v.out
  BY <1>1 DEF Worker, Slot
<1>3. known \in Worker
  <2>1. v.invite.prov \in BOOLEAN /\ [v.invite EXCEPT !.prov = TRUE] \in Slot
    BY <1>1 DEF Worker, Slot
  <2>2. (IF response.code = "Ringing" THEN "ringing" ELSE v.state) \in State
    BY <1>1 DEF Worker, State
  <2>. QED
    BY <1>1, <2>1, <2>2 DEF Worker
<1>4. known.invite # Free
  BY <1>2 DEF Free, Pending
<1>5. w = IF v.cancel_wanted THEN SendCancel(known) ELSE known
  BY <1>1 DEF InviteProvisional, Worker
<1>. HIDE DEF known
<1>6. Spoken(known) = Spoken(v)
  BY <1>2, SpokenAlike
<1>7. /\ w.call = v.call /\ w.bye = v.bye /\ w.held_dial = v.held_dial
      /\ w.ringing = v.ringing /\ w.answer = v.answer /\ w.kept = v.kept
      /\ w.reliable = v.reliable /\ w.invite.request = v.invite.request
      /\ w.invite # Free /\ w.state \in {"ringing", v.state, "cancelling"}
      /\ w.cancel = v.cancel \/ Mild(w.cancel.request)
      /\ \A m \in Spoken(w) : Mild(m)
  <2>1. IsInvite(known.invite.request)
    BY <1>2, CallerFields
  <2>. QED
    BY <1>1, <1>2, <1>3, <1>4, <1>5, <1>6, <2>1, SendCancelFields
<1>. HIDE DEF w
<1>8. Calling(w)
  BY <1>1, <1>7 DEF Calling
<1>. QED
  BY <1>7, <1>8 DEF Goes, GoesOn, w

\* Its INVITE is taken: the call is up, or ends with a BYE.
LEMMA CallerAccepted ==
  ASSUME NEW H, NEW v, Caller(v, H), v.invite # Free, NEW response \in Message, NEW readable
  PROVE  /\ Goes(v, InviteAccepted(v, response, readable), TRUE)
         /\ InviteAccepted(v, response, readable).invite = Free
<1>. DEFINE adopted == AdoptDialog(v, response)
            up      == SendAck(adopted, response)
            clear   == [up EXCEPT !.cancel = Free, !.cancel_wanted = FALSE]
            w       == InviteAccepted(v, response, readable)
<1>1. /\ v \in Worker /\ Calling(v) /\ Spoken(v) = {} /\ ~ByeUnderway(v)
      /\ v.call # NoDialog /\ v.call.call # NoCall
  BY CallerFields DEF Calling
<1>2. adopted \in Worker
  BY GoodAdoptDialog DEF Caller, Good
<1>3. /\ adopted.call # NoDialog /\ adopted.call.call = v.call.call /\ adopted.call.established
      /\ adopted.invite = Free /\ adopted.cancel = v.cancel /\ adopted.bye = v.bye
      /\ adopted.held_dial = v.held_dial /\ adopted.ringing = v.ringing
      /\ adopted.answer = v.answer /\ adopted.kept = v.kept /\ adopted.reliable = v.reliable
      /\ adopted.out = v.out
  <2>1. adopted.call = [v.call EXCEPT !.invite_cseq = response.cseq, !.established = TRUE]
    BY <1>1 DEF AdoptDialog, Worker
  <2>2. adopted.call.call = v.call.call /\ adopted.call.established
    BY <1>1, <2>1 DEF Worker
  <2>. QED
    BY <1>1, <2>2, FreeFields DEF AdoptDialog, Worker
<1>. HIDE DEF adopted
<1>4. /\ up \in Worker /\ Alike(up, adopted) /\ \A m \in Spoken(up) : Mild(m)
  <2>1. Spoken(adopted) = Spoken(v)
    BY <1>3, SpokenAlike
  <2>. QED
    BY <1>1, <1>2, <2>1, SendAckFields
<1>. HIDE DEF up
<1>5. /\ clear \in Worker /\ clear.call = up.call /\ clear.bye = up.bye
      /\ clear.held_dial = up.held_dial /\ clear.ringing = up.ringing /\ clear.kept = up.kept
      /\ clear.reliable = up.reliable /\ clear.out = up.out
  BY <1>4, FreeType DEF Worker
<1>. HIDE DEF clear
<1>6. ASSUME NEW k \in {up, clear}
      PROVE  Goes(v, SendBye(k), TRUE) /\ SendBye(k).invite = Free
    <2>1. /\ k \in Worker /\ k.call = adopted.call /\ k.bye = v.bye
          /\ k.held_dial = v.held_dial /\ k.ringing = v.ringing /\ k.kept = v.kept
          /\ k.reliable = v.reliable /\ \A m \in Spoken(k) : Mild(m)
      BY <1>3, <1>4, <1>5, SpokenAlike DEF Alike
    <2>2. k.call # NoDialog /\ k.call.call # NoCall /\ ~ByeUnderway(k)
      BY <1>1, <1>3, <2>1 DEF ByeUnderway
    <2>. DEFINE x == SendBye(k)
    <2>3. PICK bye \in Message :
            /\ IsBye(bye) /\ bye.call = k.call.call
            /\ x.bye.request = bye /\ Spoken(x) = Spoken(k) \cup {bye}
      BY <2>1, <2>2, SendByeFields
    <2>4. /\ x.call = NoDialog /\ x.invite = Free /\ x.cancel = Free
          /\ x.answer = Free /\ x.state = "idle" /\ x.ringing = k.ringing
          /\ x.held_dial = k.held_dial /\ x.kept = k.kept /\ x.reliable = k.reliable
      BY <2>1, <2>2, SendByeFields
    <2>. HIDE DEF x
    <2>5. Calling(x)
      BY <1>1, <2>1, <2>3, <2>4, FreeFields, CallerFields DEF Calling
    <2>6. Goes(v, x, TRUE)
      BY <1>3, <2>1, <2>3, <2>4, <2>5, FreeFields DEF Goes, GoesOn
    <2>. QED
      BY <2>4, <2>6 DEF x
<1>7. CASE ~Cancelling(v) /\ readable
  <2>. DEFINE top == [up EXCEPT !.state = "up"]
  <2>1. w = Tell(top, "Answered", response.call)
    BY <1>7 DEF InviteAccepted, up, adopted
  <2>2. /\ top \in Worker /\ top.state = "up" /\ top.call = up.call /\ top.invite = up.invite
        /\ top.cancel = up.cancel /\ top.bye = up.bye /\ top.held_dial = up.held_dial
        /\ top.ringing = up.ringing /\ top.answer = up.answer /\ top.kept = up.kept
        /\ top.reliable = up.reliable /\ top.out = up.out
    BY <1>4 DEF Worker, State
  <2>. HIDE DEF top
  <2>3. /\ w.state = "up" /\ w.call = up.call /\ w.invite = up.invite /\ w.cancel = up.cancel
        /\ w.bye = up.bye /\ w.held_dial = up.held_dial /\ w.ringing = up.ringing
        /\ w.answer = up.answer /\ w.kept = up.kept /\ w.reliable = up.reliable
        /\ w.out = up.out
    BY <2>1, <2>2, AlikeTell DEF Alike
  <2>. HIDE DEF w
  <2>4. Spoken(w) = Spoken(up)
    BY <2>3, SpokenAlike
  <2>5. Calling(w)
    BY <1>1, <1>3, <1>4, <2>3 DEF Calling, Alike
  <2>. QED
    BY <1>3, <1>4, <2>3, <2>4, <2>5 DEF Goes, GoesOn, Alike, w
<1>8. CASE Cancelling(v) \/ ~readable
  <2>1. w = SendBye(up) \/ w = SendBye(clear)
    BY <1>8 DEF InviteAccepted, up, adopted, clear
  <2>. QED
    BY <1>6, <2>1
<1>. QED
  BY <1>7, <1>8

\* Its INVITE is refused: the call is over.
LEMMA CallerRefused ==
  ASSUME NEW H, NEW v, Caller(v, H), v.invite # Free
  PROVE  Goes(v, InviteFailed(AckFailure(v)), TRUE)
<1>. DEFINE ack  == [v.invite.request EXCEPT !.method = "ACK"]
            said == AckFailure(v)
            w    == InviteFailed(said)
<1>1. v \in Worker /\ Calling(v) /\ Spoken(v) = {}
  BY CallerFields
<1>2. ack \in Message /\ Mild(ack)
  BY CallerFields DEF Message, Mild, IsInvite, IsBye
<1>. HIDE DEF ack
<1>3. said \in Worker /\ Alike(said, v) /\ Spoken(said) = {ack}
  BY <1>1, <1>2, SpokenSay, AlikeSay DEF AckFailure, ack
<1>. HIDE DEF said
<1>4. /\ w.call = NoDialog /\ w.invite = Free /\ w.cancel = Free /\ w.state = "idle"
      /\ w.bye = said.bye /\ w.held_dial = said.held_dial /\ w.ringing = said.ringing
      /\ w.answer = said.answer /\ w.kept = said.kept /\ w.reliable = said.reliable
      /\ w.out = said.out
  BY <1>3 DEF InviteFailed, Tell, Worker
<1>. HIDE DEF w
<1>5. Spoken(w) = {ack}
  BY <1>3, <1>4, SpokenAlike
<1>6. Calling(w)
  BY <1>1, <1>3, <1>4, FreeFields, CallerFields DEF Calling, Alike
<1>7. Goes(v, w, TRUE)
  BY <1>2, <1>3, <1>4, <1>5, <1>6, FreeFields DEF Goes, GoesOn, Alike
<1>. QED
  BY <1>7 DEF w, said

\* A new INVITE with credentials.
LEMMA CallerRetries ==
  ASSUME NEW H, NEW v, Caller(v, H), v.invite # Free, v.invite.attempts < AUTH_ATTEMPTS
  PROVE  Asks(v, RetryWithCredentials(AckFailure(v)),
              [v.invite.request EXCEPT !.cseq = v.invite.request.cseq + 1])
<1>. DEFINE ack     == [v.invite.request EXCEPT !.method = "ACK"]
            said    == AckFailure(v)
            cseq    == said.invite.request.cseq + 1
            request == [said.invite.request EXCEPT !.cseq = cseq]
            known   == [said EXCEPT !.call = IF @ = NoDialog THEN @
                                    ELSE [@ EXCEPT !.cseq = cseq, !.invite_cseq = cseq]]
            asked   == Say(known, request)
            w       == RetryWithCredentials(said)
<1>1. /\ v \in Worker /\ Calling(v) /\ Spoken(v) = {} /\ v.out = <<>>
      /\ v.invite.request \in Message /\ IsInvite(v.invite.request)
      /\ v.call # NoDialog /\ v.call.call # NoCall
  BY CallerFields DEF Calling, Caller
<1>2. ack \in Message /\ Mild(ack)
  BY <1>1 DEF Message, Mild, IsInvite, IsBye
<1>. HIDE DEF ack
<1>3. said \in Worker /\ Alike(said, v) /\ Spoken(said) = {ack} /\ said.out = <<ack>>
  <2>1. said.out = Append(v.out, ack)
    BY <1>1 DEF AckFailure, Say, Worker, ack
  <2>2. said \in Worker /\ Alike(said, v) /\ Spoken(said) = {ack}
    BY <1>1, <1>2, SpokenSay, AlikeSay DEF AckFailure, ack
  <2>. QED
    BY <1>1, <2>1, <2>2
<1>. HIDE DEF said
<1>4. said.invite = v.invite /\ said.call = v.call
  BY <1>3 DEF Alike
<1>5. cseq \in Nat /\ request \in Message /\ IsInvite(request)
      /\ request.call = v.invite.request.call
  BY <1>1, <1>4 DEF Message, IsInvite
<1>6. /\ known \in Worker /\ known.call.call = v.call.call /\ known.call # NoDialog
      /\ known.call.established = v.call.established
      /\ known.cancel = said.cancel /\ known.bye = said.bye /\ known.held_dial = said.held_dial
      /\ known.ringing = said.ringing /\ known.answer = said.answer /\ known.kept = said.kept
      /\ known.state = said.state /\ known.reliable = said.reliable /\ known.out = said.out
  <2>. HIDE DEF cseq
  <2>. DEFINE moved == [said.call EXCEPT !.cseq = cseq, !.invite_cseq = cseq]
  <2>1. known.call = moved /\ known \in Worker
    <3>1. said.call # NoDialog
      BY <1>1, <1>4
    <3>2. known = [said EXCEPT !.call = moved]
      BY <1>3, <3>1 DEF Worker
    <3>3. moved \in [call : Call \cup {NoCall}, cseq : Nat, invite_cseq : Nat,
                     established : BOOLEAN]
      BY <1>3, <1>5 DEF Worker
    <3>. HIDE DEF moved, known
    <3>. QED
      BY <1>3, <3>2, <3>3 DEF Worker
  <2>2. known.call.call = v.call.call /\ known.call.established = v.call.established
    BY <1>1, <1>4, <2>1 DEF Worker
  <2>3. known.call # NoDialog
    BY <1>1, <2>2, FreeFields
  <2>. QED
    BY <1>3, <2>1, <2>2, <2>3 DEF Worker
<1>. HIDE DEF known, request, cseq
<1>7. /\ asked \in Worker /\ Alike(asked, known) /\ Spoken(asked) = {ack, request}
      /\ asked.out = Append(said.out, request)
  <2>1. Spoken(known) = Spoken(said)
    BY <1>6, SpokenAlike
  <2>2. asked.out = Append(known.out, request)
    BY <1>6 DEF Say, Worker
  <2>. QED
    BY <1>3, <1>5, <1>6, <2>1, <2>2, SpokenSay, AlikeSay
<1>. DEFINE slot == [Pending(request) EXCEPT !.attempts = said.invite.attempts + 1]
<1>8. slot.request = request
  BY <1>5, PendingType DEF Slot
<1>9. w = [asked EXCEPT !.invite = slot]
  BY DEF RetryWithCredentials, asked, known, request, cseq
<1>. HIDE DEF slot, asked
<1>10. /\ w.invite = slot /\ w.call = asked.call /\ w.cancel = asked.cancel /\ w.bye = asked.bye
       /\ w.held_dial = asked.held_dial /\ w.ringing = asked.ringing /\ w.answer = asked.answer
       /\ w.kept = asked.kept /\ w.state = asked.state /\ w.reliable = asked.reliable
       /\ w.out = asked.out
  BY <1>7, <1>9 DEF Worker
<1>. HIDE DEF w
<1>11. w.invite # Free
  BY <1>5, <1>8, <1>10, FreeFields DEF IsInvite
<1>12. Spoken(w) = {ack, request}
  BY <1>7, <1>10, SpokenAlike
<1>13. Calling(w)
  BY <1>1, <1>3, <1>4, <1>5, <1>6, <1>7, <1>8, <1>10, <1>11 DEF Calling, Alike
<1>14. OneInvite(w.out)
  <2>1. <<ack>> \in Seq(Message) /\ Len(<<ack>>) = 1 /\ <<ack>>[1] = ack
    BY <1>2
  <2>2. Len(w.out) = 2 /\ w.out[1] = ack
    BY <1>3, <1>5, <1>7, <1>10, <2>1, AppendProperties
  <2>3. ~IsInvite(ack)
    BY <1>2 DEF Mild
  <2>. QED
    BY <2>2, <2>3 DEF OneInvite
<1>15. request = [v.invite.request EXCEPT !.cseq = v.invite.request.cseq + 1]
  BY <1>4 DEF request, cseq
<1>16. Asks(v, w, request)
  BY <1>2, <1>3, <1>4, <1>5, <1>6, <1>7, <1>8, <1>10, <1>12, <1>13, <1>14, <1>1
     DEF Asks, Alike, Calling
<1>. QED
  BY <1>15, <1>16 DEF w, said

LEMMA CallerFrees ==
  ASSUME NEW H, NEW v, Caller(v, H)
  PROVE  /\ Goes(v, [v EXCEPT !.cancel = Free], FALSE)
         /\ Goes(v, [v EXCEPT !.bye = Free], FALSE)
<1>. DEFINE x == [v EXCEPT !.cancel = Free]
            y == [v EXCEPT !.bye = Free]
<1>1. v \in Worker /\ Calling(v) /\ Spoken(v) = {}
  BY CallerFields
<1>2. /\ x.call = v.call /\ x.invite = v.invite /\ x.cancel = Free /\ x.bye = v.bye
      /\ x.held_dial = v.held_dial /\ x.ringing = v.ringing /\ x.answer = v.answer
      /\ x.kept = v.kept /\ x.state = v.state /\ x.reliable = v.reliable /\ x.out = v.out
  BY <1>1 DEF Worker
<1>3. /\ y.call = v.call /\ y.invite = v.invite /\ y.cancel = v.cancel /\ y.bye = Free
      /\ y.held_dial = v.held_dial /\ y.ringing = v.ringing /\ y.answer = v.answer
      /\ y.kept = v.kept /\ y.state = v.state /\ y.reliable = v.reliable /\ y.out = v.out
  BY <1>1 DEF Worker
<1>. HIDE DEF x, y
<1>4. Spoken(x) = {} /\ Spoken(y) = {}
  BY <1>1, <1>2, <1>3, SpokenAlike
<1>5. Calling(x) /\ Calling(y)
  BY <1>1, <1>2, <1>3, FreeFields, CallerFields DEF Calling
<1>6. Goes(v, x, FALSE) /\ Goes(v, y, FALSE)
  BY <1>2, <1>3, <1>4, <1>5, FreeFields DEF Goes, GoesOn
<1>. QED
  BY <1>6 DEF x, y

LEMMA CallerResponse ==
  ASSUME NEW H, NEW v, Caller(v, H), NEW response \in Message, Founded(response, H),
         response.code # "Request", NEW readable
  PROVE  LET w == HandleResponse(v, response, readable)
         IN  /\ \/ Goes(v, w, FALSE)
                \/ /\ Final(v.invite.request, response)
                   /\ \/ Goes(v, w, TRUE)
                      \/ Asks(v, w, [v.invite.request EXCEPT !.cseq = v.invite.request.cseq + 1])
             /\ Answers(v.invite.request, response) /\ response.code = "OK" => w.invite = Free
<1>. DEFINE w == HandleResponse(v, response, readable)
<1>1. v \in Worker /\ Calling(v) /\ Spoken(v) = {} /\ v.invite.request \in Message
  BY CallerFields
<1>2. CASE Answers(v.invite.request, response)
  <2>1. v.invite # Free
    BY <1>1, <1>2, AnswersAlike, FreeFields DEF Founded
  <2>2. w = InviteAnswered(v, response, readable)
    <3>1. IsInvite(v.invite.request)
      BY <2>1, CallerFields
    <3>2. v.cancel.request # v.invite.request /\ v.bye.request # v.invite.request
      BY <1>1, <3>1, FreeFields DEF Calling, Mild, IsInvite, IsBye
    <3>3. ~Answers(v.cancel.request, response) /\ ~Answers(v.bye.request, response)
      BY <1>2, <3>2 DEF Answers
    <3>. QED
      BY <1>2, <3>3 DEF HandleResponse
  <2>3. CASE response.code \in Provisional
    <3>1. w = InviteProvisional(v, response)
      BY <2>2, <2>3 DEF InviteAnswered, Provisional, Challenge
    <3>. QED
      BY <2>1, <2>3, <3>1, CallerProvisional DEF Provisional
  <2>4. CASE response.code = "OK"
    <3>1. response.code \notin Provisional /\ response.code \notin Challenge
      BY <2>4 DEF Provisional, Challenge
    <3>2. w = InviteAccepted(v, response, readable)
      BY <2>2, <2>4, <3>1 DEF InviteAnswered
    <3>. QED
      BY <1>2, <2>1, <2>4, <3>1, <3>2, CallerAccepted DEF Final
  <2>5. CASE response.code \in Challenge /\ MayAnswerAgain(v.invite.attempts, response)
    <3>1. v.invite.attempts < AUTH_ATTEMPTS
      BY <1>1, <2>5 DEF MayAnswerAgain, AUTH_ATTEMPTS, Worker, Slot
    <3>2. response.code \notin Provisional /\ response.code # "OK"
      BY <2>5 DEF Provisional, Challenge
    <3>3. w = RetryWithCredentials(AckFailure(v))
      BY <2>2, <2>5, <3>2 DEF InviteAnswered
    <3>. QED
      BY <1>2, <2>1, <3>1, <3>2, <3>3, CallerRetries DEF Final
  <2>6. CASE response.code \notin Provisional /\ response.code # "OK"
             /\ ~(response.code \in Challenge /\ MayAnswerAgain(v.invite.attempts, response))
    <3>1. w = InviteFailed(AckFailure(v))
      BY <2>2, <2>6 DEF InviteAnswered
    <3>. QED
      BY <1>2, <2>1, <2>6, <3>1, CallerRefused DEF Final
  <2>. QED
    BY <2>3, <2>4, <2>5, <2>6
<1>3. CASE ~Answers(v.invite.request, response)
  <2>1. w \in {v, [v EXCEPT !.cancel = Free], [v EXCEPT !.bye = Free],
               StrayInviteResponse(v, response)}
    BY <1>3 DEF HandleResponse
  <2>2. Goes(v, v, FALSE)
    BY <1>1, CallerSame DEF Alike
  <2>3. Goes(v, StrayInviteResponse(v, response), FALSE)
    <3>1. Goes(v, SendAck(v, response), FALSE)
      BY <1>1, SendAckFields, CallerSame
    <3>. QED
      BY <2>2, <3>1 DEF StrayInviteResponse
  <2>4. Goes(v, w, FALSE)
    BY <2>1, <2>2, <2>3, CallerFrees
  <2>. QED
    BY <1>3, <2>4
<1>. QED
  BY <1>2, <1>3

LEMMA RespondFields ==
  ASSUME NEW k \in Worker, NEW request \in Message, request.code = "Request",
         NEW code \in Code
  PROVE  LET w == Respond(k, request, code)
             r == Response(request, code)
         IN  /\ w \in Worker /\ w.call = k.call /\ w.invite = k.invite /\ w.cancel = k.cancel
             /\ w.bye = k.bye /\ w.cancel_wanted = k.cancel_wanted
             /\ w.held_dial = k.held_dial /\ w.ringing = k.ringing /\ w.state = k.state
             /\ w.reliable = k.reliable
             /\ w.answer = IF code = "OK" /\ request.method = "INVITE"
                           THEN Pending(r) ELSE k.answer
             /\ r \in w.kept /\ w.kept \subseteq k.kept \cup {r}
             /\ \A m \in Message : Answers(m, r) <=> m = request
             /\ \A m : Served(k, m) => Served(w, m)
             /\ Spoken(w) = Spoken(k) \cup {r}
<1>. DEFINE r    == Response(request, code)
            said == Say(k, r)
            kept == {n \in said.kept : ~Answers(Response(r, "Request"), n)} \cup {r}
            sent == Remember(said, r)
            w    == Respond(k, request, code)
<1>1. r \in Message /\ Response(r, "Request") = request /\ r.code = code
      /\ r.method = request.method
  <2>1. r \in Message /\ Response(r, "Request") = Response(request, "Request")
        /\ r.code = code /\ r.method = request.method
    BY ResponseType
  <2>2. Response(request, "Request") = request
    BY DEF Response, Message
  <2>. QED
    BY <2>1, <2>2
<1>2. \A m \in Message : Answers(m, r) <=> m = request
  BY <1>1 DEF Answers, Response
<1>. HIDE DEF r
<1>3. said \in Worker /\ Alike(said, k) /\ Spoken(said) = Spoken(k) \cup {r}
  BY <1>1, SpokenSay, AlikeSay
<1>. HIDE DEF said
<1>4. kept \subseteq k.kept \cup {r} /\ kept \subseteq Message /\ r \in kept
  BY <1>1, <1>3 DEF Alike, Worker
<1>5. ASSUME NEW m, Served(k, m) PROVE \E n \in kept : Answers(m, n)
  <2>1. PICK n \in k.kept : Answers(m, n)
    BY <1>5 DEF Served
  <2>2. CASE Answers(Response(r, "Request"), n)
    <3>1. m = Response(r, "Request")
      BY <2>1, <2>2 DEF Answers
    <3>2. Answers(m, r)
      BY <3>1 DEF Answers, Response
    <3>. QED
      BY <1>4, <3>2
  <2>3. CASE ~Answers(Response(r, "Request"), n)
    BY <1>3, <2>1, <2>3 DEF Alike
  <2>. QED
    BY <2>2, <2>3
<1>6. sent = [said EXCEPT !.kept = kept]
  BY <1>3 DEF Remember, Worker
<1>. HIDE DEF kept
<1>. DEFINE x == [said EXCEPT !.kept = kept]
<1>7. /\ x \in Worker /\ x.call = k.call /\ x.invite = k.invite
      /\ x.cancel = k.cancel /\ x.bye = k.bye /\ x.cancel_wanted = k.cancel_wanted
      /\ x.held_dial = k.held_dial /\ x.ringing = k.ringing /\ x.state = k.state
      /\ x.reliable = k.reliable /\ x.answer = k.answer /\ x.kept = kept
      /\ x.out = said.out
  <2>1. /\ x \in Worker /\ x.call = said.call /\ x.invite = said.invite
        /\ x.cancel = said.cancel /\ x.bye = said.bye /\ x.cancel_wanted = said.cancel_wanted
        /\ x.held_dial = said.held_dial /\ x.ringing = said.ringing /\ x.state = said.state
        /\ x.reliable = said.reliable /\ x.answer = said.answer /\ x.kept = kept
        /\ x.out = said.out
    BY <1>3, <1>4 DEF Worker
  <2>. HIDE DEF x
  <2>. QED
    BY <1>3, <2>1 DEF Alike
<1>8. w = IF code = "OK" /\ request.method = "INVITE"
          THEN [x EXCEPT !.answer = Pending(r)] ELSE x
  BY <1>6 DEF Respond, sent, said, r
<1>. HIDE DEF x
<1>9. Pending(r) \in Slot
  BY <1>1, PendingType
<1>10. /\ w \in Worker /\ w.call = k.call /\ w.invite = k.invite
       /\ w.cancel = k.cancel /\ w.bye = k.bye /\ w.cancel_wanted = k.cancel_wanted
       /\ w.held_dial = k.held_dial /\ w.ringing = k.ringing /\ w.state = k.state
       /\ w.reliable = k.reliable /\ w.kept = kept /\ w.out = said.out
       /\ w.answer = IF code = "OK" /\ request.method = "INVITE"
                     THEN Pending(r) ELSE k.answer
  <2>. DEFINE y == [x EXCEPT !.answer = Pending(r)]
  <2>1. /\ y \in Worker /\ y.call = x.call /\ y.invite = x.invite
        /\ y.cancel = x.cancel /\ y.bye = x.bye /\ y.cancel_wanted = x.cancel_wanted
        /\ y.held_dial = x.held_dial /\ y.ringing = x.ringing /\ y.state = x.state
        /\ y.reliable = x.reliable /\ y.kept = x.kept /\ y.out = x.out
        /\ y.answer = Pending(r)
    BY <1>7, <1>9 DEF Worker
  <2>2. w = IF code = "OK" /\ request.method = "INVITE" THEN y ELSE x
    BY <1>8
  <2>. HIDE DEF y, w
  <2>. QED
    BY <1>7, <2>1, <2>2
<1>. HIDE DEF w
<1>11. Spoken(w) = Spoken(said)
  BY <1>10, SpokenAlike
<1>12. \A m : Served(k, m) => Served(w, m)
  BY <1>5, <1>10 DEF Served
<1>. QED
  BY <1>2, <1>3, <1>4, <1>10, <1>11, <1>12 DEF w, r

LEMMA CallerBye ==
  ASSUME NEW H, NEW v, Caller(v, H), NEW request \in Message, IsBye(request)
  PROVE  Goes(v, HandleRequest(v, request), FALSE)
<1>. DEFINE again == {r \in v.kept : Answers(request, r)}
            s == Respond(v, request, "OK")
            r == Response(request, "OK")
            w == HandleRequest(v, request)
<1>1. v \in Worker /\ Calling(v) /\ Spoken(v) = {}
  BY CallerFields
<1>2. CASE again # {}
  <2>. DEFINE n == CHOOSE n \in again : TRUE
  <2>1. n \in v.kept
    BY <1>2
  <2>2. w = Say(v, n)
    BY <1>2 DEF HandleRequest
  <2>. HIDE DEF n
  <2>3. n \in Message /\ Mild(n)
    BY <1>1, <2>1 DEF Worker, Calling, Mild, IsInvite, IsBye
  <2>4. Alike(w, v) /\ Spoken(w) = {n}
    BY <1>1, <2>2, <2>3, SpokenSay, AlikeSay
  <2>. HIDE DEF w
  <2>5. Goes(v, w, FALSE)
    BY <2>3, <2>4, CallerSame
  <2>. QED
    BY <2>5 DEF w
<1>3. CASE again = {}
  <2>1. w = IF InOurDialog(v, request) THEN FinishCall(s)
            ELSE Respond(v, request, "NoSuchCall")
    <3>1. w = HandleAfresh(v, request)
      BY <1>3 DEF HandleRequest
    <3>2. HandleAfresh(v, request) = OnBye(v, request)
      BY DEF HandleAfresh, IsBye
    <3>. QED
      BY <3>1, <3>2 DEF OnBye
  <2>2. ASSUME NEW code \in {"OK", "NoSuchCall"}
        PROVE  LET k == Respond(v, request, code)
               IN  /\ k \in Worker /\ k.call = v.call /\ k.invite = v.invite
                   /\ k.cancel = v.cancel /\ k.bye = v.bye /\ k.held_dial = v.held_dial
                   /\ k.ringing = v.ringing /\ k.state = v.state /\ k.reliable = v.reliable
                   /\ k.answer = v.answer
                   /\ \A n \in k.kept : n.method = "BYE" /\ n.code # "Request"
                   /\ \A n \in Spoken(k) : Mild(n)
    <3>1. code \in Code /\ request.code = "Request" /\ request.method = "BYE"
      BY DEF Code, Refusal, IsBye
    <3>2. Response(request, code).method = "BYE" /\ Response(request, code).code # "Request"
      BY <3>1, ResponseType
    <3>3. Mild(Response(request, code))
      BY <3>2 DEF Mild, IsInvite, IsBye
    <3>. HIDE DEF IsBye
    <3>. QED
      BY <1>1, <3>1, <3>2, <3>3, RespondFields DEF Calling
  <2>3. CASE InOurDialog(v, request)
    <3>1. w = FinishCall(s) /\ v.call # NoDialog /\ v.call.call # NoCall
      BY <1>1, <2>1, <2>3 DEF InOurDialog, Calling
    <3>. HIDE DEF s, w
    <3>2. s \in Worker /\ s.call # NoDialog /\ s.call.call # NoCall
      BY <2>2, <3>1 DEF s
    <3>3. /\ w.call = NoDialog /\ w.invite = Free /\ w.cancel = Free
          /\ w.answer = Free /\ w.state = "idle" /\ w.ringing = s.ringing
          /\ w.held_dial = s.held_dial /\ w.kept = s.kept /\ w.bye = s.bye
          /\ w.out = s.out /\ w.reliable = s.reliable
      BY <3>1, <3>2, FinishFields
    <3>4. Spoken(w) = Spoken(s)
      BY <3>3, SpokenAlike
    <3>5. Calling(w)
      BY <1>1, <2>2, <3>3, FreeFields, CallerFields DEF Calling, s
    <3>6. Goes(v, w, FALSE)
      BY <2>2, <3>3, <3>4, <3>5, FreeFields DEF Goes, GoesOn, s
    <3>. QED
      BY <3>6 DEF w
  <2>4. CASE ~InOurDialog(v, request)
    <3>1. w = Respond(v, request, "NoSuchCall")
      BY <2>1, <2>4
    <3>. HIDE DEF w
    <3>2. Calling(w)
      BY <1>1, <2>2, <3>1 DEF Calling
    <3>3. Goes(v, w, FALSE)
      BY <2>2, <3>1, <3>2 DEF Goes, GoesOn
    <3>. QED
      BY <3>3 DEF w
  <2>. QED
    BY <2>3, <2>4
<1>. QED
  BY <1>2, <1>3

LEMMA CallerGivesUp ==
  ASSUME NEW H, NEW v, Caller(v, H)
  PROVE  LET k == GiveUpHeldDial(v)
         IN  /\ Caller(k, H) /\ Goes(v, k, FALSE) /\ k.held_dial = NoCall
             /\ k.call = v.call /\ k.invite = v.invite /\ k.bye = v.bye
             /\ k.reliable = v.reliable
             /\ \A w : \A done \in BOOLEAN : Goes(k, w, done) => Goes(v, w, done)
<1>. DEFINE x == [v EXCEPT !.held_dial = NoCall]
            k == GiveUpHeldDial(v)
<1>1. v \in Worker /\ Calling(v) /\ Spoken(v) = {} /\ v.out = <<>> /\ ~ByeUnderway(v)
      /\ Good(k, H)
  BY CallerFields, GoodGiveUpHeldDial DEF Caller
<1>2. x \in Worker
  BY <1>1, FreeType DEF Worker
<1>3. /\ x.call = v.call /\ x.invite = v.invite /\ x.cancel = v.cancel /\ x.bye = v.bye
      /\ x.held_dial = NoCall /\ x.ringing = v.ringing /\ x.answer = v.answer
      /\ x.kept = v.kept /\ x.state = v.state /\ x.reliable = v.reliable /\ x.out = v.out
  BY <1>1 DEF Worker
<1>4. (k = v /\ v.held_dial = NoCall) \/ k = Tell(x, "Failed", v.held_dial)
  BY DEF GiveUpHeldDial
<1>. HIDE DEF x, k
<1>5. /\ k.call = v.call /\ k.invite = v.invite /\ k.cancel = v.cancel /\ k.bye = v.bye
      /\ k.held_dial = NoCall /\ k.ringing = v.ringing /\ k.answer = v.answer
      /\ k.kept = v.kept /\ k.state = v.state /\ k.reliable = v.reliable /\ k.out = v.out
  BY <1>2, <1>3, <1>4, AlikeTell DEF Alike
<1>6. Spoken(k) = {}
  BY <1>1, <1>5, SpokenAlike
<1>7. Calling(k)
  BY <1>1, <1>5 DEF Calling
<1>8. Caller(k, H)
  BY <1>1, <1>5, <1>7 DEF Caller, ByeUnderway
<1>9. Goes(v, k, FALSE)
  BY <1>5, <1>6, <1>7 DEF Goes, GoesOn
<1>10. \A w : \A done \in BOOLEAN : Goes(k, w, done) => Goes(v, w, done)
  BY <1>5 DEF Goes, GoesOn
<1>. QED
  BY <1>5, <1>8, <1>9, <1>10 DEF k

\* It sends a BYE only for a call that is up.
LEMMA CallerEnds ==
  ASSUME NEW H, NEW v, Caller(v, H)
  PROVE  /\ v.call.established => Goes(v, EndCall(v), TRUE)
         /\ ~v.call.established => Goes(v, EndCall(v), FALSE)
<1>. DEFINE k == GiveUpHeldDial(v)
            w == EndCall(v)
<1>1. w = HangUpNow(k)
  BY DEF EndCall
<1>2. /\ Caller(k, H) /\ k.call = v.call
      /\ \A x : \A done \in BOOLEAN : Goes(k, x, done) => Goes(v, x, done)
  BY CallerGivesUp
<1>. HIDE DEF k, w
<1>4. k \in Worker /\ Calling(k) /\ Spoken(k) = {} /\ ~ByeUnderway(k) /\ Mild(Nothing)
      /\ (k.invite = Free \/ IsInvite(k.invite.request))
  BY <1>2, CallerFields
<1>5. w = IF k.call.established THEN SendBye(k)
          ELSE IF k.invite # Free THEN WantCancel(k)
          ELSE [k EXCEPT !.state = "idle"]
  BY <1>1, <1>4 DEF HangUpNow, Calling
<1>6. CASE k.call.established
  <2>1. k.call # NoDialog /\ k.call.call # NoCall /\ w = SendBye(k)
    BY <1>4, <1>5, <1>6, FreeFields DEF Calling
  <2>2. PICK bye \in Message :
          /\ IsBye(bye) /\ bye.call = k.call.call
          /\ w.bye.request = bye /\ Spoken(w) = Spoken(k) \cup {bye}
    BY <1>4, <2>1, SendByeFields
  <2>3. /\ w.call = NoDialog /\ w.invite = Free /\ w.cancel = Free
        /\ w.answer = Free /\ w.state = "idle" /\ w.ringing = k.ringing
        /\ w.held_dial = k.held_dial /\ w.kept = k.kept /\ w.reliable = k.reliable
    BY <1>4, <2>1, SendByeFields
  <2>4. Calling(w)
    BY <1>4, <2>2, <2>3, FreeFields DEF Calling
  <2>5. Goes(k, w, TRUE)
    BY <1>4, <2>2, <2>3, <2>4, FreeFields DEF Goes, GoesOn
  <2>6. v.call.established
    BY <1>2, <1>6
  <2>. QED
    BY <1>2, <2>5, <2>6 DEF w
<1>7. CASE ~k.call.established
  <2>1. ~v.call.established
    BY <1>2, <1>7
  <2>2. CASE k.invite = Free
    <3>1. w = [k EXCEPT !.state = "idle"] /\ k.state = "idle"
      BY <1>4, <1>5, <1>7, <2>2 DEF Calling
    <3>2. Alike(w, k) /\ w.out = k.out
      BY <1>4, <3>1 DEF Worker, Alike
    <3>3. Spoken(w) = {}
      BY <1>4, <3>2, SpokenAlike
    <3>4. Goes(k, w, FALSE)
      BY <1>2, <3>2, <3>3, CallerSame
    <3>. QED
      BY <1>2, <2>1, <3>4 DEF w
  <2>3. CASE k.invite # Free
    <3>. DEFINE wanted == [k EXCEPT !.cancel_wanted = TRUE, !.state = "cancelling"]
    <3>1. w \in {k, SendCancel(k), wanted}
      BY <1>5, <1>7, <2>3 DEF WantCancel
    <3>2. /\ wanted.call = k.call /\ wanted.invite = k.invite /\ wanted.cancel = k.cancel
          /\ wanted.bye = k.bye /\ wanted.held_dial = k.held_dial
          /\ wanted.ringing = k.ringing /\ wanted.answer = k.answer /\ wanted.kept = k.kept
          /\ wanted.state = "cancelling" /\ wanted.reliable = k.reliable
          /\ wanted.out = k.out
      BY <1>4 DEF Worker
    <3>. HIDE DEF wanted
    <3>3. /\ w.call = k.call /\ w.bye = k.bye /\ w.held_dial = k.held_dial
          /\ w.ringing = k.ringing /\ w.answer = k.answer /\ w.kept = k.kept
          /\ w.reliable = k.reliable /\ w.invite.request = k.invite.request
          /\ w.invite # Free
          /\ w.state = k.state \/ w.state = "cancelling"
          /\ w.cancel = k.cancel \/ Mild(w.cancel.request)
          /\ \A m \in Spoken(w) : m \in Spoken(k) \/ Mild(m)
      BY <1>4, <2>3, <3>1, <3>2, SendCancelFields, SpokenAlike
    <3>4. Calling(w)
      BY <1>4, <2>3, <3>3 DEF Calling
    <3>5. Goes(k, w, FALSE)
      BY <1>4, <3>3, <3>4 DEF Goes, GoesOn
    <3>. QED
      BY <1>2, <2>1, <3>5 DEF w
  <2>. QED
    BY <2>2, <2>3
<1>. QED
  BY <1>6, <1>7

LEMMA CallerResends ==
  ASSUME NEW H, NEW v, Caller(v, H), NEW slot \in Slots, Resends(v, slot)
  PROVE  LET w == Resend(v, slot)
         IN  Goes(v, w, FALSE) \/ (v.invite # Free /\ Asks(v, w, v.invite.request))
<1>. DEFINE m    == v[slot].request
            said == Say(v, m)
            w    == Resend(v, slot)
<1>1. /\ v \in Worker /\ Calling(v) /\ Spoken(v) = {} /\ v.out = <<>>
      /\ v[slot] \in Slot /\ m \in Message /\ v[slot] # Free
      /\ (v.invite = Free \/ IsInvite(v.invite.request))
  BY CallerFields, SlotFounded DEF Caller, Resends
<1>. HIDE DEF m
<1>2. said \in Worker /\ Alike(said, v) /\ Spoken(said) = {m} /\ said.out = Append(v.out, m)
  <2>1. said.out = Append(v.out, m)
    BY <1>1 DEF Say, Worker
  <2>. QED
    BY <1>1, <2>1, SpokenSay, AlikeSay
<1>3. w = [said EXCEPT ![slot].tries = @ + 1]
  BY DEF Resend, m
<1>. HIDE DEF said
<1>4. /\ w.call = v.call /\ w.held_dial = v.held_dial /\ w.ringing = v.ringing
      /\ w.kept = v.kept /\ w.state = v.state /\ w.reliable = v.reliable /\ w.out = said.out
      /\ \A s \in Slots : w[s].request = v[s].request /\ (s # slot => w[s] = v[s])
  BY <1>1, <1>2, <1>3 DEF Worker, Alike, Slots, Slot
<1>5. /\ w.invite.request = v.invite.request /\ w.cancel.request = v.cancel.request
      /\ w.bye.request = v.bye.request
      /\ slot # "invite" => w.invite = v.invite
      /\ slot # "answer" => w.answer = v.answer
  BY <1>4 DEF Slots
<1>. HIDE DEF w
<1>6. Spoken(w) = {m}
  BY <1>2, <1>4, SpokenAlike
<1>7. slot # "answer"
  BY <1>1 DEF Calling
<1>8. w.invite = Free <=> v.invite = Free
  BY <1>1, <1>5, FreeFields DEF IsInvite
<1>9. Calling(w)
  BY <1>1, <1>4, <1>5, <1>7, <1>8 DEF Calling
<1>10. CASE slot = "invite"
  <2>1. m = v.invite.request /\ v.invite # Free /\ IsInvite(m)
    BY <1>1, <1>10 DEF m
  <2>2. OneInvite(w.out)
    <3>1. w.out = <<m>>
      BY <1>1, <1>2, <1>4
    <3>. QED
      BY <3>1 DEF OneInvite
  <2>3. Asks(v, w, m)
    BY <1>1, <1>4, <1>5, <1>6, <1>9, <2>1, <2>2 DEF Asks, Calling
  <2>. QED
    BY <2>1, <2>3 DEF w
<1>11. CASE slot \in {"cancel", "bye"}
  <2>1. Mild(m) \/ (IsBye(m) /\ m = v.bye.request)
    BY <1>1, <1>11, CallerFields DEF Calling, m
  <2>2. Goes(v, w, FALSE)
    BY <1>4, <1>5, <1>6, <1>9, <2>1 DEF Goes, GoesOn
  <2>. QED
    BY <2>2 DEF w
<1>. QED
  BY <1>7, <1>10, <1>11 DEF Slots

LEMMA CallerExpires ==
  ASSUME NEW H, NEW v, Caller(v, H), NEW slot \in Slots, Expires(v, slot)
  PROVE  Goes(v, Expire(v, slot), FALSE)
<1>1. v \in Worker /\ Calling(v) /\ Spoken(v) = {}
  BY CallerFields
<1>2. slot # "answer"
  BY <1>1 DEF Calling, Expires
<1>3. CASE slot = "invite"
  <2>. DEFINE x == [v EXCEPT !.invite = Free, !.cancel = Free, !.cancel_wanted = FALSE,
                             !.call = NoDialog, !.state = "idle"]
              w == Expire(v, slot)
  <2>1. \E word : w = Tell(x, word, v.invite.request.call)
    BY <1>3 DEF Expire
  <2>2. /\ x.call = NoDialog /\ x.invite = Free /\ x.cancel = Free /\ x.bye = v.bye
        /\ x.held_dial = v.held_dial /\ x.ringing = v.ringing /\ x.answer = v.answer
        /\ x.kept = v.kept /\ x.state = "idle" /\ x.reliable = v.reliable /\ x.out = v.out
        /\ x \in Worker
    BY <1>1, FreeType DEF Worker, State, NoDialog, Dialog
  <2>. HIDE DEF x, w
  <2>3. Alike(w, x) /\ w.out = v.out
    BY <2>1, <2>2, AlikeTell
  <2>4. Spoken(w) = {}
    BY <1>1, <2>3, SpokenAlike
  <2>5. Calling(w)
    BY <1>1, <2>2, <2>3, FreeFields, CallerFields DEF Calling, Alike
  <2>6. Goes(v, w, FALSE)
    BY <2>2, <2>3, <2>4, <2>5, FreeFields DEF Goes, GoesOn, Alike
  <2>. QED
    BY <2>6 DEF w
<1>4. CASE slot \in {"cancel", "bye"}
  <2>1. Expire(v, slot) = [v EXCEPT ![slot] = Free]
    BY <1>4 DEF Expire
  <2>. QED
    BY <1>4, <2>1, CallerFrees
<1>. QED
  BY <1>2, <1>3, <1>4 DEF Slots

LEMMA CallerPlaces ==
  ASSUME NEW H, NEW v, Caller(v, H), NEW number \in Call
  PROVE  LET w == PlaceCall(v, number)
         IN  \/ GoesOn(v, w, FALSE) /\ (w.held_dial = v.held_dial
                                        \/ (w.held_dial = number /\ StillGettingRidOfACall(v)))
             \/ /\ v.invite = Free /\ w.held_dial = v.held_dial
                /\ Asks(v, w, Request("INVITE", number, 1))
<1>. DEFINE w == PlaceCall(v, number)
            m == Request("INVITE", number, 1)
<1>1. v \in Worker /\ Calling(v) /\ Spoken(v) = {} /\ v.out = <<>>
  BY CallerFields DEF Caller
<1>2. number # NoCall /\ number \in Call \cup {NoCall}
  BY DEF Call, NoCall
<1>3. CASE StillGettingRidOfACall(v)
  <2>. DEFINE k == GiveUpHeldDial(v)
  <2>1. w = [k EXCEPT !.held_dial = number]
    BY <1>3 DEF PlaceCall, HoldADial
  <2>2. Caller(k, H) /\ k.call = v.call /\ k.invite = v.invite /\ k.bye = v.bye
        /\ k.reliable = v.reliable
    BY CallerGivesUp
  <2>. HIDE DEF k, w
  <2>3. k \in Worker /\ Calling(k) /\ Spoken(k) = {}
    BY <2>2, CallerFields
  <2>4. /\ w.call = k.call /\ w.invite = k.invite /\ w.cancel = k.cancel /\ w.bye = k.bye
        /\ w.held_dial = number /\ w.ringing = k.ringing /\ w.answer = k.answer
        /\ w.kept = k.kept /\ w.state = k.state /\ w.reliable = k.reliable /\ w.out = k.out
    BY <2>1, <2>3 DEF Worker
  <2>5. Spoken(w) = {}
    BY <2>3, <2>4, SpokenAlike
  <2>6. Calling(w)
    BY <2>3, <2>4 DEF Calling
  <2>7. GoesOn(v, w, FALSE) /\ w.held_dial = number
    BY <2>2, <2>4, <2>5, <2>6 DEF GoesOn
  <2>. QED
    BY <1>3, <2>7 DEF w
<1>4. CASE ~StillGettingRidOfACall(v) /\ (v.call # NoDialog \/ v.invite # Free)
  <2>1. w = Tell(v, "Failed", number)
    BY <1>4 DEF PlaceCall
  <2>2. Alike(w, v) /\ w.out = v.out
    BY <1>1, <2>1, AlikeTell
  <2>. HIDE DEF w
  <2>3. Spoken(w) = {}
    BY <1>1, <2>2, SpokenAlike
  <2>4. GoesOn(v, w, FALSE) /\ w.held_dial = v.held_dial
    BY <2>2, <2>3, CallerSame DEF Goes, Alike
  <2>. QED
    BY <2>4 DEF w
<1>5. CASE v.call = NoDialog /\ v.invite = Free
  <2>. DEFINE said  == Say(v, m)
              asked == [said EXCEPT !.call = Dialog(number, 1), !.invite = Pending(m),
                                    !.state = "dialling"]
  <2>1. m \in Message /\ IsInvite(m) /\ m.call = number
    BY <1>2, RequestType, RequestFields DEF IsInvite
  <2>2. w = Tell(asked, "Dialling", number)
    BY <1>5 DEF PlaceCall, StillGettingRidOfACall
  <2>. HIDE DEF m
  <2>3. said \in Worker /\ Alike(said, v) /\ Spoken(said) = {m} /\ said.out = Append(v.out, m)
    <3>1. said.out = Append(v.out, m)
      BY <1>1 DEF Say, Worker
    <3>. QED
      BY <1>1, <2>1, <3>1, SpokenSay, AlikeSay
  <2>4. /\ Dialog(number, 1).call = number /\ Dialog(number, 1) # NoDialog
        /\ ~Dialog(number, 1).established
        /\ Dialog(number, 1) \in [call : Call \cup {NoCall}, cseq : Nat, invite_cseq : Nat,
                                  established : BOOLEAN]
    BY <1>2, FreeFields DEF Dialog
  <2>5. Pending(m) \in Slot /\ Pending(m).request = m /\ Pending(m) # Free
    BY <2>1, PendingType, FreeFields DEF IsInvite
  <2>. HIDE DEF said
  <2>6. /\ asked \in Worker /\ asked.call = Dialog(number, 1) /\ asked.invite = Pending(m)
        /\ asked.cancel = said.cancel /\ asked.bye = said.bye
        /\ asked.held_dial = said.held_dial /\ asked.ringing = said.ringing
        /\ asked.answer = said.answer /\ asked.kept = said.kept
        /\ asked.state = "dialling" /\ asked.reliable = said.reliable /\ asked.out = said.out
    BY <2>3, <2>4, <2>5 DEF Worker, State
  <2>. HIDE DEF asked, w
  <2>7. Alike(w, asked) /\ w.out = said.out
    BY <2>2, <2>6, AlikeTell
  <2>8. Spoken(w) = {m}
    BY <2>3, <2>7, SpokenAlike
  <2>9. Calling(w)
    BY <1>1, <1>2, <2>1, <2>3, <2>4, <2>5, <2>6, <2>7 DEF Calling, Alike
  <2>10. OneInvite(w.out)
    <3>1. w.out = <<m>>
      BY <1>1, <2>3, <2>7
    <3>. QED
      BY <3>1 DEF OneInvite
  <2>11. Asks(v, w, m) /\ w.held_dial = v.held_dial
    BY <2>1, <2>3, <2>4, <2>5, <2>6, <2>7, <2>8, <2>9, <2>10 DEF Asks, Alike
  <2>. QED
    BY <1>5, <2>11 DEF w, m
<1>. QED
  BY <1>3, <1>4, <1>5

LEMMA CallerServes ==
  ASSUME NEW H, NEW v, Caller(v, H), v.held_dial \in Call, ~StillGettingRidOfACall(v)
  PROVE  LET w == ServeHeldDial(v)
         IN  \/ Goes(v, w, FALSE)
             \/ /\ v.invite = Free /\ w.held_dial = NoCall
                /\ Asks(v, w, Request("INVITE", v.held_dial, 1))
<1>. DEFINE k == [v EXCEPT !.held_dial = NoCall]
            w == ServeHeldDial(v)
<1>1. v \in Worker /\ Calling(v) /\ v.out = <<>> /\ ~ByeUnderway(v)
  BY CallerFields DEF Caller
<1>2. /\ k.call = v.call /\ k.invite = v.invite /\ k.cancel = v.cancel /\ k.bye = v.bye
      /\ k.held_dial = NoCall /\ k.ringing = v.ringing /\ k.answer = v.answer
      /\ k.kept = v.kept /\ k.state = v.state /\ k.reliable = v.reliable /\ k.out = v.out
      /\ k.cancel_wanted = v.cancel_wanted
  BY <1>1 DEF Worker
<1>3. Good(k, H)
  BY SetHeld, FreeType DEF Caller
<1>4. w = PlaceCall(k, v.held_dial)
  BY DEF ServeHeldDial
<1>. HIDE DEF k
<1>5. Caller(k, H) /\ ~StillGettingRidOfACall(k)
  BY <1>1, <1>2, <1>3 DEF Caller, Calling, ByeUnderway, StillGettingRidOfACall, Cancelling
<1>6. \/ GoesOn(k, w, FALSE) /\ w.held_dial = k.held_dial
      \/ /\ k.invite = Free /\ w.held_dial = k.held_dial
         /\ Asks(k, w, Request("INVITE", v.held_dial, 1))
  BY <1>4, <1>5, CallerPlaces
<1>. HIDE DEF w
<1>7. GoesOn(k, w, FALSE) => GoesOn(v, w, FALSE)
  BY <1>2 DEF GoesOn
<1>8. \A m : w.held_dial = NoCall /\ Asks(k, w, m) => Asks(v, w, m)
  BY <1>2 DEF Asks
<1>9. \/ Goes(v, w, FALSE)
      \/ /\ v.invite = Free /\ w.held_dial = NoCall
         /\ Asks(v, w, Request("INVITE", v.held_dial, 1))
  BY <1>2, <1>6, <1>7, <1>8 DEF Goes
<1>. QED
  BY <1>9 DEF w

\* What is said when the connection is made again.
LEMMA SaysAgain ==
  ASSUME NEW w \in Worker, w.out = <<>>, \A s \in Slots : w[s].request \in Message
  PROVE  LET says == {w[s].request : s \in {t \in Slots : w[t] # Free}}
         IN  /\ Spoken(ConnectionRemade(w)) = says
             /\ ConnectionRemade(w).out \in Seq(Message)
             /\ (\A s \in Slots \ {"invite"} : ~IsInvite(w[s].request))
                   => OneInvite(ConnectionRemade(w).out)
<1>. DEFINE Again(v, s) == IF v[s] = Free THEN v ELSE Say(v, v[s].request)
            Of(S) == {w[s].request : s \in {t \in S : w[t] # Free}}
            Mute == \A s \in Slots \ {"invite"} : ~IsInvite(w[s].request)
            Says(v, S) == /\ v \in Worker /\ Alike(v, w) /\ Spoken(v) = Of(S)
                          /\ Mute => OneInvite(v.out)
<1>1. ASSUME NEW v, NEW S, S \subseteq Slots, Says(v, S), NEW s \in Slots \ S,
             s # "invite" \/ S = {}
      PROVE  Says(Again(v, s), S \cup {s})
  <2>1. v[s] = w[s] /\ v \in Worker /\ Alike(v, w) /\ w[s].request \in Message
    BY <1>1 DEF Alike, Slots
  <2>2. CASE w[s] = Free
    <3>1. Of(S \cup {s}) = Of(S)
      BY <2>2
    <3>2. Again(v, s) = v
      BY <2>1, <2>2
    <3>. QED
      BY <1>1, <3>1, <3>2
  <2>3. CASE w[s] # Free
    <3>. DEFINE m == w[s].request
                x == Say(v, m)
    <3>1. Of(S \cup {s}) = Of(S) \cup {m}
      BY <2>3
    <3>2. Again(v, s) = x
      BY <2>1, <2>3
    <3>. HIDE DEF m, Of
    <3>3. x \in Worker /\ Alike(x, v) /\ Spoken(x) = Spoken(v) \cup {m}
          /\ x.out = Append(v.out, m) /\ v.out \in Seq(Message) /\ m \in Message
      <4>1. m \in Message
        BY <2>1 DEF m
      <4>2. x.out = Append(v.out, m) /\ v.out \in Seq(Message)
        BY <2>1 DEF Say, Worker
      <4>. QED
        BY <2>1, <4>1, <4>2, SpokenSay, AlikeSay
    <3>. HIDE DEF x
    <3>4. Alike(x, w)
      BY <2>1, <3>3 DEF Alike
    <3>5. ASSUME Mute PROVE OneInvite(x.out)
      <4>1. OneInvite(v.out) /\ Spoken(v) = Of(S)
        BY <1>1, <3>5
      <4>2. ~IsInvite(m) \/ \A i \in 1 .. Len(v.out) : ~IsInvite(v.out[i])
        <5>1. CASE s # "invite"
          BY <3>5, <5>1 DEF m
        <5>2. CASE S = {}
          <6>1. Spoken(v) = {}
            BY <4>1, <5>2 DEF Of
          <6>. QED
            BY <6>1 DEF Spoken
        <5>. QED
          BY <1>1, <5>1, <5>2
      <4>3. /\ Len(x.out) = Len(v.out) + 1 /\ x.out[Len(v.out) + 1] = m /\ Len(v.out) \in Nat
            /\ \A i \in 1 .. Len(v.out) : x.out[i] = v.out[i]
        BY <3>3, AppendProperties, LenProperties
      <4>4. ASSUME NEW i \in 1 .. Len(x.out), IsInvite(x.out[i]), i # Len(v.out) + 1
            PROVE  i \in 1 .. Len(v.out) /\ IsInvite(v.out[i])
        <5>1. i \in 1 .. Len(v.out)
          BY <4>3, <4>4
        <5>. QED
          BY <4>3, <4>4, <5>1
      <4>5. ASSUME NEW i \in 1 .. Len(x.out), IsInvite(x.out[i]),
                   NEW j \in 1 .. Len(x.out), IsInvite(x.out[j])
            PROVE  i = j
        <5>1. CASE ~IsInvite(m)
          <6>1. i # Len(v.out) + 1 /\ j # Len(v.out) + 1
            BY <4>3, <4>5, <5>1
          <6>. QED
            BY <4>1, <4>4, <4>5, <6>1 DEF OneInvite
        <5>2. CASE \A n \in 1 .. Len(v.out) : ~IsInvite(v.out[n])
          BY <4>4, <4>5, <5>2
        <5>. QED
          BY <4>2, <5>1, <5>2
      <4>. QED
        BY <4>5 DEF OneInvite
    <3>. QED
      BY <1>1, <3>1, <3>2, <3>3, <3>4, <3>5
  <2>. QED
    BY <2>2, <2>3
<1>2. Says(w, {})
  BY SpokenNone DEF Alike, OneInvite
<1>3. Says(Again(w, "invite"), {"invite"})
  <2>. HIDE DEF Says, Again
  <2>1. Says(Again(w, "invite"), {} \cup {"invite"})
    BY <1>1, <1>2 DEF Slots
  <2>2. {} \cup {"invite"} = {"invite"}
    OBVIOUS
  <2>. QED
    BY <2>1, <2>2
<1>. DEFINE x == Again(w, "invite")
            y == Again(x, "cancel")
            z == Again(y, "bye")
<1>4. Says(y, {"invite", "cancel"})
  <2>. HIDE DEF x, Says, Again
  <2>1. Says(Again(x, "cancel"), {"invite"} \cup {"cancel"})
    BY <1>1, <1>3 DEF Slots, x
  <2>. QED
    BY <2>1
<1>5. Says(z, {"invite", "cancel", "bye"})
  <2>. HIDE DEF x, y, Says, Again
  <2>1. Says(Again(y, "bye"), {"invite", "cancel"} \cup {"bye"})
    BY <1>1, <1>4 DEF Slots
  <2>2. {"invite", "cancel"} \cup {"bye"} = {"invite", "cancel", "bye"}
    OBVIOUS
  <2>. QED
    BY <2>1, <2>2
<1>6. Says(Again(z, "answer"), Slots)
  <2>. HIDE DEF x, y, z, Says, Again
  <2>1. Says(Again(z, "answer"), {"invite", "cancel", "bye"} \cup {"answer"})
    BY <1>1, <1>5 DEF Slots
  <2>2. {"invite", "cancel", "bye"} \cup {"answer"} = Slots
    BY DEF Slots
  <2>. QED
    BY <2>1, <2>2
<1>7. ConnectionRemade(w) = Again(z, "answer")
  BY DEF ConnectionRemade
<1>. HIDE DEF x, y, z, Again
<1>8. ConnectionRemade(w).out \in Seq(Message)
  BY <1>6, <1>7 DEF Worker
<1>. QED
  BY <1>6, <1>7, <1>8

-----------------------------------------------------------------------------
(* What the end that is called does.                                       *)

\* "running" is that its program has not been closed.
Called(w, running) ==
  /\ w.invite = Free /\ w.cancel = Free /\ w.held_dial = NoCall /\ ~w.cancel_wanted
  /\ w.state \in {"idle", "ringing here", "answered"}
  /\ w.state = "idle" <=> w.call = NoDialog
  /\ w.state = "answered" <=> w.call.established
  /\ w.call # NoDialog => w.call.call # NoCall
  /\ w.answer # Free => w.state = "answered" /\ w.answer.request.code = "OK"
  /\ w.ringing # Nothing => w.state # "answered"
  /\ w.bye.request = Nothing \/ IsBye(w.bye.request)
  /\ \A r \in w.kept : r.code # "Request" /\ r.method # "None"
  /\ running => /\ w.ringing # Nothing <=> w.state = "ringing here"
                /\ w.ringing # Nothing => w.ringing.call = w.call.call
                /\ \A r \in w.kept : ~Final(w.ringing, r)

\* What w says of an INVITE for the last time, it says again and no more rings for.
Settles(w, r, running) ==
  /\ r.code = "Request" => r.method = "BYE"
  /\ r.code \notin Provisional \cup {"Request"} /\ r.method = "INVITE" =>
       /\ Served(w, Response(r, "Request"))
       /\ running => w.ringing # Response(r, "Request")

\* It goes on from v to w when m comes to it, or Nothing.
Serves(v, w, m, running) ==
  /\ Called(w, running) /\ w.reliable = v.reliable
  /\ \A n : Served(v, n) => Served(w, n)
  /\ w.ringing \in {v.ringing, Nothing} \/ (w.ringing = m /\ IsInvite(m) /\ ~Served(v, m))
  /\ \/ w.answer.request \in {v.answer.request, Nothing}
     \/ /\ w.answer.request \in Spoken(w)
        /\ Served(w, Response(w.answer.request, "Request"))
  /\ \A r \in w.kept : r.method = "INVITE" =>
       r \in v.kept \/ Response(r, "Request") \in {v.ringing, m}
  /\ \A r \in Spoken(w) : Settles(w, r, running)

Callee(w, H, running) == Good(w, H) /\ Called(w, running) /\ w.out = <<>>

LEMMA CalleeFields ==
  ASSUME NEW H, NEW v, NEW running, Callee(v, H, running)
  PROVE  /\ v \in Worker /\ Called(v, running) /\ Spoken(v) = {}
         /\ v.ringing \in Message
         /\ v.ringing = Nothing
            \/ (v.ringing.code = "Request" /\ v.ringing.method = "INVITE")
         /\ v.answer = Free => v.answer.request = Nothing
         /\ \A r \in v.kept : r \in Message
BY SpokenNone, FreeFields DEF Callee, Good, Worker, IsInvite

\* What was kept answers something.
LEMMA NothingIsAnswered ==
  ASSUME NEW r \in Message, r.method # "None", NEW code
  PROVE  ~Answers(Nothing, r) /\ ~Final(Nothing, r)
BY FreeFields DEF Answers, Final, Message

LEMMA ResponseIs ==
  ASSUME NEW request \in Message, request.code = "Request", NEW code \in Code
  PROVE  LET r == Response(request, code)
         IN  /\ r \in Message /\ r.code = code /\ r.method = request.method
             /\ Response(r, "Request") = request
             /\ \A m \in Message : Answers(m, r) <=> m = request
<1>1. LET r == Response(request, code)
      IN  r \in Message /\ r.code = code /\ r.method = request.method
          /\ Response(r, "Request") = Response(request, "Request")
  BY ResponseType
<1>2. Response(request, "Request") = request
  BY DEF Response, Message
<1>. QED
  BY <1>1, <1>2 DEF Answers, Response

\* Alike to what it is, but for what it says: nothing, or what it kept.
LEMMA CalleeSame ==
  ASSUME NEW H, NEW v, NEW running, Callee(v, H, running), NEW w, Alike(w, v), NEW m,
         \A r \in Spoken(w) : r \in v.kept \/ IsBye(r)
  PROVE  Serves(v, w, m, running)
<1>1. v \in Worker /\ Called(v, running) /\ Called(w, running)
  <2>1. v \in Worker /\ Called(v, running)
    BY CalleeFields
  <2>. QED
    BY <2>1 DEF Called, Alike
<1>2. ASSUME NEW r \in Spoken(w) PROVE Settles(w, r, running)
  <2>1. CASE IsBye(r)
    BY <2>1 DEF IsBye, Settles
  <2>2. CASE r \in v.kept
    <3>1. r.code # "Request"
      BY <1>1, <2>2 DEF Called
    <3>2. Served(w, Response(r, "Request"))
      BY <2>2 DEF Served, Alike, Answers, Response
    <3>3. running /\ r.code \notin Provisional => w.ringing # Response(r, "Request")
      BY <1>1, <2>2, <3>1 DEF Called, Alike, Final, Answers, Response
    <3>. QED
      BY <3>1, <3>2, <3>3 DEF Settles
  <2>. QED
    BY <2>1, <2>2
<1>. QED
  BY <1>1, <1>2 DEF Serves, Alike, Served

LEMMA CalleeFrees ==
  ASSUME NEW H, NEW v, NEW running, Callee(v, H, running), NEW m
  PROVE  /\ Serves(v, [v EXCEPT !.bye = Free], m, running)
         /\ Serves(v, [v EXCEPT !.answer = Free], m, running)
<1>. DEFINE x == [v EXCEPT !.bye = Free]
            y == [v EXCEPT !.answer = Free]
<1>1. v \in Worker /\ Called(v, running) /\ Spoken(v) = {}
  BY CalleeFields
<1>2. /\ x.call = v.call /\ x.invite = v.invite /\ x.cancel = v.cancel /\ x.bye = Free
      /\ x.cancel_wanted = v.cancel_wanted
      /\ x.held_dial = v.held_dial /\ x.ringing = v.ringing /\ x.answer = v.answer
      /\ x.kept = v.kept /\ x.state = v.state /\ x.reliable = v.reliable /\ x.out = v.out
  BY <1>1 DEF Worker
<1>3. /\ y.call = v.call /\ y.invite = v.invite /\ y.cancel = v.cancel /\ y.bye = v.bye
      /\ y.cancel_wanted = v.cancel_wanted
      /\ y.held_dial = v.held_dial /\ y.ringing = v.ringing /\ y.answer = Free
      /\ y.kept = v.kept /\ y.state = v.state /\ y.reliable = v.reliable /\ y.out = v.out
  BY <1>1 DEF Worker
<1>. HIDE DEF x, y
<1>4. Spoken(x) = {} /\ Spoken(y) = {}
  BY <1>1, <1>2, <1>3, SpokenAlike
<1>5. Called(x, running) /\ Called(y, running)
  <2>1. Free.request = Nothing
    BY FreeFields
  <2>2. Called(x, running)
    BY <1>1, <1>2, <2>1 DEF Called
  <2>3. Called(y, running)
    BY <1>1, <1>3 DEF Called
  <2>. QED
    BY <2>2, <2>3
<1>6. Serves(v, x, m, running) /\ Serves(v, y, m, running)
  BY <1>2, <1>3, <1>4, <1>5, FreeFields DEF Serves, Served
<1>. QED
  BY <1>6 DEF x, y

LEMMA CalleeResponse ==
  ASSUME NEW H, NEW v, NEW running, Callee(v, H, running), NEW response \in Message,
         response.code # "Request", response.method = "BYE", NEW readable
  PROVE  Serves(v, HandleResponse(v, response, readable), response, running)
<1>. DEFINE w == HandleResponse(v, response, readable)
<1>1. v \in Worker /\ Called(v, running) /\ Spoken(v) = {}
  BY CalleeFields
<1>2. ~Answers(Nothing, response)
  BY NothingIsAnswered
<1>3. ~Answers(v.invite.request, response) /\ ~Answers(v.cancel.request, response)
  BY <1>1, <1>2, FreeFields DEF Called
<1>4. w \in {v, [v EXCEPT !.bye = Free]}
  BY <1>3 DEF HandleResponse
<1>5. Serves(v, v, response, running)
  BY <1>1, CalleeSame DEF Alike
<1>6. Serves(v, [v EXCEPT !.bye = Free], response, running)
  BY CalleeFrees
<1>. QED
  BY <1>4, <1>5, <1>6

\* It ends a call that is up, or any as it goes, with a BYE.
LEMMA CalleeByes ==
  ASSUME NEW H, NEW v, NEW running, Callee(v, H, running), NEW after,
         after => running /\ v.ringing = Nothing
  PROVE  /\ Serves(v, SendBye(v), Nothing, after)
         /\ Serves(v, v, Nothing, after)
<1>. DEFINE w == SendBye(v)
<1>1. v \in Worker /\ Called(v, running) /\ Spoken(v) = {} /\ v.out = <<>>
  BY CalleeFields DEF Callee
<1>2. Called(v, after) /\ Callee(v, H, after)
  BY <1>1 DEF Called, Callee
<1>3. Serves(v, v, Nothing, after)
  BY <1>1, <1>2, CalleeSame DEF Alike
<1>4. CASE ByeUnderway(v)
  BY <1>3, <1>4 DEF SendBye
<1>5. CASE v.call = NoDialog
  <2>1. w = [v EXCEPT !.answer = Free]
    BY <1>5 DEF SendBye, ByeUnderway
  <2>2. Serves(v, [v EXCEPT !.answer = Free], Nothing, after)
    BY <1>2, CalleeFrees
  <2>. QED
    BY <1>3, <2>1, <2>2
<1>6. CASE v.call # NoDialog /\ ~ByeUnderway(v)
  <2>1. v.call.call # NoCall
    BY <1>1, <1>6 DEF Called
  <2>2. PICK bye \in Message :
          /\ IsBye(bye) /\ w.bye.request = bye /\ Spoken(w) = Spoken(v) \cup {bye}
    BY <1>1, <1>6, <2>1, SendByeFields
  <2>3. /\ w.call = NoDialog /\ w.invite = Free /\ w.cancel = Free /\ ~w.cancel_wanted
        /\ w.answer = Free /\ w.state = "idle" /\ w.ringing = v.ringing
        /\ w.held_dial = v.held_dial /\ w.kept = v.kept /\ w.reliable = v.reliable
    BY <1>1, <1>6, <2>1, SendByeFields
  <2>. HIDE DEF w
  <2>4. Called(w, after)
    BY <1>1, <1>2, <2>2, <2>3, FreeFields DEF Called
  <2>5. \A r \in Spoken(w) : Settles(w, r, after)
    BY <1>1, <2>2 DEF IsBye, Settles
  <2>6. Serves(v, w, Nothing, after)
    BY <2>3, <2>4, <2>5, FreeFields DEF Serves, Served
  <2>. QED
    BY <1>3, <2>6 DEF w
<1>. QED
  BY <1>4, <1>5, <1>6

\* It takes or refuses the call that rings.
LEMMA CalleeAnswers ==
  ASSUME NEW H, NEW v, Callee(v, H, TRUE), v.ringing # Nothing, NEW usable
  PROVE  Serves(v, AcceptCall(v, usable), Nothing, TRUE)
<1>. DEFINE n     == v.ringing
            taken == [v EXCEPT !.ringing = Nothing]
            yes   == Respond(taken, n, "OK")
            no    == Respond(taken, n, "NotAcceptable")
            w     == AcceptCall(v, usable)
<1>1. /\ v \in Worker /\ Called(v, TRUE) /\ Spoken(v) = {}
      /\ n \in Message /\ n.code = "Request" /\ n.method = "INVITE"
      /\ v.call # NoDialog /\ v.call.call # NoCall /\ v.answer = Free
  BY CalleeFields DEF Called
<1>2. /\ taken \in Worker /\ taken.call = v.call /\ taken.invite = v.invite
      /\ taken.cancel = v.cancel /\ taken.bye = v.bye /\ taken.cancel_wanted = v.cancel_wanted
      /\ taken.held_dial = v.held_dial /\ taken.ringing = Nothing /\ taken.answer = v.answer
      /\ taken.kept = v.kept /\ taken.state = v.state /\ taken.reliable = v.reliable
      /\ taken.out = v.out
  BY <1>1, FreeType DEF Worker
<1>. HIDE DEF taken, n
<1>3. Spoken(taken) = {} /\ \A m : Served(taken, m) <=> Served(v, m)
  BY <1>1, <1>2, SpokenAlike DEF Served
<1>4. ASSUME NEW code \in {"OK", "NotAcceptable"}
      PROVE  LET k == Respond(taken, n, code)
                 r == Response(n, code)
             IN  /\ k \in Worker /\ k.call = v.call /\ k.invite = Free /\ k.cancel = Free
                 /\ k.bye = v.bye /\ ~k.cancel_wanted /\ k.held_dial = NoCall
                 /\ k.ringing = Nothing /\ k.reliable = v.reliable
                 /\ k.answer = IF code = "OK" THEN Pending(r) ELSE v.answer
                 /\ r \in Message /\ r.code = code /\ r.method = "INVITE"
                 /\ Response(r, "Request") = n
                 /\ r \in k.kept /\ k.kept \subseteq v.kept \cup {r}
                 /\ \A m : Served(v, m) => Served(k, m)
                 /\ Served(k, n) /\ Spoken(k) = {r}
  <2>. DEFINE k == Respond(taken, n, code)
              r == Response(n, code)
  <2>1. code \in Code
    BY DEF Code, Refusal
  <2>2. /\ r \in Message /\ r.code = code /\ r.method = "INVITE"
        /\ Response(r, "Request") = n /\ Answers(n, r)
    BY <1>1, <2>1, ResponseIs
  <2>3. /\ k \in Worker /\ k.call = taken.call /\ k.invite = taken.invite
        /\ k.cancel = taken.cancel /\ k.bye = taken.bye
        /\ k.cancel_wanted = taken.cancel_wanted /\ k.held_dial = taken.held_dial
        /\ k.ringing = taken.ringing /\ k.reliable = taken.reliable
        /\ k.answer = IF code = "OK" THEN Pending(r) ELSE taken.answer
        /\ r \in k.kept /\ k.kept \subseteq taken.kept \cup {r}
        /\ \A m : Served(taken, m) => Served(k, m)
        /\ Spoken(k) = Spoken(taken) \cup {r}
    BY <1>1, <1>2, <2>1, RespondFields
  <2>. HIDE DEF k, r
  <2>4. Served(k, n)
    BY <2>2, <2>3 DEF Served
  <2>5. /\ k \in Worker /\ k.call = v.call /\ k.invite = Free /\ k.cancel = Free
        /\ k.bye = v.bye /\ ~k.cancel_wanted /\ k.held_dial = NoCall
        /\ k.ringing = Nothing /\ k.reliable = v.reliable
        /\ k.answer = IF code = "OK" THEN Pending(r) ELSE v.answer
        /\ r \in k.kept /\ k.kept \subseteq v.kept \cup {r}
        /\ \A m : Served(v, m) => Served(k, m)
        /\ Spoken(k) = {r}
    BY <1>1, <1>2, <1>3, <2>3 DEF Called
  <2>. QED
    BY <2>2, <2>4, <2>5 DEF k, r
<1>5. CASE usable
  <2>. DEFINE r == Response(n, "OK")
              x == [yes EXCEPT !.call.established = v.call # NoDialog, !.state = "answered"]
  <2>1. w = Tell(x, "Answered", n.call)
    BY <1>5 DEF AcceptCall, taken, n
  <2>. HIDE DEF yes, r
  <2>2. /\ yes \in Worker /\ yes.call = v.call /\ yes.invite = Free /\ yes.cancel = Free
        /\ yes.bye = v.bye /\ ~yes.cancel_wanted /\ yes.held_dial = NoCall
        /\ yes.ringing = Nothing /\ yes.reliable = v.reliable /\ yes.answer = Pending(r)
        /\ r \in Message /\ r.code = "OK" /\ r.method = "INVITE"
        /\ Response(r, "Request") = n
        /\ r \in yes.kept /\ yes.kept \subseteq v.kept \cup {r}
        /\ (\A m : Served(v, m) => Served(yes, m))
        /\ Served(yes, n) /\ Spoken(yes) = {r}
    BY <1>4 DEF yes, r
  <2>3. /\ x \in Worker /\ x.call.established /\ x.call.call = v.call.call
        /\ x.invite = yes.invite /\ x.cancel = yes.cancel /\ x.bye = yes.bye
        /\ x.cancel_wanted = yes.cancel_wanted /\ x.held_dial = yes.held_dial
        /\ x.ringing = yes.ringing /\ x.state = "answered" /\ x.reliable = yes.reliable
        /\ x.answer = yes.answer /\ x.kept = yes.kept /\ x.out = yes.out
    <3>. DEFINE settled == [v.call EXCEPT !.established = v.call # NoDialog]
    <3>1. v.call # NoDialog /\ yes.call = v.call
      BY <1>1, <2>2
    <3>2. x = [yes EXCEPT !.call = settled, !.state = "answered"]
      BY <2>2 DEF Worker
    <3>3. settled.established /\ settled.call = v.call.call
      BY <1>1, <3>1 DEF Worker
    <3>4. settled \in [call : Call \cup {NoCall}, cseq : Nat, invite_cseq : Nat,
                       established : BOOLEAN]
      BY <1>1 DEF Worker
    <3>. HIDE DEF x, settled
    <3>5. x \in Worker
      BY <2>2, <3>2, <3>4 DEF Worker, State
    <3>. QED
      BY <2>2, <3>2, <3>3, <3>5 DEF Worker
  <2>. HIDE DEF x, w
  <2>4. Alike(w, x) /\ w.out = yes.out
    BY <2>1, <2>3, AlikeTell
  <2>5. Spoken(w) = {r} /\ \A m : Served(yes, m) => Served(w, m)
    BY <2>2, <2>3, <2>4, SpokenAlike DEF Served, Alike
  <2>6. w.ringing = Nothing /\ w.answer.request = r /\ w.kept \subseteq v.kept \cup {r}
    BY <2>2, <2>3, <2>4, PendingType DEF Alike
  <2>7. w.call # NoDialog /\ w.call.call # NoCall
    BY <1>1, <2>3, <2>4, FreeFields DEF Alike
  <2>8. \A m \in w.kept : m.code # "Request" /\ m.method # "None" /\ ~Final(w.ringing, m)
    BY <1>1, <2>2, <2>6, CalleeFields, NothingIsAnswered DEF Called
  <2>9. Called(w, TRUE)
    <3>1. /\ w.call.established /\ w.invite = Free /\ w.cancel = Free /\ w.bye = v.bye
          /\ ~w.cancel_wanted /\ w.held_dial = NoCall /\ w.state = "answered"
      BY <2>2, <2>3, <2>4 DEF Alike
    <3>2. v.bye.request = Nothing \/ IsBye(v.bye.request)
      BY <1>1 DEF Called
    <3>3. w.answer.request.code = "OK"
      BY <2>2, <2>6
    <3>. QED
      BY <2>6, <2>7, <2>8, <3>1, <3>2, <3>3 DEF Called
  <2>10. Settles(w, r, TRUE)
    BY <1>1, <2>2, <2>5, <2>6, FreeFields DEF Settles
  <2>11. Serves(v, w, Nothing, TRUE)
    BY <1>1, <2>2, <2>3, <2>4, <2>5, <2>6, <2>9, <2>10 DEF Serves, Alike, n
  <2>. QED
    BY <2>11 DEF w
<1>6. CASE ~usable
  <2>. DEFINE r == Response(n, "NotAcceptable")
              x == [no EXCEPT !.call = NoDialog, !.state = "idle"]
  <2>1. w = Tell(x, "Failed", n.call)
    BY <1>6 DEF AcceptCall, taken, n
  <2>. HIDE DEF no, r
  <2>2. /\ no \in Worker /\ no.invite = Free /\ no.cancel = Free
        /\ no.bye = v.bye /\ ~no.cancel_wanted /\ no.held_dial = NoCall
        /\ no.ringing = Nothing /\ no.reliable = v.reliable /\ no.answer = v.answer
        /\ r \in Message /\ r.code = "NotAcceptable" /\ r.method = "INVITE"
        /\ Response(r, "Request") = n
        /\ r \in no.kept /\ no.kept \subseteq v.kept \cup {r}
        /\ (\A m : Served(v, m) => Served(no, m))
        /\ Served(no, n) /\ Spoken(no) = {r}
    BY <1>4 DEF no, r
  <2>3. /\ x \in Worker /\ x.call = NoDialog
        /\ x.invite = no.invite /\ x.cancel = no.cancel /\ x.bye = no.bye
        /\ x.cancel_wanted = no.cancel_wanted /\ x.held_dial = no.held_dial
        /\ x.ringing = no.ringing /\ x.state = "idle" /\ x.reliable = no.reliable
        /\ x.answer = no.answer /\ x.kept = no.kept /\ x.out = no.out
    <3>1. NoDialog \in [call : Call \cup {NoCall}, cseq : Nat, invite_cseq : Nat,
                        established : BOOLEAN]
      BY DEF NoDialog, Dialog
    <3>2. x \in Worker
      BY <2>2, <3>1 DEF Worker, State
    <3>. QED
      BY <2>2, <3>2 DEF Worker
  <2>. HIDE DEF x, w
  <2>4. Alike(w, x) /\ w.out = no.out
    BY <2>1, <2>3, AlikeTell
  <2>5. Spoken(w) = {r} /\ \A m : Served(no, m) => Served(w, m)
    BY <2>2, <2>3, <2>4, SpokenAlike DEF Served, Alike
  <2>6. w.ringing = Nothing /\ w.answer = Free /\ w.kept \subseteq v.kept \cup {r}
    BY <1>1, <2>2, <2>3, <2>4 DEF Alike
  <2>8. \A m \in w.kept : m.code # "Request" /\ m.method # "None" /\ ~Final(w.ringing, m)
    BY <1>1, <2>2, <2>6, CalleeFields, NothingIsAnswered DEF Called
  <2>9. Called(w, TRUE)
    <3>1. /\ w.call = NoDialog /\ w.invite = Free /\ w.cancel = Free /\ w.bye = v.bye
          /\ ~w.cancel_wanted /\ w.held_dial = NoCall /\ w.state = "idle"
      BY <2>2, <2>3, <2>4 DEF Alike
    <3>2. v.bye.request = Nothing \/ IsBye(v.bye.request)
      BY <1>1 DEF Called
    <3>3. ~w.call.established
      BY <3>1, FreeFields
    <3>4. \A m \in w.kept : m.code # "Request" /\ m.method # "None"
      BY <2>8
    <3>5. \A m \in w.kept : ~Final(w.ringing, m)
      BY <2>8
    <3>. QED
      BY <2>6, <3>1, <3>2, <3>3, <3>4, <3>5 DEF Called
  <2>10. Settles(w, r, TRUE)
    BY <1>1, <2>2, <2>5, <2>6, FreeFields DEF Settles
  <2>11. Serves(v, w, Nothing, TRUE)
    BY <1>1, <2>2, <2>3, <2>4, <2>5, <2>6, <2>9, <2>10, FreeFields DEF Serves, Alike, n
  <2>. QED
    BY <2>11 DEF w
<1>. QED
  BY <1>5, <1>6

\* The call that rings is refused.
LEMMA CalleeDeclines ==
  ASSUME NEW H, NEW v, Callee(v, H, TRUE), v.ringing # Nothing
  PROVE  Serves(v, Decline(v), Nothing, TRUE)
<1>. DEFINE n == v.ringing
            r == Response(n, "Declined")
            k == Respond(v, n, "Declined")
            x == [k EXCEPT !.ringing = Nothing, !.call = NoDialog, !.state = "idle"]
            w == Decline(v)
<1>1. /\ v \in Worker /\ Called(v, TRUE) /\ Spoken(v) = {}
      /\ n \in Message /\ n.code = "Request" /\ n.method = "INVITE" /\ v.answer = Free
      /\ "Declined" \in Code
  <2>1. /\ v \in Worker /\ Called(v, TRUE) /\ Spoken(v) = {}
        /\ n \in Message /\ n.code = "Request" /\ n.method = "INVITE"
    BY CalleeFields
  <2>2. v.answer = Free
    BY <2>1 DEF Called
  <2>. QED
    BY <2>1, <2>2 DEF Code, Refusal
<1>2. w = Tell(x, "Ended", n.call)
  BY DEF Decline
<1>. HIDE DEF n
<1>3. /\ r \in Message /\ r.code = "Declined" /\ r.method = "INVITE"
      /\ Response(r, "Request") = n /\ Answers(n, r)
  BY <1>1, ResponseIs
<1>4. /\ k \in Worker /\ k.invite = v.invite /\ k.cancel = v.cancel /\ k.bye = v.bye
      /\ k.cancel_wanted = v.cancel_wanted /\ k.held_dial = v.held_dial
      /\ k.reliable = v.reliable /\ k.answer = v.answer
      /\ r \in k.kept /\ k.kept \subseteq v.kept \cup {r}
      /\ \A m : Served(v, m) => Served(k, m)
      /\ Spoken(k) = Spoken(v) \cup {r}
  BY <1>1, RespondFields
<1>. HIDE DEF r, k
<1>5. /\ x \in Worker /\ x.call = NoDialog /\ x.invite = k.invite /\ x.cancel = k.cancel
      /\ x.bye = k.bye /\ x.cancel_wanted = k.cancel_wanted /\ x.held_dial = k.held_dial
      /\ x.ringing = Nothing /\ x.state = "idle" /\ x.reliable = k.reliable
      /\ x.answer = k.answer /\ x.kept = k.kept /\ x.out = k.out
  BY <1>4, FreeType DEF Worker, State, NoDialog, Dialog
<1>. HIDE DEF x, w
<1>6. Alike(w, x) /\ w.out = k.out
  BY <1>2, <1>5, AlikeTell
<1>7. Spoken(w) = {r} /\ (\A m : Served(k, m) => Served(w, m)) /\ Served(w, n)
  <2>1. Spoken(w) = {r} /\ w.kept = k.kept
    BY <1>1, <1>4, <1>5, <1>6, SpokenAlike DEF Alike
  <2>. QED
    BY <1>3, <1>4, <2>1 DEF Served
<1>8. /\ w.call = NoDialog /\ w.invite = Free /\ w.cancel = Free /\ w.bye = v.bye
      /\ ~w.cancel_wanted /\ w.held_dial = NoCall /\ w.state = "idle" /\ w.ringing = Nothing
      /\ w.answer = Free /\ w.kept \subseteq v.kept \cup {r} /\ w.reliable = v.reliable
  <2>1. v.invite = Free /\ v.cancel = Free /\ ~v.cancel_wanted /\ v.held_dial = NoCall
        /\ v.answer = Free
    BY <1>1 DEF Called
  <2>. QED
    BY <1>4, <1>5, <1>6, <2>1 DEF Alike
<1>9. \A m \in w.kept : m.code # "Request" /\ m.method # "None" /\ ~Final(w.ringing, m)
  BY <1>1, <1>3, <1>8, CalleeFields, NothingIsAnswered DEF Called
<1>10. Called(w, TRUE)
  <2>1. v.bye.request = Nothing \/ IsBye(v.bye.request)
    BY <1>1 DEF Called
  <2>2. ~w.call.established
    BY <1>8, FreeFields
  <2>. QED
    BY <1>8, <1>9, <2>1, <2>2 DEF Called
<1>11. Settles(w, r, TRUE)
  BY <1>1, <1>3, <1>7, <1>8, FreeFields DEF Settles
<1>12. Serves(v, w, Nothing, TRUE)
  BY <1>3, <1>4, <1>7, <1>8, <1>10, <1>11, FreeFields DEF Serves, n
<1>. QED
  BY <1>12 DEF w

LEMMA CalleeEnds ==
  ASSUME NEW H, NEW v, Callee(v, H, TRUE)
  PROVE  Serves(v, EndCall(v), Nothing, TRUE)
<1>. DEFINE w == EndCall(v)
<1>1. v \in Worker /\ Called(v, TRUE) /\ Spoken(v) = {} /\ v.out = <<>>
  BY CalleeFields DEF Callee
<1>2. w = HangUpNow(v)
  BY <1>1 DEF EndCall, GiveUpHeldDial, Called
<1>3. Serves(v, v, Nothing, TRUE)
  BY <1>1, CalleeSame DEF Alike
<1>4. CASE ByeUnderway(v)
  BY <1>2, <1>3, <1>4 DEF HangUpNow
<1>5. CASE ~ByeUnderway(v) /\ v.ringing # Nothing
  <2>1. w = Decline(v)
    BY <1>2, <1>5 DEF HangUpNow
  <2>. QED
    BY <1>5, <2>1, CalleeDeclines
<1>6. CASE ~ByeUnderway(v) /\ v.ringing = Nothing /\ v.call.established
  <2>1. w = SendBye(v)
    BY <1>2, <1>6 DEF HangUpNow
  <2>. QED
    BY <1>6, <2>1, CalleeByes
<1>7. CASE ~ByeUnderway(v) /\ v.ringing = Nothing /\ ~v.call.established
  <2>1. w = [v EXCEPT !.state = "idle"] /\ v.state = "idle"
    BY <1>1, <1>2, <1>7 DEF HangUpNow, Called
  <2>2. Alike(w, v) /\ w.out = v.out
    BY <1>1, <2>1 DEF Worker, Alike
  <2>. HIDE DEF w
  <2>3. Spoken(w) = {}
    BY <1>1, <2>2, SpokenAlike
  <2>4. Serves(v, w, Nothing, TRUE)
    BY <2>2, <2>3, CalleeSame
  <2>. QED
    BY <2>4 DEF w
<1>. QED
  BY <1>4, <1>5, <1>6, <1>7

LEMMA CalleeExpires ==
  ASSUME NEW H, NEW v, Callee(v, H, TRUE), NEW slot \in Slots, Expires(v, slot)
  PROVE  Serves(v, Expire(v, slot), Nothing, TRUE)
<1>1. v \in Worker /\ Called(v, TRUE) /\ v.out = <<>>
  BY CalleeFields DEF Callee
<1>2. slot \in {"bye", "answer"}
  BY <1>1 DEF Slots, Expires, Called
<1>3. CASE slot = "bye"
  <2>1. Expire(v, slot) = [v EXCEPT !.bye = Free]
    BY <1>3 DEF Expire
  <2>2. Serves(v, [v EXCEPT !.bye = Free], Nothing, TRUE)
    BY CalleeFrees
  <2>. QED
    BY <2>1, <2>2
<1>4. CASE slot = "answer"
  <2>. DEFINE k == [v EXCEPT !.answer = Free]
  <2>1. Expire(v, slot) = SendBye(k) /\ v.answer # Free
    BY <1>4 DEF Expire, Expires
  <2>2. /\ k.call = v.call /\ k.kept = v.kept /\ k.ringing = v.ringing
        /\ k.reliable = v.reliable /\ k.out = v.out /\ k.answer = Free
    BY <1>1 DEF Worker
  <2>3. Good(k, H)
    BY SetAnswer, FreeType DEF Callee, Sound
  <2>4. Called(k, TRUE)
    BY CalleeFrees DEF Serves
  <2>. HIDE DEF k
  <2>5. Callee(k, H, TRUE) /\ k.ringing = Nothing
    BY <1>1, <2>1, <2>2, <2>3, <2>4 DEF Callee, Called
  <2>6. Serves(k, SendBye(k), Nothing, TRUE)
    BY <2>5, CalleeByes
  <2>. DEFINE w == SendBye(k)
  <2>7. Serves(k, w, Nothing, TRUE)
    BY <2>6
  <2>. HIDE DEF w
  <2>8. Serves(v, w, Nothing, TRUE)
    BY <2>2, <2>7, FreeFields DEF Serves, Served
  <2>. QED
    BY <2>1, <2>8 DEF w
<1>. QED
  BY <1>2, <1>3, <1>4

LEMMA CalleeResends ==
  ASSUME NEW H, NEW v, Callee(v, H, TRUE), NEW slot \in Slots, Resends(v, slot)
  PROVE  LET w == Resend(v, slot)
         IN  /\ Serves(v, w, Nothing, TRUE) \/ v.answer # Free
             /\ Called(w, TRUE) /\ w.reliable = v.reliable /\ w.ringing = v.ringing
             /\ w.answer.request = v.answer.request /\ w.kept = v.kept
             /\ \A r \in Spoken(w) : r.code = "Request" => r.method = "BYE"
<1>. DEFINE m    == v[slot].request
            said == Say(v, m)
            w    == Resend(v, slot)
<1>1. /\ v \in Worker /\ Called(v, TRUE) /\ Spoken(v) = {}
      /\ v[slot] \in Slot /\ m \in Message /\ v[slot] # Free
  BY CalleeFields, SlotFounded DEF Callee, Resends
<1>2. slot \in {"bye", "answer"}
  BY <1>1 DEF Called, Slots
<1>. HIDE DEF m
<1>3. said \in Worker /\ Alike(said, v) /\ Spoken(said) = {m}
  BY <1>1, SpokenSay, AlikeSay
<1>4. w = [said EXCEPT ![slot].tries = @ + 1]
  BY DEF Resend, m
<1>. HIDE DEF said
<1>5. /\ w.call = v.call /\ w.held_dial = v.held_dial /\ w.ringing = v.ringing
      /\ w.kept = v.kept /\ w.state = v.state /\ w.reliable = v.reliable /\ w.out = said.out
      /\ w.cancel_wanted = v.cancel_wanted
      /\ w.invite = v.invite /\ w.cancel = v.cancel /\ w.bye.request = v.bye.request
      /\ w.answer.request = v.answer.request
      /\ slot = "bye" => w.answer = v.answer
  <2>1. /\ said.call = v.call /\ said.held_dial = v.held_dial /\ said.ringing = v.ringing
        /\ said.kept = v.kept /\ said.state = v.state /\ said.reliable = v.reliable
        /\ said.cancel_wanted = v.cancel_wanted /\ said.invite = v.invite
        /\ said.cancel = v.cancel /\ said.bye = v.bye /\ said.answer = v.answer
    BY <1>3 DEF Alike
  <2>2. said.bye \in Slot /\ said.answer \in Slot
    BY <1>3 DEF Worker
  <2>3. CASE slot = "bye"
    <3>1. w = [said EXCEPT !.bye = [said.bye EXCEPT !.tries = @ + 1]]
      BY <1>4, <2>3
    <3>2. [said.bye EXCEPT !.tries = @ + 1].request = said.bye.request
      BY <2>2 DEF Slot
    <3>. QED
      BY <1>3, <2>1, <3>1, <3>2 DEF Worker
  <2>4. CASE slot = "answer"
    <3>1. w = [said EXCEPT !.answer = [said.answer EXCEPT !.tries = @ + 1]]
      BY <1>4, <2>4
    <3>2. [said.answer EXCEPT !.tries = @ + 1].request = said.answer.request
      BY <2>2 DEF Slot
    <3>. QED
      BY <1>3, <2>1, <2>4, <3>1, <3>2 DEF Worker
  <2>. QED
    BY <1>2, <2>3, <2>4
<1>. HIDE DEF w
<1>6. Spoken(w) = {m}
  BY <1>3, <1>5, SpokenAlike
<1>7. w.answer # Free => v.answer # Free
  BY <1>1, <1>2, <1>5
<1>8. Called(w, TRUE)
  BY <1>1, <1>5, <1>7 DEF Called
<1>9. CASE slot = "answer"
  <2>1. v.answer # Free /\ m.code = "OK"
    BY <1>1, <1>9 DEF Called, m
  <2>. QED
    BY <1>5, <1>6, <1>8, <2>1 DEF w
<1>10. CASE slot = "bye"
  <2>1. IsBye(m) \/ m = Nothing
    BY <1>1, <1>10 DEF Called, m
  <2>2. m.method # "None"
    BY <1>1, <1>10, SlotFounded DEF Callee, Founded, m
  <2>3. IsBye(m)
    BY <2>1, <2>2, FreeFields
  <2>4. Settles(w, m, TRUE)
    BY <2>3 DEF Settles, IsBye
  <2>5. Serves(v, w, Nothing, TRUE)
    BY <1>5, <1>6, <1>8, <2>4 DEF Serves, Served
  <2>. QED
    BY <1>5, <1>6, <1>8, <2>3, <2>5 DEF IsBye, w
<1>. QED
  BY <1>2, <1>9, <1>10

\* A response that leaves the call as it is.
LEMMA CalleeResponds ==
  ASSUME NEW H, NEW v, NEW running, Callee(v, H, running), NEW m \in Message,
         m.code = "Request", m.method # "None", NEW code \in Code \ {"Request"},
         code = "OK" => m.method # "INVITE",
         code \notin Provisional /\ running => m # v.ringing
  PROVE  LET k == Respond(v, m, code)
             r == Response(m, code)
         IN  /\ k \in Worker /\ k.call = v.call /\ k.bye = v.bye /\ k.held_dial = v.held_dial
             /\ k.ringing = v.ringing /\ k.answer = v.answer /\ k.reliable = v.reliable
             /\ k.kept \subseteq v.kept \cup {r}
             /\ \A n : Served(v, n) => Served(k, n)
             /\ Response(r, "Request") = m /\ r.code = code /\ r.method = m.method
             /\ Served(k, m)
             /\ Spoken(k) = {r} /\ Settles(k, r, running)
             /\ Called(k, running) /\ Serves(v, k, m, running)
<1>. DEFINE r == Response(m, code)
            k == Respond(v, m, code)
<1>1. v \in Worker /\ Called(v, running) /\ Spoken(v) = {} /\ v.ringing \in Message
  BY CalleeFields
<1>2. /\ r \in Message /\ r.code = code /\ r.method = m.method
      /\ Response(r, "Request") = m /\ Answers(m, r)
  BY ResponseIs
<1>3. /\ k \in Worker /\ k.call = v.call /\ k.invite = v.invite /\ k.cancel = v.cancel
      /\ k.bye = v.bye /\ k.cancel_wanted = v.cancel_wanted /\ k.held_dial = v.held_dial
      /\ k.ringing = v.ringing /\ k.state = v.state /\ k.reliable = v.reliable
      /\ k.answer = v.answer /\ r \in k.kept /\ k.kept \subseteq v.kept \cup {r}
      /\ \A n : Served(v, n) => Served(k, n)
      /\ Spoken(k) = {r}
  BY <1>1, RespondFields
<1>. HIDE DEF r, k
<1>4. Served(k, m)
  BY <1>2, <1>3 DEF Served
<1>5. running => ~Final(k.ringing, r)
  BY <1>2, <1>3 DEF Final, Answers, Response
<1>6. \A n \in k.kept : /\ n.code # "Request" /\ n.method # "None"
                        /\ running => ~Final(k.ringing, n)
  BY <1>1, <1>2, <1>3, <1>5 DEF Called
<1>7. Called(k, running)
  BY <1>1, <1>3, <1>6 DEF Called
<1>8. Settles(k, r, running)
  BY <1>2, <1>3, <1>4 DEF Settles
<1>9. Serves(v, k, m, running)
  BY <1>2, <1>3, <1>7, <1>8 DEF Serves
<1>. QED
  BY <1>2, <1>3, <1>4, <1>7, <1>8, <1>9 DEF r, k

\* A call comes in.
LEMMA CalleeRings ==
  ASSUME NEW H, NEW v, NEW running, Callee(v, H, running), NEW m \in Message,
         IsInvite(m), m.call # NoCall, ~Served(v, m), v.call = NoDialog, v.ringing = Nothing
  PROVE  Serves(v, IncomingInvite(v, m), m, running)
<1>. DEFINE t == Respond(v, m, "Trying")
            u == Respond(t, m, "Ringing")
            p == Response(m, "Trying")
            r == Response(m, "Ringing")
            x == [u EXCEPT !.call = Dialog(m.call, m.cseq), !.ringing = m,
                           !.state = "ringing here"]
            w == IncomingInvite(v, m)
<1>1. /\ v \in Worker /\ Called(v, running) /\ Spoken(v) = {}
      /\ m.code = "Request" /\ m.method = "INVITE"
      /\ "Trying" \in Code /\ "Ringing" \in Code
  BY CalleeFields DEF Code, Provisional, IsInvite
<1>2. /\ p.code = "Trying" /\ r.code = "Ringing" /\ p.method = "INVITE" /\ r.method = "INVITE"
      /\ Response(p, "Request") = m /\ Response(r, "Request") = m
  BY <1>1, ResponseIs
<1>3. w = Tell(x, "Incoming", m.call)
  BY DEF IncomingInvite, InOurDialog
<1>4. /\ t \in Worker /\ t.invite = v.invite /\ t.cancel = v.cancel
      /\ t.bye = v.bye /\ t.cancel_wanted = v.cancel_wanted /\ t.held_dial = v.held_dial
      /\ t.reliable = v.reliable /\ t.answer = v.answer /\ t.kept \subseteq v.kept \cup {p}
      /\ \A n : Served(v, n) => Served(t, n)
      /\ Spoken(t) = {p}
  BY <1>1, RespondFields
<1>. HIDE DEF t, p
<1>5. /\ u \in Worker /\ u.invite = t.invite /\ u.cancel = t.cancel
      /\ u.bye = t.bye /\ u.cancel_wanted = t.cancel_wanted /\ u.held_dial = t.held_dial
      /\ u.reliable = t.reliable /\ u.answer = t.answer /\ u.kept \subseteq t.kept \cup {r}
      /\ \A n : Served(t, n) => Served(u, n)
      /\ Spoken(u) = Spoken(t) \cup {r}
  BY <1>1, <1>4, RespondFields
<1>. HIDE DEF u, r
<1>6. /\ Dialog(m.call, m.cseq).call = m.call /\ Dialog(m.call, m.cseq) # NoDialog
      /\ ~Dialog(m.call, m.cseq).established
      /\ Dialog(m.call, m.cseq) \in [call : Call \cup {NoCall}, cseq : Nat, invite_cseq : Nat,
                                     established : BOOLEAN]
  BY FreeFields DEF Dialog, Message
<1>7. /\ x \in Worker /\ x.call = Dialog(m.call, m.cseq) /\ x.invite = u.invite
      /\ x.cancel = u.cancel /\ x.bye = u.bye /\ x.cancel_wanted = u.cancel_wanted
      /\ x.held_dial = u.held_dial /\ x.ringing = m /\ x.state = "ringing here"
      /\ x.reliable = u.reliable /\ x.answer = u.answer /\ x.kept = u.kept /\ x.out = u.out
  BY <1>5, <1>6 DEF Worker, State
<1>. HIDE DEF x, w
<1>8. Alike(w, x) /\ w.out = u.out
  <2>1. x \in Worker /\ x.out = u.out
    BY <1>7
  <2>2. Alike(Tell(x, "Incoming", m.call), x) /\ Tell(x, "Incoming", m.call).out = x.out
    BY <2>1, AlikeTell
  <2>. QED
    BY <1>3, <2>1, <2>2
<1>9. /\ w.invite = Free /\ w.cancel = Free /\ w.bye = v.bye
      /\ ~w.cancel_wanted /\ w.held_dial = NoCall /\ w.state = "ringing here" /\ w.ringing = m
      /\ w.answer = Free /\ w.kept \subseteq v.kept \cup {p, r} /\ w.reliable = v.reliable
      /\ w.call.call = m.call /\ w.call # NoDialog /\ ~w.call.established
  <2>1. v.answer = Free /\ v.invite = Free /\ v.cancel = Free /\ ~v.cancel_wanted
        /\ v.held_dial = NoCall
    BY <1>1 DEF Called
  <2>2. /\ u.invite = Free /\ u.cancel = Free /\ u.bye = v.bye /\ ~u.cancel_wanted
        /\ u.held_dial = NoCall /\ u.answer = Free /\ u.kept \subseteq v.kept \cup {p, r}
        /\ u.reliable = v.reliable
    BY <1>4, <1>5, <2>1
  <2>3. /\ w.invite = u.invite /\ w.cancel = u.cancel /\ w.bye = u.bye
        /\ w.cancel_wanted = u.cancel_wanted /\ w.held_dial = u.held_dial
        /\ w.answer = u.answer /\ w.kept = u.kept /\ w.reliable = u.reliable
        /\ w.call = Dialog(m.call, m.cseq) /\ w.ringing = m /\ w.state = "ringing here"
    BY <1>7, <1>8 DEF Alike
  <2>. QED
    BY <1>6, <2>2, <2>3
<1>10. Spoken(w) = {p, r} /\ \A n : Served(v, n) => Served(w, n)
  <2>1. Spoken(w) = Spoken(u) /\ w.kept = u.kept
    BY <1>7, <1>8, SpokenAlike DEF Alike
  <2>. QED
    BY <1>4, <1>5, <2>1 DEF Served
<1>11. m # Nothing
  BY <1>1, FreeFields
<1>12. ASSUME NEW n \in w.kept
       PROVE  n.code # "Request" /\ n.method # "None" /\ ~Final(m, n)
  <2>1. CASE n \in v.kept
    BY <1>1, <2>1 DEF Called, Served, Final
  <2>2. CASE n \in {p, r}
    BY <1>2, <2>2 DEF Final, Provisional
  <2>. QED
    BY <1>9, <2>1, <2>2
<1>13. Called(w, running)
  <2>1. v.bye.request = Nothing \/ IsBye(v.bye.request)
    BY <1>1 DEF Called
  <2>. QED
    BY <1>9, <1>11, <1>12, <2>1 DEF Called
<1>14. Settles(w, p, running) /\ Settles(w, r, running)
  BY <1>2 DEF Settles, Provisional
<1>15. Serves(v, w, m, running)
  BY <1>2, <1>9, <1>10, <1>13, <1>14, FreeFields DEF Serves
<1>. QED
  BY <1>15 DEF w

LEMMA CalleeInvite ==
  ASSUME NEW H, NEW v, NEW running, Callee(v, H, running), NEW m \in Message,
         IsInvite(m), m.call # NoCall, ~Served(v, m)
  PROVE  Serves(v, IncomingInvite(v, m), m, running)
<1>1. /\ Called(v, running) /\ v.ringing \in Message /\ m.code = "Request"
      /\ m.method = "INVITE" /\ {"Ringing", "NoSuchCall", "Busy"} \subseteq Code \ {"Request"}
  BY CalleeFields DEF IsInvite, Code, Provisional, Refusal
<1>2. CASE InOurDialog(v, m) /\ v.ringing # Nothing
  <2>1. Serves(v, Respond(v, m, "Ringing"), m, running)
    BY <1>1, CalleeResponds DEF Provisional
  <2>. QED
    BY <1>2, <2>1 DEF IncomingInvite
<1>3. CASE InOurDialog(v, m) /\ v.ringing = Nothing
  <2>1. m # v.ringing
    BY <1>1, <1>3, FreeFields
  <2>2. Serves(v, Respond(v, m, "NoSuchCall"), m, running)
    BY <1>1, <2>1, CalleeResponds
  <2>. QED
    BY <1>3, <2>2 DEF IncomingInvite
<1>4. CASE ~InOurDialog(v, m) /\ (v.call # NoDialog \/ v.ringing # Nothing)
  <2>1. running => m # v.ringing
    BY <1>1, <1>4, FreeFields DEF Called, InOurDialog
  <2>2. Serves(v, Respond(v, m, "Busy"), m, running)
    BY <1>1, <2>1, CalleeResponds
  <2>. QED
    BY <1>4, <2>2 DEF IncomingInvite
<1>5. CASE v.call = NoDialog /\ v.ringing = Nothing
  BY <1>5, CalleeRings
<1>. QED
  BY <1>2, <1>3, <1>4, <1>5 DEF InOurDialog

LEMMA CalleeBye ==
  ASSUME NEW H, NEW v, NEW running, Callee(v, H, running), NEW m \in Message, IsBye(m),
         running /\ v.ringing # Nothing => m.call # v.ringing.call
  PROVE  Serves(v, OnBye(v, m), m, running)
<1>1. /\ v \in Worker /\ Called(v, running) /\ Spoken(v) = {} /\ v.ringing \in Message
      /\ m.code = "Request" /\ m.method = "BYE" /\ {"OK", "NoSuchCall"} \subseteq Code \ {"Request"}
  BY CalleeFields DEF IsBye, Code, Refusal
<1>2. m # v.ringing
  BY <1>1, CalleeFields, FreeFields
<1>3. CASE ~InOurDialog(v, m)
  <2>1. Serves(v, Respond(v, m, "NoSuchCall"), m, running)
    BY <1>1, <1>2, CalleeResponds
  <2>. QED
    BY <1>3, <2>1 DEF OnBye
<1>4. CASE InOurDialog(v, m)
  <2>. DEFINE r == Response(m, "OK")
              k == Respond(v, m, "OK")
              w == FinishCall(k)
  <2>1. /\ k \in Worker /\ k.call = v.call /\ k.bye = v.bye /\ k.held_dial = v.held_dial
        /\ k.ringing = v.ringing /\ k.answer = v.answer /\ k.reliable = v.reliable
        /\ k.kept \subseteq v.kept \cup {r}
        /\ (\A n : Served(v, n) => Served(k, n))
        /\ r.code = "OK" /\ r.method = "BYE"
        /\ Spoken(k) = {r} /\ Called(k, running)
    BY <1>1, <1>2, CalleeResponds
  <2>. HIDE DEF k, r
  <2>2. k.call # NoDialog /\ k.call.call # NoCall
    BY <1>1, <1>4, <2>1 DEF InOurDialog, Called
  <2>3. /\ w.call = NoDialog /\ w.invite = Free /\ w.cancel = Free /\ ~w.cancel_wanted
        /\ w.answer = Free /\ w.state = "idle" /\ w.ringing = k.ringing
        /\ w.held_dial = k.held_dial /\ w.kept = k.kept /\ w.bye = k.bye
        /\ w.out = k.out /\ w.reliable = k.reliable
    BY <2>1, <2>2, FinishFields
  <2>. HIDE DEF w
  <2>4. running => w.ringing = Nothing
    BY <1>1, <1>4, <2>1, <2>3 DEF Called, InOurDialog
  <2>5. Called(w, running)
    <3>1. /\ k.bye.request = Nothing \/ IsBye(k.bye.request)
          /\ k.held_dial = NoCall
          /\ \A n \in k.kept : /\ n.code # "Request" /\ n.method # "None"
                               /\ running => ~Final(k.ringing, n)
      BY <2>1 DEF Called
    <3>2. ~w.call.established
      BY <2>3, FreeFields
    <3>. QED
      BY <2>3, <2>4, <3>1, <3>2 DEF Called
  <2>6. Spoken(w) = {r} /\ \A n : Served(v, n) => Served(w, n)
    BY <2>1, <2>3, SpokenAlike DEF Served
  <2>7. Settles(w, r, running)
    BY <2>1 DEF Settles
  <2>8. Serves(v, w, m, running)
    BY <2>1, <2>3, <2>5, <2>6, <2>7, FreeFields DEF Serves
  <2>. QED
    BY <1>4, <2>8 DEF OnBye, w, k
<1>. QED
  BY <1>3, <1>4

\* The call that rings is given up at the other end.
LEMMA CalleeCancel ==
  ASSUME NEW H, NEW v, NEW running, Callee(v, H, running), NEW m \in Message,
         m.code = "Request", m.method = "CANCEL"
  PROVE  Serves(v, OnCancel(v, m), m, running)
<1>1. /\ v \in Worker /\ Called(v, running) /\ Spoken(v) = {} /\ v.ringing \in Message
      /\ {"OK", "NoSuchCall", "Terminated"} \subseteq Code \ {"Request"}
  BY CalleeFields DEF Code, Refusal
<1>2. m # v.ringing
  BY <1>1, CalleeFields, FreeFields
<1>3. CASE ~(InOurDialog(v, m) /\ v.ringing # Nothing)
  <2>1. Serves(v, Respond(v, m, "NoSuchCall"), m, running)
    BY <1>1, <1>2, CalleeResponds
  <2>. QED
    BY <1>3, <2>1 DEF OnCancel
<1>4. CASE InOurDialog(v, m) /\ v.ringing # Nothing
  <2>. DEFINE n == v.ringing
              r == Response(m, "OK")
              s == Response(n, "Terminated")
              k == Respond(v, m, "OK")
              y == [k EXCEPT !.ringing = Nothing]
              z == Respond(y, n, "Terminated")
              w == FinishCall(z)
  <2>1. /\ k \in Worker /\ k.call = v.call /\ k.bye = v.bye /\ k.held_dial = v.held_dial
        /\ k.ringing = v.ringing /\ k.answer = v.answer /\ k.reliable = v.reliable
        /\ k.kept \subseteq v.kept \cup {r}
        /\ (\A x : Served(v, x) => Served(k, x))
        /\ r.code = "OK" /\ r.method = "CANCEL" /\ Spoken(k) = {r} /\ Called(k, running)
    BY <1>1, <1>2, CalleeResponds
  <2>2. /\ n \in Message /\ n.code = "Request" /\ n.method = "INVITE"
    BY <1>1, <1>4, CalleeFields
  <2>. HIDE DEF k, r, n
  <2>3. /\ y \in Worker /\ y.call = k.call /\ y.bye = k.bye /\ y.held_dial = k.held_dial
        /\ y.ringing = Nothing /\ y.answer = k.answer /\ y.reliable = k.reliable
        /\ y.kept = k.kept /\ y.out = k.out
    BY <2>1, FreeType DEF Worker
  <2>. HIDE DEF y
  <2>4. Spoken(y) = {r} /\ \A x : Served(k, x) => Served(y, x)
    BY <2>1, <2>3, SpokenAlike DEF Served
  <2>5. /\ z \in Worker /\ z.call = y.call /\ z.bye = y.bye /\ z.held_dial = y.held_dial
        /\ z.ringing = y.ringing /\ z.reliable = y.reliable
        /\ s \in z.kept /\ z.kept \subseteq y.kept \cup {s}
        /\ (\A x : Served(y, x) => Served(z, x))
        /\ Spoken(z) = Spoken(y) \cup {s}
    <3>1. "Terminated" \in Code /\ y \in Worker
      BY <1>1, <2>3
    <3>. QED
      BY <2>2, <3>1, RespondFields
  <2>6. /\ s.code = "Terminated" /\ s.method = "INVITE" /\ Response(s, "Request") = n
        /\ s \in Message /\ Answers(n, s)
    BY <1>1, <2>2, ResponseIs
  <2>. HIDE DEF z, s
  <2>7. z.call # NoDialog /\ z.call.call # NoCall
    BY <1>1, <1>4, <2>1, <2>3, <2>5 DEF InOurDialog, Called
  <2>8. /\ w.call = NoDialog /\ w.invite = Free /\ w.cancel = Free /\ ~w.cancel_wanted
        /\ w.answer = Free /\ w.state = "idle" /\ w.ringing = z.ringing
        /\ w.held_dial = z.held_dial /\ w.kept = z.kept /\ w.bye = z.bye
        /\ w.out = z.out /\ w.reliable = z.reliable
    BY <2>5, <2>7, FinishFields
  <2>. HIDE DEF w
  <2>9. /\ w.ringing = Nothing /\ w.held_dial = v.held_dial /\ w.bye = v.bye
        /\ w.reliable = v.reliable /\ w.kept \subseteq v.kept \cup {r, s}
        /\ \A x : Served(v, x) => Served(w, x)
        /\ Spoken(w) = {r, s} /\ Served(w, n)
    BY <2>1, <2>3, <2>4, <2>5, <2>6, <2>8, SpokenAlike DEF Served
  <2>10. \A x \in w.kept : x.code # "Request" /\ x.method # "None" /\ ~Final(w.ringing, x)
    <3>1. \A x \in w.kept : x \in Message /\ x.code # "Request" /\ x.method # "None"
      <4>1. \A x \in v.kept : x \in Message /\ x.code # "Request" /\ x.method # "None"
        BY <1>1, CalleeFields DEF Called
      <4>2. r \in Message
        BY <1>1, ResponseIs DEF r
      <4>. QED
        BY <2>1, <2>6, <2>9, <4>1, <4>2
    <3>. QED
      BY <2>9, <3>1, NothingIsAnswered
  <2>11. Called(w, running)
    <3>1. v.bye.request = Nothing \/ IsBye(v.bye.request)
      BY <1>1 DEF Called
    <3>2. ~w.call.established /\ v.held_dial = NoCall
      BY <1>1, <2>8, FreeFields DEF Called
    <3>. QED
      BY <2>8, <2>9, <2>10, <3>1, <3>2 DEF Called
  <2>12. Settles(w, r, running) /\ Settles(w, s, running)
    <3>1. w.ringing # n
      BY <2>2, <2>9, FreeFields
    <3>. QED
      BY <2>1, <2>6, <2>9, <3>1 DEF Settles
  <2>13. Serves(v, w, m, running)
    BY <2>1, <2>6, <2>8, <2>9, <2>11, <2>12, FreeFields DEF Serves, n
  <2>. QED
    BY <1>4, <2>13 DEF OnCancel, w, z, y, k, n
<1>. QED
  BY <1>3, <1>4

LEMMA CalleeAck ==
  ASSUME NEW H, NEW v, NEW running, Callee(v, H, running), NEW m
  PROVE  Serves(v, AnswerAcknowledged(v, m), m, running)
<1>1. Serves(v, v, m, running)
  BY CalleeFields, CalleeSame DEF Alike
<1>2. Serves(v, [v EXCEPT !.answer = Free], m, running)
  BY CalleeFrees
<1>. QED
  BY <1>1, <1>2 DEF AnswerAcknowledged

\* Whatever request comes to it.
LEMMA CalleeRequest ==
  ASSUME NEW H, NEW v, NEW running, Callee(v, H, running), NEW m \in Message,
         m.code = "Request", m.method # "None", IsInvite(m) => m.call # NoCall,
         running /\ IsBye(m) /\ v.ringing # Nothing => m.call # v.ringing.call
  PROVE  Serves(v, HandleRequest(v, m), m, running)
<1>. DEFINE again == {r \in v.kept : Answers(m, r)}
            w == HandleRequest(v, m)
<1>1. v \in Worker /\ Called(v, running) /\ Spoken(v) = {}
  BY CalleeFields
<1>2. CASE again # {}
  <2>. DEFINE n == CHOOSE n \in again : TRUE
  <2>1. n \in v.kept
    BY <1>2
  <2>2. w = Say(v, n)
    BY <1>2 DEF HandleRequest
  <2>. HIDE DEF n
  <2>3. n \in Message
    BY <1>1, <2>1 DEF Worker
  <2>4. Alike(w, v) /\ Spoken(w) = {n}
    BY <1>1, <2>2, <2>3, SpokenSay, AlikeSay
  <2>. HIDE DEF w
  <2>5. Serves(v, w, m, running)
    BY <2>1, <2>4, CalleeSame
  <2>. QED
    BY <2>5 DEF w
<1>3. CASE again = {}
  <2>1. w = HandleAfresh(v, m) /\ ~Served(v, m)
    BY <1>3 DEF HandleRequest, Served
  <2>2. m.method \in {"INVITE", "ACK", "BYE", "CANCEL"}
    BY DEF Message
  <2>. HIDE DEF w
  <2>3. CASE m.method = "INVITE"
    <3>1. w = IncomingInvite(v, m)
      BY <2>1, <2>3 DEF HandleAfresh
    <3>2. Serves(v, IncomingInvite(v, m), m, running)
      BY <2>1, <2>3, CalleeInvite DEF IsInvite
    <3>. QED
      BY <3>1, <3>2 DEF w
  <2>4. CASE m.method = "ACK"
    <3>1. w = AnswerAcknowledged(v, m)
      BY <2>1, <2>4 DEF HandleAfresh
    <3>2. Serves(v, AnswerAcknowledged(v, m), m, running)
      BY CalleeAck
    <3>. QED
      BY <3>1, <3>2 DEF w
  <2>5. CASE m.method = "BYE"
    <3>1. w = OnBye(v, m)
      BY <2>1, <2>5 DEF HandleAfresh
    <3>2. Serves(v, OnBye(v, m), m, running)
      BY <2>5, CalleeBye DEF IsBye
    <3>. QED
      BY <3>1, <3>2 DEF w
  <2>6. CASE m.method = "CANCEL"
    <3>1. w = OnCancel(v, m)
      BY <2>1, <2>6 DEF HandleAfresh
    <3>2. Serves(v, OnCancel(v, m), m, running)
      BY <2>6, CalleeCancel
    <3>. QED
      BY <3>1, <3>2 DEF w
  <2>. QED
    BY <2>2, <2>3, <2>4, <2>5, <2>6
<1>. QED
  BY <1>2, <1>3

-----------------------------------------------------------------------------
(* The two lines, a the one that dials.                                    *)

\* An INVITE that will be answered afresh, or rings.
Unanswered(a, m) ==
  /\ IsInvite(m)
  /\ \/ m \in Sent(a) /\ ~Served(worker[Peer(a)], m)
     \/ Running(Peer(a)) /\ worker[Peer(a)].ringing = m

\* a neither is in the call nor has said goodbye to it.
Over(a, c) ==
  /\ c \notin {worker[a].call.call, worker[a].bye.request.call}
  /\ \A m \in SentByes(a) : m.call # c

\* a waits for the last word on m, which nobody has said.
Awaits(a, m) ==
  /\ worker[a].invite.request = m
  /\ \A r \in Sent(Peer(a)) : ~Final(m, r)

\* No call is ended with a BYE while its INVITE may ring.
Answerable(a) == \A m : Unanswered(a, m) => Over(a, m.call) \/ Awaits(a, m)

Shapes(a) ==
  /\ open[a] = "running"
  /\ Calling(worker[a]) /\ Called(worker[Peer(a)], Running(Peer(a)))
  /\ worker[a].reliable = worker[Peer(a)].reliable
  /\ worker[a].out = <<>> /\ worker[Peer(a)].out = <<>>
  /\ \A m \in Sent(a) : m.code # "Request" => m.method = "BYE"
  /\ \A m \in Sent(Peer(a)) : m.code = "Request" => m.method = "BYE"

\* The INVITE of a is newer than any there has been, and the number it holds newer
\* than any it has asked for.
Known(a) == heard \cup {m \in Sent(a) : IsInvite(m)}

Placed(a) ==
  \A m \in Known(a) :
    /\ IsInvite(m) /\ m.call \in 1 .. dialled /\ m.call # worker[a].held_dial
    /\ m.call = worker[a].invite.request.call => m.cseq <= worker[a].invite.request.cseq

\* What is served, or rings, was passed on.
PassedOn(a) ==
  /\ \A r \in worker[Peer(a)].kept : r.method = "INVITE" => r.call \in passed
  /\ worker[Peer(a)].ringing # Nothing => worker[Peer(a)].ringing.call \in passed

\* Until then one INVITE of a call is on its way.
Lone(s, done) ==
  \A i, j \in 1 .. Len(s) :
    IsInvite(s[i]) /\ IsInvite(s[j]) /\ s[i].call = s[j].call /\ s[i].call \notin done => i = j

\* A connection that is made again repeats no answer that a waits for to an INVITE
\* that could ring.
Repeatable(a) ==
  /\ worker[a].reliable /\ open[Peer(a)] # "gone"
  /\ IsInvite(worker[a].invite.request)
  /\ Answers(worker[a].invite.request, worker[Peer(a)].answer.request)
  => /\ Served(worker[Peer(a)], worker[a].invite.request)
     /\ worker[Peer(a)].answer.request \in Sent(Peer(a))

Lines(a) ==
  /\ Shapes(a) /\ Placed(a) /\ PassedOn(a) /\ Lone(net[Peer(a)], passed)
  /\ Answerable(a) /\ Repeatable(a)

\* What a list is thinned to.
Thinned(t, s) ==
  \E g \in [1 .. Len(t) -> 1 .. Len(s)] :
    \A i, j \in 1 .. Len(t) : t[i] = s[g[i]] /\ (g[i] = g[j] => i = j)

LEMMA ThinnedLone ==
  ASSUME NEW s, NEW t, Thinned(t, s), NEW done, Lone(s, done), NEW more, done \subseteq more
  PROVE  Lone(t, more)
<1>1. PICK g \in [1 .. Len(t) -> 1 .. Len(s)] :
        \A i, j \in 1 .. Len(t) : t[i] = s[g[i]] /\ (g[i] = g[j] => i = j)
  BY DEF Thinned
<1>2. ASSUME NEW i \in 1 .. Len(t), NEW j \in 1 .. Len(t), IsInvite(t[i]), IsInvite(t[j]),
             t[i].call = t[j].call, t[i].call \notin more
      PROVE  i = j
  <2>1. /\ g[i] \in 1 .. Len(s) /\ g[j] \in 1 .. Len(s)
        /\ t[i] = s[g[i]] /\ t[j] = s[g[j]] /\ (g[i] = g[j] => i = j)
    BY <1>1
  <2>2. t[i].call \notin done
    BY <1>2
  <2>3. g[i] = g[j]
    BY <1>2, <2>1, <2>2 DEF Lone
  <2>. QED
    BY <2>1, <2>3
<1>. QED
  BY <1>2 DEF Lone

LEMMA ThinnedSame ==
  ASSUME NEW s \in Seq(Message)
  PROVE  Thinned(s, s)
<1>. DEFINE g == [i \in 1 .. Len(s) |-> i]
<1>1. g \in [1 .. Len(s) -> 1 .. Len(s)]
  OBVIOUS
<1>2. \A i, j \in 1 .. Len(s) : s[i] = s[g[i]] /\ (g[i] = g[j] => i = j)
  OBVIOUS
<1>. QED
  BY <1>1, <1>2 DEF Thinned

LEMMA ThinnedNone == \A s : Thinned(<<>>, s)
<1>. SUFFICES ASSUME NEW s PROVE Thinned(<<>>, s)
  OBVIOUS
<1>. DEFINE g == [i \in 1 .. Len(<<>>) |-> 1]
<1>1. 1 .. Len(<<>>) = {}
  OBVIOUS
<1>2. g \in [1 .. Len(<<>>) -> 1 .. Len(s)]
  BY <1>1
<1>3. \A i, j \in 1 .. Len(<<>>) : <<>>[i] = s[g[i]] /\ (g[i] = g[j] => i = j)
  BY <1>1
<1>. QED
  BY <1>2, <1>3 DEF Thinned

LEMMA ThinnedTail ==
  ASSUME NEW s \in Seq(Message), s # <<>>
  PROVE  Thinned(Tail(s), s)
<1>. DEFINE t == Tail(s)
            g == [i \in 1 .. Len(t) |-> i + 1]
<1>1. /\ Len(s) \in Nat /\ Len(s) >= 1 /\ Len(t) = Len(s) - 1
      /\ \A i \in 1 .. Len(t) : t[i] = s[i + 1]
  BY LenProperties, EmptySeq
<1>. HIDE DEF t
<1>2. g \in [1 .. Len(t) -> 1 .. Len(s)]
  BY <1>1
<1>3. \A i, j \in 1 .. Len(t) : t[i] = s[g[i]] /\ (g[i] = g[j] => i = j)
  BY <1>1
<1>. QED
  BY <1>2, <1>3 DEF Thinned, t

LEMMA ThinnedSecond ==
  ASSUME NEW s \in Seq(Message), Len(s) > 1
  PROVE  Thinned(Without(s, 2), s) /\ Without(s, 2) \in Seq(Message)
<1>. DEFINE first == SubSeq(s, 1, 1)
            rest  == SubSeq(s, 3, Len(s))
            left  == Without(s, 2)
            g == [i \in 1 .. Len(left) |-> IF i = 1 THEN 1 ELSE i + 1]
<1>1. Len(s) \in Nat
  BY LenProperties
<1>2. left = first \o rest
  BY DEF Without
<1>3. /\ first \in Seq(Message) /\ Len(first) = 1 /\ first[1] = s[1]
  <2>1. /\ first \in Seq(Message) /\ Len(first) = 1 - 1 + 1
        /\ \A k \in 1 .. 1 - 1 + 1 : first[k] = s[1 + k - 1]
    BY <1>1, SubSeqProperties
  <2>. HIDE DEF first
  <2>. QED
    BY <2>1
<1>4. /\ rest \in Seq(Message) /\ Len(rest) = Len(s) - 2
      /\ \A k \in 1 .. Len(s) - 2 : rest[k] = s[k + 2]
  <2>1. \A i \in 3 .. Len(s) : s[i] \in Message
    BY <1>1
  <2>2. /\ 3 \in Int /\ Len(s) \in Int
        /\ (IF 3 <= Len(s) THEN Len(s) - 3 + 1 ELSE 0) = Len(s) - 3 + 1
    <3>1. \A n \in Nat : n > 1 => (IF 3 <= n THEN n - 3 + 1 ELSE 0) = n - 3 + 1
      OBVIOUS
    <3>2. (IF 3 <= Len(s) THEN Len(s) - 3 + 1 ELSE 0) = Len(s) - 3 + 1
      BY <1>1, <3>1, Zenon
    <3>. QED
      BY <1>1, <3>2
  <2>3. /\ rest \in Seq(Message) /\ Len(rest) = Len(s) - 3 + 1
        /\ \A k \in 1 .. Len(s) - 3 + 1 : rest[k] = s[3 + k - 1]
    BY <2>1, <2>2, SubSeqProperties
  <2>. HIDE DEF rest
  <2>. QED
    BY <1>1, <2>3
<1>. HIDE DEF first, rest, left
<1>5. left \in Seq(Message) /\ Len(left) = Len(s) - 1
  <2>1. left \in Seq(Message) /\ Len(left) = Len(first) + Len(rest)
    BY <1>2, <1>3, <1>4, ConcatProperties
  <2>. QED
    BY <1>1, <1>3, <1>4, <2>1
<1>6. ASSUME NEW i \in 1 .. Len(left) PROVE left[i] = s[IF i = 1 THEN 1 ELSE i + 1]
  <2>1. CASE i = 1
    BY <1>1, <1>2, <1>3, <1>4, <1>5, <2>1, ConcatProperties
  <2>2. CASE i > 1
    <3>1. i - 1 \in 1 .. Len(s) - 2 /\ i - 1 + 2 = i + 1
      BY <1>1, <1>5, <2>2
    <3>2. left[i] = rest[i - 1]
      BY <1>1, <1>2, <1>3, <1>4, <1>5, <2>2, ConcatProperties
    <3>. QED
      BY <1>4, <2>2, <3>1, <3>2
  <2>. QED
    BY <1>1, <1>5, <2>1, <2>2
<1>7. g \in [1 .. Len(left) -> 1 .. Len(s)]
  BY <1>1, <1>5
<1>8. \A i, j \in 1 .. Len(left) : left[i] = s[g[i]] /\ (g[i] = g[j] => i = j)
  BY <1>1, <1>5, <1>6
<1>. QED
  BY <1>5, <1>7, <1>8 DEF Thinned, left

-----------------------------------------------------------------------------
(* What is known of the two ends.                                          *)

\* End e has become w, and what it said is on its way.
Turned(e, w) ==
  /\ Alike(worker'[e], w) /\ worker'[e].out = <<>> /\ worker'[Peer(e)] = worker[Peer(e)]
  /\ Sent(e)' \subseteq Sent(e) \cup Spoken(w)
  /\ open[Peer(e)] # "gone" => Sent(e)' = Sent(e) \cup Spoken(w)
  /\ net'[Peer(e)] \in {net[Peer(e)], net[Peer(e)] \o w.out}

LEMMA SpokenConcat ==
  ASSUME NEW s \in Seq(Message), NEW t \in Seq(Message)
  PROVE  {(s \o t)[i] : i \in 1 .. Len(s \o t)}
           = {s[i] : i \in 1 .. Len(s)} \cup {t[i] : i \in 1 .. Len(t)}
<1>1. /\ Len(s \o t) = Len(s) + Len(t) /\ Len(s) \in Nat /\ Len(t) \in Nat
      /\ \A i \in 1 .. Len(s) + Len(t) :
           (s \o t)[i] = IF i <= Len(s) THEN s[i] ELSE t[i - Len(s)]
  BY ConcatProperties, LenProperties
<1>2. \A i \in 1 .. Len(s \o t) :
        (s \o t)[i] \in {s[j] : j \in 1 .. Len(s)} \cup {t[j] : j \in 1 .. Len(t)}
  BY OfConcat
<1>3. ASSUME NEW i \in 1 .. Len(s)
      PROVE  i \in 1 .. Len(s \o t) /\ (s \o t)[i] = s[i]
  BY <1>1
<1>4. ASSUME NEW i \in 1 .. Len(t)
      PROVE  Len(s) + i \in 1 .. Len(s \o t) /\ (s \o t)[Len(s) + i] = t[i]
  <2>1. Len(s) + i \in 1 .. Len(s) + Len(t) /\ ~(Len(s) + i <= Len(s))
        /\ Len(s) + i - Len(s) = i
    BY <1>1
  <2>. QED
    BY <1>1, <2>1
<1>. DEFINE u == s \o t
<1>5. /\ \A i \in 1 .. Len(u) : u[i] \in {s[j] : j \in 1 .. Len(s)} \cup {t[j] : j \in 1 .. Len(t)}
      /\ \A i \in 1 .. Len(s) : i \in 1 .. Len(u) /\ u[i] = s[i]
      /\ \A i \in 1 .. Len(t) : \E j \in 1 .. Len(u) : u[j] = t[i]
  BY <1>2, <1>3, <1>4
<1>. HIDE DEF u
<1>6. /\ {u[i] : i \in 1 .. Len(u)} \subseteq {s[i] : i \in 1 .. Len(s)} \cup {t[i] : i \in 1 .. Len(t)}
      /\ {s[i] : i \in 1 .. Len(s)} \subseteq {u[i] : i \in 1 .. Len(u)}
      /\ {t[i] : i \in 1 .. Len(t)} \subseteq {u[i] : i \in 1 .. Len(u)}
  BY <1>5
<1>. QED
  BY <1>6 DEF u

LEMMA TurnedBecomes ==
  ASSUME IInv, NEW e \in End, NEW w \in Worker, NEW arriving, Becomes(e, w, arriving)
  PROVE  /\ Turned(e, w) /\ net'[e] = arriving
         /\ Sent(Peer(e))' = {arriving[i] : i \in 1 .. Len(arriving)}
<1>. DEFINE f      == Peer(e)
            rested == [w EXCEPT !.out = <<>>, !.told = <<>>]
            sent   == net[f] \o w.out
<1>1. f \in End /\ f # e /\ Peer(f) = e /\ (\A g \in End : g = e \/ g = f)
  BY PeerOf, PeerPeer
<1>2. /\ worker' = [worker EXCEPT ![e] = rested]
      /\ net' = [net EXCEPT ![e] = arriving, ![f] = IF open[f] = "gone" THEN net[f] ELSE sent]
  BY <1>1 DEF Becomes, IInv, Wires
<1>3. worker'[e] = rested /\ worker'[f] = worker[f]
  BY <1>1, <1>2 DEF IInv, Workers
<1>4. net'[e] = arriving /\ net'[f] = IF open[f] = "gone" THEN net[f] ELSE sent
  BY <1>1, <1>2 DEF IInv, Wires
<1>5. net[f] \in Seq(Message) /\ w.out \in Seq(Message)
  BY <1>1, Kept DEF Carried, Worker
<1>6. Alike(rested, w) /\ rested.out = <<>>
  BY DEF Alike, Worker
<1>7. {sent[i] : i \in 1 .. Len(sent)}
        = {net[f][i] : i \in 1 .. Len(net[f])} \cup {w.out[i] : i \in 1 .. Len(w.out)}
  BY <1>5, SpokenConcat
<1>. HIDE DEF rested, sent
<1>8. /\ Sent(e)' = {net'[f][i] : i \in 1 .. Len(net'[f])}
      /\ Sent(e) = {net[f][i] : i \in 1 .. Len(net[f])}
      /\ Sent(f)' = {net'[e][i] : i \in 1 .. Len(net'[e])}
  BY <1>1 DEF Sent
<1>9. /\ open[f] # "gone" => Sent(e)' = Sent(e) \cup Spoken(w)
      /\ open[f] = "gone" => Sent(e)' = Sent(e)
  BY <1>4, <1>7, <1>8 DEF Spoken
<1>10. net'[f] \in {net[f], net[f] \o w.out}
  BY <1>4 DEF sent
<1>. QED
  BY <1>3, <1>4, <1>6, <1>8, <1>9, <1>10 DEF Turned

LEMMA AlikeShapes ==
  ASSUME NEW v, NEW w, Alike(v, w)
  PROVE  /\ Calling(w) => Calling(v)
         /\ \A running : Called(w, running) => Called(v, running)
         /\ \A m : Served(w, m) <=> Served(v, m)
BY DEF Alike, Calling, Called, Served

\* An end that dials is in no call it has said a BYE for, and holds the number of
\* none that it is or was in.
LEMMA CallerFacts ==
  ASSUME NEW a, OnlyCaller(a), Accounted, Lines(a)
  PROVE  LET A == worker[a]
             b == Peer(a)
         IN  /\ a \in End /\ b \in End /\ b # a /\ Peer(b) = a /\ \A e \in End : e = a \/ e = b
             /\ dialled \in Nat /\ 1 .. dialled \subseteq Call
             /\ Caller(A, heard) /\ Callee(worker[b], heard, Running(b))
             /\ A.call # NoDialog =>
                  /\ A.call.call \in 1 .. dialled /\ A.call.call # A.held_dial
                  /\ A.bye.request.call # A.call.call
                  /\ \A m \in SentByes(a) : m.call # A.call.call
             /\ A.held_dial # NoCall => A.held_dial \in 1 .. dialled
             /\ A.invite # Free =>
                  /\ A.call # NoDialog /\ IsInvite(A.invite.request)
                  /\ A.invite.request.call = A.call.call /\ ~A.call.established
             /\ A.invite = Free => A.invite.request = Nothing
             /\ \A e \in End : \A m \in Sent(e) : m \in Message /\ Founded(m, heard)
<1>. DEFINE A == worker[a]
            b == Peer(a)
<1>1. /\ a \in End /\ b \in End /\ b # a /\ Peer(b) = a /\ \A e \in End : e = a \/ e = b
      /\ IInv /\ Shapes(a)
  BY PeerOf, PeerPeer DEF OnlyCaller, Accounted, Lines
<1>2. /\ Counted /\ Good(A, heard) /\ Good(worker[b], heard)
      /\ \A e \in End : Carried(net[e], heard)
  BY <1>1, Kept
<1>3. PICK by : Dealt(by)
  BY DEF Accounted
<1>4. dialled \in Nat /\ 1 .. dialled \subseteq Call
  BY <1>2, SipAssumption DEF Counted, Call
<1>. DEFINE M == Mine(by, a)
            T == Mine(by, b)
<1>5. T = {} /\ M \subseteq 1 .. dialled
  BY <1>1, <1>3 DEF Dealt, OnlyCaller, Mine
<1>6. Tidy(A, M, T, SentByes(a))
  BY <1>1, <1>3 DEF Dealt
<1>7. Calling(A)
  BY <1>1 DEF Shapes
<1>8. \A e \in End : \A m \in Sent(e) : m \in Message /\ Founded(m, heard)
  BY <1>2, PeerOf, ElementOfSeq DEF Sent, Carried
<1>. HIDE DEF M, T
<1>9. A.call # NoDialog => A.call.call \in M /\ A.call.call # NoCall
  BY <1>5, <1>6, <1>7 DEF Tidy, Calling
<1>10. A.held_dial # NoCall => A.held_dial \in M /\ A.held_dial # A.call.call
  BY <1>6 DEF Tidy
<1>11. ASSUME NEW m, m \in ByesOf(A, SentByes(a)) PROVE m.call # A.call.call
  BY <1>5, <1>6, <1>11 DEF Tidy, Last
<1>12. \A m \in SentByes(a) : m.call # A.call.call
  BY <1>11 DEF ByesOf, SentByes
<1>13. A.call # NoDialog => A.bye.request.call # A.call.call
  <2>1. CASE A.bye.request = Nothing
    BY <1>9, <2>1, FreeFields
  <2>2. CASE IsBye(A.bye.request)
    BY <1>11, <2>2 DEF ByesOf
  <2>. QED
    BY <1>7, <2>1, <2>2 DEF Calling
<1>14. Caller(A, heard) /\ Callee(worker[b], heard, Running(b))
  <2>1. /\ A.out = <<>> /\ worker[b].out = <<>> /\ Called(worker[b], Running(b))
    BY <1>1 DEF Shapes
  <2>2. ~ByeUnderway(A)
    BY <1>13 DEF ByeUnderway
  <2>. QED
    BY <1>2, <1>7, <2>1, <2>2 DEF Caller, Callee
<1>15. A.invite = Free => A.invite.request = Nothing
  BY FreeFields
<1>16. A.invite # Free =>
         /\ A.call # NoDialog /\ IsInvite(A.invite.request)
         /\ A.invite.request.call = A.call.call /\ ~A.call.established
  BY <1>2, <1>7 DEF Calling, Good
<1>. QED
  BY <1>1, <1>4, <1>5, <1>8, <1>9, <1>10, <1>12, <1>13, <1>14, <1>15, <1>16

-----------------------------------------------------------------------------
(* A turn of the end that dials.                                           *)

\* What is not heard or passed on changes for nobody, and no program is closed.
Standing == heard' = heard /\ passed' = passed /\ open' = open /\ dialled' \in Nat

\* The answer that a waits for does not go from a connection but to it.
StaysAnswered(a) ==
  /\ worker[a].reliable /\ IsInvite(worker'[a].invite.request)
  /\ Answers(worker'[a].invite.request, worker[Peer(a)].answer.request)
  /\ worker[Peer(a)].answer.request \in Sent(Peer(a))
  => worker[Peer(a)].answer.request \in Sent(Peer(a))'

LEMMA LoneGrows ==
  ASSUME NEW s \in Seq(Message), NEW t \in Seq(Message), NEW done, Lone(s, done),
         OneInvite(t),
         \A i \in 1 .. Len(s), j \in 1 .. Len(t) :
           IsInvite(s[i]) /\ IsInvite(t[j]) /\ s[i].call = t[j].call => s[i].call \in done
  PROVE  Lone(s \o t, done)
<1>. DEFINE u == s \o t
<1>1. /\ Len(u) = Len(s) + Len(t) /\ Len(s) \in Nat /\ Len(t) \in Nat
      /\ \A i \in 1 .. Len(s) + Len(t) : u[i] = IF i <= Len(s) THEN s[i] ELSE t[i - Len(s)]
  BY ConcatProperties, LenProperties
<1>. HIDE DEF u
<1>2. ASSUME NEW i \in 1 .. Len(u)
      PROVE  \/ i \in 1 .. Len(s) /\ u[i] = s[i]
             \/ i - Len(s) \in 1 .. Len(t) /\ u[i] = t[i - Len(s)]
  BY <1>1
<1>3. ASSUME NEW i \in 1 .. Len(u), NEW j \in 1 .. Len(u), IsInvite(u[i]), IsInvite(u[j]),
             u[i].call = u[j].call, u[i].call \notin done
      PROVE  i = j
  <2>1. CASE i \in 1 .. Len(s) /\ u[i] = s[i] /\ j \in 1 .. Len(s) /\ u[j] = s[j]
    BY <1>3, <2>1 DEF Lone
  <2>2. CASE /\ i \in 1 .. Len(s) /\ u[i] = s[i]
             /\ j - Len(s) \in 1 .. Len(t) /\ u[j] = t[j - Len(s)]
    BY <1>3, <2>2
  <2>3. CASE /\ j \in 1 .. Len(s) /\ u[j] = s[j]
             /\ i - Len(s) \in 1 .. Len(t) /\ u[i] = t[i - Len(s)]
    BY <1>3, <2>3
  <2>4. CASE /\ i - Len(s) \in 1 .. Len(t) /\ u[i] = t[i - Len(s)]
             /\ j - Len(s) \in 1 .. Len(t) /\ u[j] = t[j - Len(s)]
    <3>1. i - Len(s) = j - Len(s)
      BY <1>3, <2>4 DEF OneInvite
    <3>. QED
      BY <1>1, <3>1
  <2>. QED
    BY <1>2, <2>1, <2>2, <2>3, <2>4
<1>4. Lone(u, done)
  BY <1>3 DEF Lone
<1>. QED
  BY <1>4 DEF u

\* What does not change when a turns into w.
LEMMA TurnedShapes ==
  ASSUME NEW a, OnlyCaller(a), Accounted, Lines(a), NEW w \in Worker, Turned(a, w), Standing,
         Calling(w), w.reliable = worker[a].reliable,
         \A m \in Spoken(w) : m.code # "Request" => m.method = "BYE",
         Sent(Peer(a))' \subseteq Sent(Peer(a))
  PROVE  Shapes(a)' /\ PassedOn(a)' /\ Running(Peer(a))' = Running(Peer(a))
<1>. DEFINE b == Peer(a)
<1>1. Shapes(a) /\ PassedOn(a) /\ b \in End /\ b # a /\ Peer(b) = a
  BY CallerFacts DEF Lines
<1>2. worker'[b] = worker[b] /\ Alike(worker'[a], w) /\ worker'[a].out = <<>>
      /\ Sent(a)' \subseteq Sent(a) \cup Spoken(w)
  BY DEF Turned
<1>3. Running(b)' = Running(b)
  BY DEF Standing, Running
<1>4. Calling(worker'[a]) /\ worker'[a].reliable = w.reliable
  BY <1>2, AlikeShapes DEF Alike
<1>5. PassedOn(a)'
  BY <1>1, <1>2 DEF PassedOn, Standing
<1>6. Shapes(a)'
  BY <1>1, <1>2, <1>3, <1>4 DEF Shapes, Standing
<1>. QED
  BY <1>3, <1>5, <1>6

\* An INVITE that may be answered or rings is one that was asked for.
LEMMA UnansweredCall ==
  ASSUME NEW a, OnlyCaller(a), Accounted, Lines(a), NEW m, Unanswered(a, m)
  PROVE  m \in Known(a) /\ m.call \in 1 .. dialled /\ m.call # NoCall
         /\ m.call # worker[a].held_dial
<1>1. Good(worker[Peer(a)], heard) /\ Placed(a) /\ dialled \in Nat
  BY CallerFacts DEF Callee, Lines
<1>2. m \in Known(a)
  BY <1>1, FreeFields DEF Unanswered, Known, Good, IsInvite
<1>. QED
  BY <1>1, <1>2, FreeFields DEF Placed

\* It goes on, having asked for no call.
LEMMA GoesKeeps ==
  ASSUME NEW a, OnlyCaller(a), Accounted, Lines(a), NEW w \in Worker, Turned(a, w), Standing,
         NEW done \in BOOLEAN, GoesOn(worker[a], w, done), dialled' >= dialled,
         w.held_dial \in {worker[a].held_dial, NoCall} \/ w.held_dial > dialled,
         done => \A m : Unanswered(a, m) => ~Awaits(a, m),
         Sent(Peer(a))' \subseteq Sent(Peer(a)), StaysAnswered(a)
  PROVE  Lines(a)'
<1>. DEFINE A == worker[a]
            x == worker'[a]
            b == Peer(a)
<1>1. /\ a \in End /\ b \in End /\ b # a /\ Peer(b) = a
      /\ Calling(A) /\ w.out \in Seq(Message) /\ net[b] \in Seq(Message)
  BY CallerFacts, Kept DEF Caller, Worker, Accounted, Carried
<1>2. /\ worker'[b] = worker[b] /\ Sent(a)' \subseteq Sent(a) \cup Spoken(w)
      /\ x.call = w.call /\ x.bye = w.bye /\ x.invite = w.invite /\ x.held_dial = w.held_dial
      /\ x.reliable = w.reliable
  BY DEF Turned, Alike
<1>3. \A m \in Spoken(w) : ~IsInvite(m) /\ (m.code # "Request" => m.method = "BYE")
  BY DEF GoesOn, Mild, IsBye, IsInvite
<1>4. Shapes(a)' /\ PassedOn(a)' /\ Running(b)' = Running(b)
  BY <1>3, TurnedShapes DEF GoesOn
<1>5. w.invite.request = A.invite.request \/ w.invite.request = Nothing
  BY FreeFields DEF GoesOn
<1>6. Placed(a)'
  <2>1. Known(a)' \subseteq Known(a)
    BY <1>2, <1>3 DEF Known, Standing
  <2>2. ASSUME NEW m \in Known(a)
        PROVE  /\ IsInvite(m) /\ m.call \in 1 .. dialled' /\ m.call # x.held_dial
               /\ m.call = x.invite.request.call => m.cseq <= x.invite.request.cseq
    <3>1. /\ IsInvite(m) /\ m.call \in 1 .. dialled /\ m.call # A.held_dial
          /\ m.call = A.invite.request.call => m.cseq <= A.invite.request.cseq
      BY DEF Lines, Placed
    <3>2. dialled \in Nat /\ dialled' \in Nat
      BY CallerFacts DEF Standing
    <3>3. m.call \in 1 .. dialled' /\ m.call # NoCall /\ ~(m.call > dialled)
      BY <3>1, <3>2, FreeFields
    <3>4. m.call # x.held_dial
      BY <1>2, <3>1, <3>3
    <3>. QED
      BY <1>2, <1>5, <3>1, <3>3, <3>4, FreeFields
  <2>. QED
    BY <2>1, <2>2 DEF Placed
<1>7. Lone(net[b], passed)'
  <2>1. OneInvite(w.out)
    BY <1>3 DEF OneInvite, Spoken
  <2>2. Lone(net[b], passed) /\ Lone(net[b] \o w.out, passed)
    BY <1>1, <1>3, <2>1, LoneGrows DEF Lines, Spoken
  <2>3. net'[b] = net[b] \/ net'[b] = net[b] \o w.out
    BY DEF Turned
  <2>4. Lone(net'[b], passed)
    BY <2>2, <2>3
  <2>. QED
    BY <2>4 DEF Standing
<1>8. ASSUME NEW m, Unanswered(a, m)'
      PROVE  (Over(a, m.call) \/ Awaits(a, m))'
  <2>1. Unanswered(a, m)
    BY <1>2, <1>3, <1>4, <1>8 DEF Unanswered, Served
  <2>2. m.call # NoCall
    BY <2>1, UnansweredCall
  <2>3. CASE Over(a, m.call)
    <3>1. \A n \in SentByes(a)' : n \in SentByes(a) \/ n.call \in {A.bye.request.call, A.call.call}
      <4>1. \A n \in Spoken(w) : IsBye(n) => n.call \in {A.bye.request.call, A.call.call}
        BY DEF GoesOn, Mild
      <4>. QED
        BY <1>2, <4>1 DEF SentByes
    <3>2. w.call.call \in {A.call.call, NoCall}
          /\ w.bye.request.call \in {A.bye.request.call, NoCall, A.call.call}
      BY FreeFields DEF GoesOn
    <3>3. Over(a, m.call)'
      BY <1>2, <2>2, <2>3, <3>1, <3>2 DEF Over
    <3>. QED
      BY <3>3
  <2>4. CASE Awaits(a, m) /\ ~done
    <3>1. CASE w.invite.request = A.invite.request
      <4>1. Awaits(a, m)'
        BY <1>2, <2>4, <3>1 DEF Awaits
      <4>. QED
        BY <4>1
    <3>2. CASE w.call.call = NoCall
      <4>1. /\ m = A.invite.request /\ IsInvite(m)
        BY <2>1, <2>4 DEF Awaits, Unanswered
      <4>2. A.invite # Free
        BY <4>1, FreeFields DEF IsInvite
      <4>3. /\ A.call # NoDialog /\ m.call = A.call.call /\ A.bye.request.call # A.call.call
            /\ \A n \in SentByes(a) : n.call # A.call.call
        BY <4>1, <4>2, CallerFacts
      <4>4. \A n \in SentByes(a)' : n \in SentByes(a) \/ n.call = A.bye.request.call
        <5>1. \A n \in Spoken(w) : IsBye(n) => n.call = A.bye.request.call
          BY <2>4 DEF GoesOn, Mild
        <5>. QED
          BY <1>2, <5>1 DEF SentByes
      <4>5. w.bye.request.call \in {A.bye.request.call, NoCall}
        BY <2>4, FreeFields DEF GoesOn
      <4>6. Over(a, m.call)'
        BY <1>2, <2>2, <3>2, <4>3, <4>4, <4>5 DEF Over
      <4>. QED
        BY <4>6
    <3>. QED
      BY <2>4, <3>1, <3>2 DEF GoesOn
  <2>. QED
    BY <2>1, <2>3, <2>4 DEF Lines, Answerable
<1>9. Answerable(a)'
  BY <1>8 DEF Answerable
<1>10. Repeatable(a)'
  <2>. SUFFICES ASSUME w.reliable, open[b] # "gone", IsInvite(w.invite.request),
                       Answers(w.invite.request, worker[b].answer.request)
                PROVE  /\ Served(worker[b], w.invite.request)
                       /\ worker[b].answer.request \in Sent(b)'
    BY <1>2 DEF Repeatable, Standing
  <2>1. w.invite.request = A.invite.request
    BY <1>5, FreeFields DEF IsInvite
  <2>2. A.reliable
    BY DEF GoesOn
  <2>3. /\ Served(worker[b], w.invite.request)
        /\ worker[b].answer.request \in Sent(b)
    BY <2>1, <2>2 DEF Lines, Repeatable
  <2>. QED
    BY <1>2, <2>2, <2>3 DEF StaysAnswered
<1>. QED
  BY <1>4, <1>6, <1>7, <1>9, <1>10 DEF Lines

\* Nobody answers an INVITE that was not heard.
LEMMA Unheard ==
  ASSUME NEW a, OnlyCaller(a), Accounted, Lines(a), NEW m, IsInvite(m), m \notin heard
  PROVE  /\ \A r \in Sent(Peer(a)) : ~Final(m, r)
         /\ ~Answers(m, worker[Peer(a)].answer.request)
<1>1. /\ \A r \in Sent(Peer(a)) : r \in Message /\ Founded(r, heard)
      /\ worker[Peer(a)].answer = Free \/ Founded(worker[Peer(a)].answer.request, heard)
      /\ Called(worker[Peer(a)], Running(Peer(a))) /\ worker[Peer(a)] \in Worker
  BY CallerFacts, CalleeFields DEF Callee, Good, Sound
<1>2. ASSUME NEW r \in Message, Founded(r, heard), r.code # "Request" PROVE ~Answers(m, r)
  <2>. SUFFICES ASSUME Answers(m, r) PROVE FALSE
    OBVIOUS
  <2>1. Response(r, "Request") = m /\ r.method = m.method
    BY DEF Answers, Response, Message
  <2>. QED
    BY <1>2, <2>1 DEF Founded, IsInvite
<1>3. ~Answers(m, Nothing)
  BY DEF Answers, Nothing, Request, IsInvite
<1>4. worker[Peer(a)].answer # Free => worker[Peer(a)].answer.request.code = "OK"
                                       /\ worker[Peer(a)].answer.request \in Message
  BY <1>1 DEF Called, Worker, Slot
<1>5. ~Answers(m, worker[Peer(a)].answer.request)
  BY <1>1, <1>2, <1>3, <1>4, FreeFields
<1>. QED
  BY <1>1, <1>2, <1>5 DEF Final

\* It asks for a call that is new, or whose INVITE had to be sent again.
LEMMA AsksKeeps ==
  ASSUME NEW a, OnlyCaller(a), Accounted, Lines(a), NEW w \in Worker, Turned(a, w), Standing,
         NEW m \in Message, Asks(worker[a], w, m), dialled' >= dialled,
         m.call \in 1 .. dialled', m.call # w.held_dial,
         \A n \in Known(a) : n.call = m.call => n.cseq <= m.cseq,
         \A n : Unanswered(a, n) => n = m \/ (Over(a, n.call) /\ n.call # m.call),
         \A r \in Sent(Peer(a)) : ~Final(m, r),
         m.call \in passed \/ \A n \in Sent(a) : IsInvite(n) => n.call # m.call,
         worker[a].reliable => ~Answers(m, worker[Peer(a)].answer.request),
         Sent(Peer(a))' \subseteq Sent(Peer(a))
  PROVE  Lines(a)'
<1>. DEFINE A == worker[a]
            x == worker'[a]
            b == Peer(a)
<1>1. /\ a \in End /\ b \in End /\ b # a /\ Peer(b) = a
      /\ Calling(A) /\ w.out \in Seq(Message) /\ net[b] \in Seq(Message)
  BY CallerFacts, Kept DEF Caller, Worker, Accounted, Carried
<1>2. /\ worker'[b] = worker[b] /\ Sent(a)' \subseteq Sent(a) \cup Spoken(w)
      /\ x.call = w.call /\ x.bye = w.bye /\ x.invite = w.invite /\ x.held_dial = w.held_dial
      /\ x.reliable = w.reliable
  BY DEF Turned, Alike
<1>3. /\ \A n \in Spoken(w) : (IsInvite(n) => n = m) /\ ~IsBye(n)
                              /\ (n.code # "Request" => n.method = "BYE")
      /\ IsInvite(m)
  BY DEF Asks, Mild, IsBye, IsInvite
<1>4. Shapes(a)' /\ PassedOn(a)' /\ Running(b)' = Running(b)
  BY <1>3, TurnedShapes DEF Asks
<1>5. Placed(a)'
  <2>1. Known(a)' \subseteq Known(a) \cup {m}
    BY <1>2, <1>3 DEF Known, Standing
  <2>2. ASSUME NEW n \in Known(a) \cup {m}
        PROVE  /\ IsInvite(n) /\ n.call \in 1 .. dialled' /\ n.call # x.held_dial
               /\ n.call = x.invite.request.call => n.cseq <= x.invite.request.cseq
    <3>1. dialled \in Nat /\ dialled' \in Nat /\ m.cseq <= m.cseq
      BY CallerFacts DEF Standing, Message
    <3>2. CASE n = m
      BY <1>2, <1>3, <3>1, <3>2 DEF Asks
    <3>3. CASE n \in Known(a)
      <4>1. IsInvite(n) /\ n.call \in 1 .. dialled /\ n.call # A.held_dial
        BY <3>3 DEF Lines, Placed
      <4>2. n.call \in 1 .. dialled' /\ n.call # NoCall
        BY <3>1, <4>1, FreeFields
      <4>3. n.call # x.held_dial
        BY <1>2, <4>1, <4>2 DEF Asks
      <4>. QED
        BY <1>2, <3>3, <4>1, <4>2, <4>3 DEF Asks
    <3>. QED
      BY <3>2, <3>3
  <2>. QED
    BY <2>1, <2>2 DEF Placed
<1>6. Lone(net[b], passed)'
  <2>1. OneInvite(w.out)
    BY DEF Asks
  <2>2. ASSUME NEW i \in 1 .. Len(net[b]), NEW j \in 1 .. Len(w.out),
               IsInvite(net[b][i]), IsInvite(w.out[j]), net[b][i].call = w.out[j].call
        PROVE  net[b][i].call \in passed
    <3>1. net[b][i] \in Sent(a) /\ w.out[j] = m
      BY <1>3, <2>2 DEF Sent, Spoken
    <3>. QED
      BY <2>2, <3>1
  <2>3. Lone(net[b], passed)
    BY DEF Lines
  <2>4. Lone(net[b] \o w.out, passed)
    BY <1>1, <2>1, <2>2, <2>3, LoneGrows
  <2>5. net'[b] = net[b] \/ net'[b] = net[b] \o w.out
    BY DEF Turned
  <2>6. Lone(net'[b], passed)
    BY <2>3, <2>4, <2>5
  <2>. QED
    BY <2>6 DEF Standing
<1>7. ASSUME NEW n, Unanswered(a, n)'
      PROVE  (Over(a, n.call) \/ Awaits(a, n))'
  <2>1. Unanswered(a, n) \/ n = m
    BY <1>2, <1>3, <1>4, <1>7 DEF Unanswered, Served
  <2>2. CASE n = m
    <3>1. Awaits(a, n)'
      BY <1>2, <2>2 DEF Awaits, Asks
    <3>. QED
      BY <3>1
  <2>3. CASE Over(a, n.call) /\ n.call # m.call
    <3>1. SentByes(a)' \subseteq SentByes(a)
      BY <1>2, <1>3 DEF SentByes
    <3>2. w.call.call = m.call /\ w.bye.request = A.bye.request
      BY DEF Asks
    <3>3. Over(a, n.call)'
      BY <1>2, <2>3, <3>1, <3>2 DEF Over
    <3>. QED
      BY <3>3
  <2>. QED
    BY <2>1, <2>2, <2>3
<1>8. Answerable(a)'
  BY <1>7 DEF Answerable
<1>9. Repeatable(a)'
  BY <1>2 DEF Repeatable, Standing, Asks
<1>. QED
  BY <1>4, <1>5, <1>6, <1>8, <1>9 DEF Lines

\* The same for an INVITE that was not heard and whose call is none of those
\* that were asked for, or is tried again.
LEMMA AsksAnew ==
  ASSUME NEW a, OnlyCaller(a), Accounted, Lines(a), NEW w \in Worker, Turned(a, w), Standing,
         NEW m \in Message, Asks(worker[a], w, m), dialled' >= dialled,
         m.call \in 1 .. dialled', m.call # w.held_dial, m \notin heard,
         \A n \in Known(a) : n.call = m.call => n.cseq <= m.cseq,
         \A n : Unanswered(a, n) => ~Awaits(a, n) /\ (n.call # m.call \/ ~Over(a, n.call)),
         Sent(Peer(a))' \subseteq Sent(Peer(a))
  PROVE  Lines(a)'
<1>1. \A n : Unanswered(a, n) => Over(a, n.call) /\ n.call # m.call
  BY DEF Lines, Answerable
<1>2. IsInvite(m)
  BY DEF Asks
<1>3. /\ \A r \in Sent(Peer(a)) : ~Final(m, r)
      /\ ~Answers(m, worker[Peer(a)].answer.request)
  BY <1>2, Unheard
<1>4. ASSUME NEW n \in Sent(a), IsInvite(n), n.call = m.call
      PROVE  m.call \in passed
  <2>1. ~Unanswered(a, n)
    BY <1>1, <1>4
  <2>2. PICK r \in worker[Peer(a)].kept : Answers(n, r)
    BY <1>4, <2>1 DEF Unanswered, Served
  <2>3. r \in Message
    BY <2>2, CallerFacts, CalleeFields
  <2>4. r.method = "INVITE" /\ r.call = n.call
    BY <1>4, <2>2, <2>3 DEF Answers, IsInvite, Message
  <2>. QED
    BY <1>4, <2>2, <2>4 DEF Lines, PassedOn
<1>. QED
  BY <1>1, <1>3, <1>4, AsksKeeps

-----------------------------------------------------------------------------
(* A turn of the end that is called.                                       *)

\* What a is asked for does not change, and no more comes to b than was sent.
Listening(a) ==
  /\ heard \subseteq heard' /\ heard' \subseteq Known(a) /\ passed \subseteq passed'
  /\ dialled' = dialled /\ open'[a] = open[a]
  /\ open'[Peer(a)] # "gone" => open[Peer(a)] # "gone"
  /\ Running(Peer(a))' => Running(Peer(a))
  /\ Thinned(net'[Peer(a)], net[Peer(a)])

LEMMA ThinnedSent ==
  ASSUME NEW s, NEW t, Thinned(t, s)
  PROVE  {t[i] : i \in 1 .. Len(t)} \subseteq {s[i] : i \in 1 .. Len(s)}
<1>1. PICK g \in [1 .. Len(t) -> 1 .. Len(s)] :
        \A i, j \in 1 .. Len(t) : t[i] = s[g[i]] /\ (g[i] = g[j] => i = j)
  BY DEF Thinned
<1>2. ASSUME NEW i \in 1 .. Len(t) PROVE g[i] \in 1 .. Len(s) /\ t[i] = s[g[i]]
  BY <1>1
<1>. QED
  BY <1>2

\* What follows for what a has asked for.
LEMMA ListeningKeeps ==
  ASSUME NEW a, OnlyCaller(a), Accounted, Lines(a), Listening(a), Alike(worker'[a], worker[a])
  PROVE  /\ Sent(a)' \subseteq Sent(a) /\ Known(a)' \subseteq Known(a)
         /\ Placed(a)' /\ Lone(net[Peer(a)], passed)'
         /\ \A c : Over(a, c) => Over(a, c)'
<1>. DEFINE b == Peer(a)
<1>1. b \in End /\ Peer(b) = a
  BY CallerFacts
<1>2. Sent(a)' \subseteq Sent(a)
  <2>1. Thinned(net'[b], net[b])
    BY DEF Listening
  <2>. QED
    BY <2>1, ThinnedSent DEF Sent
<1>3. Known(a)' \subseteq Known(a)
  BY <1>2 DEF Known, Listening
<1>4. Placed(a)'
  BY <1>3 DEF Lines, Placed, Listening, Alike
<1>5. Lone(net[b], passed)'
  <2>1. Lone(net'[b], passed')
    BY ThinnedLone DEF Lines, Listening
  <2>. QED
    BY <2>1
<1>6. \A c : Over(a, c) => Over(a, c)'
  BY <1>2 DEF Over, SentByes, Alike
<1>. QED
  BY <1>2, <1>3, <1>4, <1>5, <1>6

LEMMA ServesKeeps ==
  ASSUME NEW a, OnlyCaller(a), Accounted, Lines(a), Listening(a),
         NEW w \in Worker, Turned(Peer(a), w), NEW m,
         Serves(worker[Peer(a)], w, m, Running(Peer(a))'),
         m = Nothing \/ m \in Sent(a), IsInvite(m) => m.call \in passed'
  PROVE  Lines(a)'
<1>. DEFINE b == Peer(a)
            B == worker[b]
            y == worker'[b]
            running == Running(b)'
<1>1. /\ b \in End /\ Peer(b) = a /\ worker'[a] = worker[a] /\ Shapes(a) /\ open[a] = "running"
  BY CallerFacts DEF Lines, Shapes, Turned
<1>2. /\ Alike(y, w) /\ y.out = <<>> /\ Sent(b)' = Sent(b) \cup Spoken(w)
  BY <1>1 DEF Turned
<1>3. /\ y.ringing = w.ringing /\ y.answer = w.answer /\ y.kept = w.kept
      /\ y.reliable = B.reliable /\ \A n : Served(y, n) <=> Served(w, n)
  BY <1>2 DEF Alike, Serves, Served
<1>4. /\ Sent(a)' \subseteq Sent(a) /\ Known(a)' \subseteq Known(a)
      /\ Placed(a)' /\ Lone(net[b], passed)' /\ \A c : Over(a, c) => Over(a, c)'
  <2>1. Alike(worker'[a], worker[a])
    BY <1>1 DEF Alike
  <2>. QED
    BY <2>1, ListeningKeeps
<1>5. /\ Called(w, running) /\ \A r \in Spoken(w) : Settles(w, r, running)
      /\ \A n : Served(B, n) => Served(w, n)
      /\ w.ringing \in {B.ringing, Nothing} \/ (w.ringing = m /\ IsInvite(m) /\ ~Served(B, m))
  BY DEF Serves
<1>6. Shapes(a)'
  <2>1. Called(y, running)
    BY <1>2, <1>5, AlikeShapes
  <2>2. \A r \in Sent(b)' : r.code = "Request" => r.method = "BYE"
    BY <1>1, <1>2, <1>5 DEF Shapes, Settles
  <2>. QED
    BY <1>1, <1>2, <1>3, <1>4, <2>1, <2>2 DEF Shapes, Listening
<1>7. PassedOn(a)'
  <2>1. ASSUME NEW r \in w.kept, r.method = "INVITE" PROVE r.call \in passed'
    <3>1. r \in Message
      BY <2>1 DEF Worker
    <3>2. LET q == Response(r, "Request") IN q.call = r.call /\ q.method = "INVITE" /\ IsInvite(q)
      BY <2>1, <3>1 DEF Response, Message, IsInvite
    <3>3. r \in B.kept \/ Response(r, "Request") \in {B.ringing, m}
      BY <2>1 DEF Serves
    <3>4. CASE Response(r, "Request") = B.ringing
      <4>1. B.ringing # Nothing
        BY <3>2, <3>4, FreeFields DEF IsInvite
      <4>. QED
        BY <3>2, <3>4, <4>1 DEF Lines, PassedOn, Listening
    <3>5. CASE Response(r, "Request") = m
      BY <3>2, <3>5
    <3>. QED
      BY <2>1, <3>3, <3>4, <3>5 DEF Lines, PassedOn, Listening
  <2>2. w.ringing # Nothing => w.ringing.call \in passed'
    BY <1>5 DEF Lines, PassedOn, Listening
  <2>. QED
    BY <1>3, <2>1, <2>2 DEF PassedOn
<1>8. ASSUME NEW n, Unanswered(a, n)'
      PROVE  (Over(a, n.call) \/ Awaits(a, n))'
  <2>1. IsInvite(n) /\ ((n \in Sent(a)' /\ ~Served(w, n)) \/ (running /\ w.ringing = n))
    BY <1>3, <1>8 DEF Unanswered
  <2>2. n # Nothing
    BY <2>1, FreeFields DEF IsInvite
  <2>3. Unanswered(a, n)
    <3>1. CASE n \in Sent(a)' /\ ~Served(w, n)
      BY <1>4, <1>5, <2>1, <3>1 DEF Unanswered
    <3>2. CASE running /\ w.ringing = n
      BY <1>5, <2>1, <2>2, <3>2 DEF Unanswered, Listening
    <3>. QED
      BY <2>1, <3>1, <3>2
  <2>4. CASE Awaits(a, n)
    <3>1. ASSUME NEW r \in Spoken(w), Final(n, r) PROVE FALSE
      <4>1. r \in Message
        BY <3>1, ElementOfSeq DEF Spoken, Worker
      <4>2. Response(r, "Request") = n /\ r.method = "INVITE"
        BY <2>1, <3>1, <4>1 DEF Final, Answers, Response, Message, IsInvite
      <4>3. Served(w, n) /\ (running => w.ringing # n)
        BY <1>5, <3>1, <4>2 DEF Settles, Final
      <4>. QED
        BY <2>1, <4>3
    <3>2. Awaits(a, n)'
      BY <1>1, <1>2, <2>4, <3>1 DEF Awaits
    <3>. QED
      BY <3>2
  <2>. QED
    BY <1>4, <2>3, <2>4 DEF Lines, Answerable
<1>9. Answerable(a)'
  BY <1>8 DEF Answerable
<1>10. Repeatable(a)'
  <2>. DEFINE q == worker[a].invite.request
  <2>. SUFFICES ASSUME worker[a].reliable, open'[b] # "gone", IsInvite(q),
                       Answers(q, w.answer.request)
                PROVE  Served(w, q) /\ w.answer.request \in Sent(b)'
    BY <1>1, <1>3 DEF Repeatable
  <2>1. w.answer.request # Nothing
    BY DEF Answers, Nothing, Request, IsInvite
  <2>2. CASE w.answer.request = B.answer.request
    BY <1>2, <1>5, <2>2 DEF Lines, Repeatable, Listening
  <2>3. CASE w.answer.request \in Spoken(w) /\ Served(w, Response(w.answer.request, "Request"))
    <3>1. Response(w.answer.request, "Request") = q
      BY DEF Answers, Response
    <3>. QED
      BY <1>2, <2>3, <3>1
  <2>. QED
    BY <2>1, <2>2, <2>3 DEF Serves
<1>. QED
  BY <1>4, <1>6, <1>7, <1>9, <1>10 DEF Lines

\* An answer that a has had to wait for is sent again: it comes to one that waits
\* for no call.
LEMMA AnswersAgainKeeps ==
  ASSUME NEW a, OnlyCaller(a), Accounted, Lines(a), Quiet, Running(Peer(a)), ~worker[a].reliable,
         NEW slot \in Slots, Resends(worker[Peer(a)], slot), worker[Peer(a)].answer # Free,
         Turns(Peer(a), Resend(worker[Peer(a)], slot)), UNCHANGED <<heard, passed, open, dialled>>
  PROVE  Lines(a)'
<1>. DEFINE b == Peer(a)
            B == worker[b]
            w == Resend(B, slot)
            y == worker'[b]
<1>1. /\ a \in End /\ b \in End /\ Peer(b) = a /\ Shapes(a) /\ Callee(B, heard, TRUE)
      /\ Sent(a) = {} /\ IInv /\ net[b] = <<>>
  <2>1. Callee(B, heard, Running(b))
    BY CallerFacts
  <2>2. Running(b) = TRUE
    BY DEF Running
  <2>3. Callee(B, heard, TRUE)
    BY <2>1, <2>2
  <2>4. net[b] = <<>>
    BY CallerFacts DEF Quiet, End
  <2>5. Sent(a) = {}
    BY <2>4 DEF Sent
  <2>. QED
    BY <2>3, <2>4, <2>5, CallerFacts DEF Accounted, Lines
<1>2. w \in Worker
  BY <1>1, GoodResend DEF Callee, Good
<1>3. /\ Called(w, TRUE) /\ w.reliable = B.reliable /\ w.ringing = B.ringing
      /\ w.answer.request = B.answer.request /\ w.kept = B.kept
      /\ \A r \in Spoken(w) : r.code = "Request" => r.method = "BYE"
  <2>1. Callee(B, heard, TRUE) /\ Resends(B, slot)
    BY <1>1
  <2>. HIDE DEF B
  <2>. QED
    BY <2>1, CalleeResends
<1>4. Turned(b, w) /\ net'[b] = net[b] /\ Sent(a)' = Sent(a)
  <2>1. Becomes(b, w, net[b])
    BY DEF Turns
  <2>. HIDE DEF w
  <2>2. Turned(b, w) /\ net'[b] = net[b]
    BY <1>1, <1>2, <2>1, TurnedBecomes
  <2>. QED
    BY <2>2 DEF Sent
<1>. HIDE DEF w
<1>5. /\ worker'[a] = worker[a] /\ Sent(b)' \subseteq Sent(b) \cup Spoken(w)
      /\ y.reliable = B.reliable /\ y.ringing = B.ringing /\ y.kept = B.kept /\ y.out = <<>>
      /\ Called(y, TRUE)
  BY <1>1, <1>3, <1>4, AlikeShapes DEF Turned, Alike
<1>6. Running(b)' /\ Running(b) = TRUE /\ Running(b)' = TRUE
  BY DEF Running
<1>7. Shapes(a)'
  <2>1. Called(y, Running(b)')
    BY <1>5, <1>6
  <2>2. \A m \in Sent(b)' : m.code = "Request" => m.method = "BYE"
    BY <1>1, <1>3, <1>5 DEF Shapes
  <2>. QED
    BY <1>1, <1>4, <1>5, <2>1, <2>2 DEF Shapes
<1>8. Placed(a)' /\ PassedOn(a)' /\ Lone(net[b], passed)'
  BY <1>4, <1>5 DEF Lines, Placed, Known, PassedOn, Lone
<1>9. Answerable(a)'
  <2>1. B.ringing = Nothing
    BY <1>1 DEF Callee, Called
  <2>2. \A m : ~Unanswered(a, m)'
    BY <1>1, <1>4, <1>5, <2>1, FreeFields DEF Unanswered, IsInvite
  <2>. QED
    BY <2>2 DEF Answerable
<1>10. Repeatable(a)'
  BY <1>5 DEF Repeatable
<1>. QED
  BY <1>7, <1>8, <1>9, <1>10 DEF Lines

-----------------------------------------------------------------------------
(* What happens on the wire.                                               *)

\* The ends do nothing, and what was on its way may be no longer.
LEMMA WireKeeps ==
  ASSUME NEW a, OnlyCaller(a), Accounted, Lines(a), Listening(a), worker' = worker,
         Sent(Peer(a))' \subseteq Sent(Peer(a)),
         worker[a].reliable /\ open'[Peer(a)] # "gone" => Sent(Peer(a)) \subseteq Sent(Peer(a))'
  PROVE  Lines(a)'
<1>. DEFINE b == Peer(a)
<1>1. b \in End /\ Peer(b) = a /\ Shapes(a)
  BY CallerFacts DEF Lines
<1>2. /\ Sent(a)' \subseteq Sent(a) /\ Known(a)' \subseteq Known(a)
      /\ Placed(a)' /\ Lone(net[b], passed)' /\ \A c : Over(a, c) => Over(a, c)'
  <2>1. Alike(worker'[a], worker[a])
    BY DEF Alike
  <2>. QED
    BY <2>1, ListeningKeeps
<1>3. Running(b)' => Running(b)
  BY DEF Listening
<1>4. Shapes(a)'
  <2>1. Called(worker[b], Running(b)')
    BY <1>1, <1>3 DEF Shapes, Called
  <2>. QED
    BY <1>1, <1>2, <2>1 DEF Shapes, Listening
<1>5. PassedOn(a)'
  BY DEF Lines, PassedOn, Listening
<1>6. Answerable(a)'
  BY <1>2, <1>3 DEF Lines, Answerable, Unanswered, Awaits
<1>7. Repeatable(a)'
  BY DEF Lines, Repeatable, Listening
<1>. QED
  BY <1>2, <1>4, <1>5, <1>6, <1>7 DEF Lines

LEMMA LoseLines ==
  ASSUME NEW a, OnlyCaller(a), Accounted, Lines(a), NEW e \in End, Lose(e)
  PROVE  Lines(a)'
<1>. DEFINE b == Peer(a)
<1>1. /\ a \in End /\ b \in End /\ b # a /\ Peer(b) = a /\ (e = a \/ e = b) /\ IInv
      /\ net[a] \in Seq(Message) /\ net[b] \in Seq(Message)
  BY CallerFacts, Kept DEF Accounted, Carried
<1>2. /\ worker' = worker /\ UNCHANGED <<heard, passed, open, dialled>> /\ net[e] # <<>>
      /\ net' = [net EXCEPT ![e] = Tail(net[e])] /\ ~worker[e].reliable
  BY DEF Lose, Lossy, history
<1>3. ~worker[a].reliable
  BY <1>1, <1>2 DEF Lines, Shapes
<1>4. /\ net'[e] = Tail(net[e]) /\ \A f \in End : f # e => net'[f] = net[f]
  BY <1>2 DEF IInv, Wires, Accounted
<1>5. \A f \in End : Thinned(net'[f], net[f])
  <2>1. Thinned(net'[e], net[e])
    BY <1>1, <1>2, <1>4, ThinnedTail
  <2>2. ASSUME NEW f \in End, f # e PROVE Thinned(net'[f], net[f])
    <3>1. net[f] \in Seq(Message)
      BY <1>1, CallerFacts, Kept DEF Carried
    <3>2. net'[f] = net[f]
      BY <1>4, <2>2
    <3>. QED
      BY <3>1, <3>2, ThinnedSame
  <2>. QED
    BY <2>1, <2>2
<1>6. Sent(b)' \subseteq Sent(b)
  BY <1>1, <1>5, ThinnedSent DEF Sent
<1>7. Listening(a)
  BY <1>1, <1>2, <1>5 DEF Listening, Known, Running
<1>. QED
  BY <1>2, <1>3, <1>6, <1>7, WireKeeps

LEMMA LeaveLines ==
  ASSUME NEW a, OnlyCaller(a), Accounted, Lines(a), NEW e \in End, Leave(e)
  PROVE  Lines(a)'
<1>. DEFINE b == Peer(a)
<1>1. /\ a \in End /\ b \in End /\ b # a /\ Peer(b) = a /\ (e = a \/ e = b) /\ IInv
      /\ net[a] \in Seq(Message) /\ net[b] \in Seq(Message) /\ open[a] = "running"
  BY CallerFacts, Kept DEF Accounted, Carried, Lines, Shapes
<1>2. e = b
  BY <1>1 DEF Leave
<1>3. /\ worker' = worker /\ UNCHANGED <<heard, passed, dialled>>
      /\ net'[b] = <<>> /\ net'[a] = net[a] /\ open'[b] = "gone" /\ open'[a] = open[a]
  BY <1>1, <1>2 DEF Leave, history, budgets, IInv, Wires, Counted
<1>4. Thinned(<<>>, net[b])
  BY ThinnedNone
<1>5. Sent(b)' = Sent(b)
  BY <1>1, <1>3 DEF Sent
<1>6. Listening(a)
  BY <1>1, <1>3, <1>4 DEF Listening, Known, Running
<1>. QED
  BY <1>3, <1>5, <1>6, WireKeeps

LEMMA StutterLines ==
  ASSUME NEW a, OnlyCaller(a), Accounted, Lines(a), UNCHANGED vars
  PROVE  Lines(a)'
BY DEF vars, Lines, Shapes, Placed, PassedOn, Lone, Answerable, Repeatable, Known, Sent, Running,
       Unanswered, Over, Awaits, SentByes

\* The proxy asks only for an INVITE of a call it has passed none of on, and of
\* which no other is on its way.
LEMMA ChallengesLines ==
  ASSUME NEW a, OnlyCaller(a), Accounted, Lines(a), NEW e \in End, NEW code \in Challenge,
         Challenges(e, code)
  PROVE  Lines(a)'
<1>. DEFINE b      == Peer(a)
            m      == net[e][1]
            trying == IF TryingFirst THEN <<Response(m, "Trying")>> ELSE <<>>
            asked  == <<Response(m, code)>>
<1>1. /\ a \in End /\ b \in End /\ b # a /\ Peer(b) = a /\ (e = a \/ e = b) /\ IInv
      /\ net[a] \in Seq(Message) /\ net[b] \in Seq(Message) /\ Shapes(a)
  BY CallerFacts, Kept DEF Accounted, Carried, Lines
<1>2. /\ worker' = worker /\ UNCHANGED <<passed, open, dialled>> /\ net[e] # <<>>
      /\ IsInvite(m) /\ m.call \notin passed /\ heard' = heard \cup {m}
  BY DEF Challenges
<1>3. m \in Sent(Peer(e))
  <2>1. 1 \in 1 .. Len(net[e])
    BY <1>1, <1>2, LenProperties, EmptySeq
  <2>. QED
    BY <1>1, <2>1 DEF Sent
<1>4. e = b
  BY <1>1, <1>2, <1>3 DEF Shapes, IsInvite
<1>5. /\ m \in Message /\ m \in Sent(a)
  BY <1>1, <1>3, <1>4, CallerFacts
<1>6. net' = [net EXCEPT ![b] = Tail(net[b]), ![a] = (net[a] \o trying) \o asked]
  BY <1>1, <1>4 DEF Challenges, IInv, Wires
<1>7. net'[b] = Tail(net[b]) /\ net'[a] = (net[a] \o trying) \o asked
  BY <1>1, <1>6 DEF IInv, Wires
<1>8. trying \in Seq(Message) /\ asked \in Seq(Message) /\ net[a] \o trying \in Seq(Message)
  <2>1. Response(m, "Trying") \in Message /\ Response(m, code) \in Message
    BY <1>5, ResponseType DEF Code, Provisional
  <2>2. <<>> \in Seq(Message) /\ \A r \in Message : <<r>> \in Seq(Message)
    OBVIOUS
  <2>3. trying = <<>> \/ trying = <<Response(m, "Trying")>>
    OBVIOUS
  <2>4. asked = <<Response(m, code)>>
    OBVIOUS
  <2>. HIDE DEF m, trying, asked
  <2>5. trying \in Seq(Message) /\ asked \in Seq(Message)
    BY <2>1, <2>2, <2>3, <2>4
  <2>. QED
    BY <1>1, <2>5, ConcatProperties
<1>9. ASSUME NEW n \in Sent(b)'
      PROVE  n \in Sent(b) \/ (Response(n, "Request") = m /\ n.code # "Request")
  <2>1. ASSUME NEW c \in {"Trying"} \cup Challenge
        PROVE  /\ Response(m, c) \in Message /\ Response(m, c).code # "Request"
               /\ Response(Response(m, c), "Request") = m
    <3>1. c \in Code /\ c # "Request" /\ m.code = "Request"
      BY <1>2 DEF Code, Provisional, Challenge, IsInvite
    <3>. QED
      BY <1>5, <3>1, ResponseIs
  <2>2. trying \in Seq(Message) /\ asked \in Seq(Message) /\ net[a] \o trying \in Seq(Message)
    BY <1>8
  <2>3. /\ {trying[i] : i \in 1 .. Len(trying)} \subseteq {Response(m, "Trying")}
        /\ {asked[i] : i \in 1 .. Len(asked)} \subseteq {Response(m, code)}
    OBVIOUS
  <2>. HIDE DEF m, trying, asked
  <2>4. n \in {((net[a] \o trying) \o asked)[i] : i \in 1 .. Len((net[a] \o trying) \o asked)}
    BY <1>1, <1>7 DEF Sent
  <2>5. n \in {(net[a] \o trying)[i] : i \in 1 .. Len(net[a] \o trying)}
              \cup {asked[i] : i \in 1 .. Len(asked)}
    BY <2>2, <2>4, SpokenConcat
  <2>6. n \in ({net[a][i] : i \in 1 .. Len(net[a])} \cup {trying[i] : i \in 1 .. Len(trying)})
              \cup {asked[i] : i \in 1 .. Len(asked)}
    BY <1>1, <2>2, <2>5, SpokenConcat
  <2>7. n \in Sent(b) \/ n = Response(m, "Trying") \/ n = Response(m, code)
    BY <1>1, <2>3, <2>6 DEF Sent
  <2>. QED
    BY <2>1, <2>7
<1>10. Sent(b) \subseteq Sent(b)'
  <2>1. trying \in Seq(Message) /\ asked \in Seq(Message) /\ net[a] \o trying \in Seq(Message)
    BY <1>8
  <2>. HIDE DEF trying, asked
  <2>2. {((net[a] \o trying) \o asked)[i] : i \in 1 .. Len((net[a] \o trying) \o asked)}
         = {(net[a] \o trying)[i] : i \in 1 .. Len(net[a] \o trying)}
              \cup {asked[i] : i \in 1 .. Len(asked)}
    BY <2>1, SpokenConcat
  <2>3. {(net[a] \o trying)[i] : i \in 1 .. Len(net[a] \o trying)}
         = {net[a][i] : i \in 1 .. Len(net[a])} \cup {trying[i] : i \in 1 .. Len(trying)}
    BY <1>1, <2>1, SpokenConcat
  <2>. QED
    BY <1>1, <1>7, <2>2, <2>3 DEF Sent
<1>. HIDE DEF trying, asked
<1>11. Listening(a)
  <2>1. Thinned(net'[b], net[b])
    BY <1>1, <1>2, <1>4, <1>7, ThinnedTail
  <2>. QED
    BY <1>2, <1>5, <2>1 DEF Listening, Known, Running
<1>12. /\ Sent(a)' \subseteq Sent(a)
       /\ Placed(a)' /\ Lone(net[b], passed)' /\ \A c : Over(a, c) => Over(a, c)'
  <2>1. Alike(worker'[a], worker[a])
    BY <1>2 DEF Alike
  <2>. QED
    BY <1>11, <2>1, ListeningKeeps
<1>13. Shapes(a)'
  <2>1. Running(b)' = Running(b)
    BY <1>2 DEF Running
  <2>. QED
    BY <1>1, <1>2, <1>9, <1>12, <2>1 DEF Shapes
<1>14. PassedOn(a)'
  BY <1>2 DEF Lines, PassedOn
<1>15. m \notin Sent(a)'
  <2>1. ASSUME NEW i \in 1 .. Len(Tail(net[b])) PROVE Tail(net[b])[i] # m
    <3>1. /\ Len(net[b]) \in Nat /\ Len(Tail(net[b])) = Len(net[b]) - 1
          /\ Tail(net[b])[i] = net[b][i + 1]
      BY <1>1, <1>2, <1>4, LenProperties, EmptySeq
    <3>2. i + 1 \in 1 .. Len(net[b]) /\ 1 \in 1 .. Len(net[b]) /\ i + 1 # 1
      BY <3>1
    <3>. HIDE DEF m
    <3>3. net[b][1] = m
      BY <1>4 DEF m
    <3>4. Lone(net[b], passed)
      BY DEF Lines
    <3>5. net[b][i + 1] # m
      BY <1>2, <3>2, <3>3, <3>4 DEF Lone
    <3>. QED
      BY <3>1, <3>5
  <2>. QED
    BY <1>7, <2>1 DEF Sent
<1>16. ASSUME NEW n, Unanswered(a, n)'
       PROVE  (Over(a, n.call) \/ Awaits(a, n))'
  <2>1. Unanswered(a, n)
    BY <1>2, <1>12, <1>16 DEF Unanswered, Running
  <2>2. n # m
    <3>1. CASE n \in Sent(a)'
      BY <1>15, <3>1
    <3>2. CASE worker[b].ringing = n
      <4>1. n # Nothing
        BY <2>1, FreeFields DEF Unanswered, IsInvite
      <4>2. n.call \in passed
        BY <3>2, <4>1 DEF Lines, PassedOn
      <4>. QED
        BY <1>2, <4>2
    <3>. QED
      BY <1>2, <1>16, <3>1, <3>2 DEF Unanswered
  <2>3. CASE Awaits(a, n)
    <3>1. \A r \in Sent(b)' : r \in Sent(b) \/ ~Answers(n, r)
      BY <1>9, <2>2 DEF Answers, Response
    <3>2. Awaits(a, n)'
      BY <1>2, <2>3, <3>1 DEF Awaits, Final
    <3>. QED
      BY <3>2
  <2>. QED
    BY <1>12, <2>1, <2>3 DEF Lines, Answerable
<1>17. Answerable(a)'
  BY <1>16 DEF Answerable
<1>18. Repeatable(a)'
  BY <1>2, <1>10 DEF Lines, Repeatable
<1>. QED
  BY <1>12, <1>13, <1>14, <1>17, <1>18 DEF Lines

\* What was answered is forgotten when there is nothing left to answer.
LEMMA ForgetLines ==
  ASSUME NEW a, OnlyCaller(a), Accounted, Lines(a), NEW e \in End, Forget(e)
  PROVE  Lines(a)'
<1>. DEFINE b == Peer(a)
            A == worker[a]
            B == worker[b]
<1>1. /\ a \in End /\ b \in End /\ b # a /\ Peer(b) = a /\ (e = a \/ e = b) /\ IInv /\ Shapes(a)
      /\ A \in Worker /\ B \in Worker
  BY CallerFacts DEF Accounted, Lines, Caller, Callee, Good
<1>2. /\ net' = net /\ UNCHANGED <<heard, passed, open, dialled>> /\ Quiet
      /\ worker' = [worker EXCEPT ![e] = [worker[e] EXCEPT !.kept = {}]]
  BY DEF Forget, IInv, Workers, budgets, history
<1>3. /\ Sent(a)' = Sent(a) /\ Sent(b)' = Sent(b) /\ Known(a)' = Known(a)
      /\ SentByes(a)' = SentByes(a) /\ Running(b)' = Running(b)
  BY <1>2 DEF Sent, Known, SentByes, Running
<1>4. Sent(a) = {} /\ Sent(b) = {}
  <2>1. net[a] = <<>> /\ net[b] = <<>>
    BY <1>1, <1>2 DEF Quiet, End
  <2>. QED
    BY <1>1, <2>1 DEF Sent
<1>5. ASSUME NEW f \in End
      PROVE  /\ worker'[f].call = worker[f].call /\ worker'[f].invite = worker[f].invite
             /\ worker'[f].cancel = worker[f].cancel /\ worker'[f].bye = worker[f].bye
             /\ worker'[f].cancel_wanted = worker[f].cancel_wanted
             /\ worker'[f].held_dial = worker[f].held_dial
             /\ worker'[f].ringing = worker[f].ringing /\ worker'[f].answer = worker[f].answer
             /\ worker'[f].state = worker[f].state /\ worker'[f].reliable = worker[f].reliable
             /\ worker'[f].out = worker[f].out
             /\ worker'[f].kept \subseteq worker[f].kept
  <2>1. worker'[f] = IF f = e THEN [worker[f] EXCEPT !.kept = {}] ELSE worker[f]
    BY <1>1, <1>2 DEF IInv, Workers
  <2>2. worker[f] \in Worker
    BY <1>1, CallerFacts
  <2>. QED
    BY <2>1, <2>2 DEF Worker
<1>6. Calling(A) => Calling(worker'[a])
  BY <1>1, <1>5 DEF Calling
<1>7. Called(B, Running(b)) => Called(worker'[b], Running(b))
  BY <1>1, <1>5 DEF Called
<1>8. Shapes(a)'
  BY <1>1, <1>2, <1>3, <1>5, <1>6, <1>7 DEF Shapes
<1>9. Placed(a)' /\ PassedOn(a)' /\ Lone(net[b], passed)'
  BY <1>1, <1>2, <1>3, <1>5 DEF Lines, Placed, PassedOn, Lone
<1>10. ASSUME NEW n, Unanswered(a, n)'
       PROVE  (Over(a, n.call) \/ Awaits(a, n))'
  <2>1. Unanswered(a, n)
    BY <1>1, <1>3, <1>4, <1>5, <1>10 DEF Unanswered
  <2>2. Over(a, n.call) => Over(a, n.call)'
    BY <1>1, <1>3, <1>5 DEF Over
  <2>3. Awaits(a, n) => Awaits(a, n)'
    BY <1>1, <1>3, <1>5 DEF Awaits
  <2>. QED
    BY <2>1, <2>2, <2>3 DEF Lines, Answerable
<1>11. Answerable(a)'
  BY <1>10 DEF Answerable
<1>12. Repeatable(a)'
  <2>1. Repeatable(a)
    BY DEF Lines
  <2>. QED
    BY <1>1, <1>2, <1>3, <1>4, <1>5, <2>1 DEF Repeatable
<1>. QED
  BY <1>8, <1>9, <1>11, <1>12 DEF Lines

\* A connection made again has on it what each end waits to have answered, or
\* acknowledged.
LEMMA BreakLines ==
  ASSUME NEW a, OnlyCaller(a), Accounted, Lines(a), Break
  PROVE  Lines(a)'
<1>. DEFINE b == Peer(a)
            A == worker[a]
            B == worker[b]
<1>1. /\ a \in End /\ b \in End /\ b # a /\ Peer(b) = a /\ IInv /\ Shapes(a)
      /\ A \in Worker /\ B \in Worker /\ Good(A, heard) /\ Good(B, heard)
      /\ Calling(A) /\ Called(B, Running(b)) /\ A.out = <<>> /\ B.out = <<>>
      /\ open[a] = "running"
  BY CallerFacts DEF Accounted, Lines, Caller, Callee, Good, Shapes
<1>2. /\ worker' = worker /\ UNCHANGED <<heard, passed, open, dialled>>
      /\ net' = [f \in End |-> IF open[f] = "gone" \/ open[Peer(f)] = "gone" THEN <<>>
                               ELSE ConnectionRemade(worker[Peer(f)]).out]
  BY PeerOf DEF Break, history
<1>3. CASE open[b] = "gone"
  <2>1. net'[a] = <<>> /\ net'[b] = <<>>
    BY <1>1, <1>2, <1>3
  <2>2. Sent(b)' = {}
    BY <1>1, <2>1 DEF Sent
  <2>3. Thinned(net'[b], net[b])
    BY <2>1, ThinnedNone
  <2>4. Listening(a)
    BY <1>2, <2>3 DEF Listening, Known, Running
  <2>. QED
    BY <1>2, <1>3, <2>2, <2>4, WireKeeps
<1>4. CASE open[b] # "gone"
  <2>1. /\ net'[b] = ConnectionRemade(A).out /\ net'[a] = ConnectionRemade(B).out
        /\ Sent(a)' = Spoken(ConnectionRemade(A)) /\ Sent(b)' = Spoken(ConnectionRemade(B))
    <3>1. net'[b] = ConnectionRemade(A).out /\ net'[a] = ConnectionRemade(B).out
      BY <1>1, <1>2, <1>4
    <3>. QED
      BY <1>1, <3>1 DEF Sent, Spoken
  <2>2. \A w \in Worker : \A s \in Slots : w[s].request \in Message
    BY DEF Worker, Slots, Slot
  <2>3. /\ Spoken(ConnectionRemade(A)) = {A[s].request : s \in {t \in Slots : A[t] # Free}}
        /\ (\A s \in Slots \ {"invite"} : ~IsInvite(A[s].request))
             => OneInvite(ConnectionRemade(A).out)
        /\ Spoken(ConnectionRemade(B)) = {B[s].request : s \in {t \in Slots : B[t] # Free}}
    BY <1>1, <2>2, SaysAgain
  <2>4. \A s \in Slots \ {"invite"} : ~IsInvite(A[s].request)
    BY <1>1, FreeFields DEF Slots, Calling, Mild, IsInvite, IsBye
  <2>5. ASSUME NEW m \in Sent(a)'
        PROVE  /\ IsInvite(m) => m = A.invite.request
               /\ IsBye(m) => m = A.bye.request
               /\ m.code # "Request" => m.method = "BYE"
    <3>1. m \in {A.invite.request, A.cancel.request, A.bye.request, Nothing}
      BY <1>1, <2>1, <2>3, FreeFields DEF Slots, Calling
    <3>2. ~IsBye(A.invite.request) /\ A.invite.request.code = "Request"
      BY <1>1, FreeFields DEF Good, IsInvite, IsBye
    <3>3. /\ Mild(A.cancel.request) /\ (A.bye.request = Nothing \/ IsBye(A.bye.request))
      BY <1>1 DEF Calling
    <3>. QED
      BY <3>1, <3>2, <3>3, FreeFields DEF Mild, IsBye, IsInvite
  <2>6. ASSUME NEW m \in Sent(b)'
        PROVE  m = B.bye.request \/ m = B.answer.request
    <3>1. PICK s \in Slots : B[s] # Free /\ m = B[s].request
      BY <2>1, <2>3
    <3>2. s \in {"bye", "answer"}
      BY <1>1, <3>1 DEF Slots, Called
    <3>. QED
      BY <3>1, <3>2
  <2>7. ASSUME NEW m \in Sent(b)', m.code = "Request"
        PROVE  IsBye(m)
    <3>1. PICK s \in Slots : B[s] # Free /\ m = B[s].request
      BY <2>1, <2>3
    <3>2. s \in {"bye", "answer"}
      BY <1>1, <3>1 DEF Slots, Called
    <3>3. CASE s = "bye"
      <4>1. Founded(m, heard)
        BY <1>1, <3>1, <3>3 DEF Good, Sound
      <4>. QED
        BY <1>1, <3>1, <3>3, <4>1, FreeFields DEF Called, Founded
    <3>4. CASE s = "answer"
      BY <1>1, <2>7, <3>1, <3>4 DEF Called
    <3>. QED
      BY <3>2, <3>3, <3>4
  <2>8. Running(b)' = Running(b)
    BY <1>2 DEF Running
  <2>9. Shapes(a)'
    BY <1>1, <1>2, <2>5, <2>7, <2>8 DEF Shapes, IsBye
  <2>10. Placed(a)'
    <3>1. Known(a)' \subseteq heard \cup {m \in {A.invite.request} : IsInvite(m)}
      BY <1>2, <2>5 DEF Known
    <3>2. ASSUME IsInvite(A.invite.request)
          PROVE  /\ A.invite.request.call \in 1 .. dialled
                 /\ A.invite.request.call # A.held_dial
                 /\ A.invite.request.cseq <= A.invite.request.cseq
      <4>1. A.invite # Free
        BY <3>2, FreeFields DEF IsInvite
      <4>2. A.invite.request \in Message
        BY <1>1 DEF Worker, Slot
      <4>3. A.invite.request.cseq \in Nat
        BY <4>2 DEF Message
      <4>. QED
        BY <4>1, <4>3, CallerFacts
    <3>3. \A m \in heard : m \in Known(a)
      BY DEF Known
    <3>. QED
      BY <1>2, <3>1, <3>2, <3>3 DEF Lines, Placed
  <2>11. PassedOn(a)'
    BY <1>2 DEF Lines, PassedOn
  <2>12. Lone(net[b], passed)'
    <3>1. Lone(net'[b], passed)
      BY <2>1, <2>3, <2>4 DEF OneInvite, Lone
    <3>. QED
      BY <1>2, <3>1
  <2>13. Repeatable(a)'
    <3>. SUFFICES ASSUME A.reliable, IsInvite(A.invite.request),
                         Answers(A.invite.request, B.answer.request)
                  PROVE  /\ Served(B, A.invite.request) /\ B.answer.request \in Sent(b)'
      BY <1>2, <1>4 DEF Repeatable
    <3>1. Served(B, A.invite.request)
      BY <1>4 DEF Lines, Repeatable
    <3>2. B.answer # Free
      BY FreeFields DEF Answers, Nothing, Request, IsInvite
    <3>. QED
      BY <2>1, <2>3, <3>1, <3>2 DEF Slots
  <2>14. ASSUME NEW n, Unanswered(a, n)'
         PROVE  (Over(a, n.call) \/ Awaits(a, n))'
    <3>1. IsInvite(n) /\ ((n \in Sent(a)' /\ ~Served(B, n)) \/ (Running(b) /\ B.ringing = n))
      BY <1>2, <2>8, <2>14 DEF Unanswered
    <3>2. CASE n = A.invite.request
      <4>1. ASSUME NEW r \in Sent(b)', Final(n, r) PROVE FALSE
        <5>1. r = B.answer.request
          <6>1. r.code # "Request"
            BY <4>1 DEF Final
          <6>2. B.bye.request.code = "Request"
            BY <1>1, FreeFields DEF Called, IsBye
          <6>. QED
            BY <2>6, <6>1, <6>2
        <5>2. B.answer # Free
          BY <3>1, <4>1, <5>1, FreeFields DEF Final
        <5>3. B.ringing = Nothing
          BY <1>1, <5>2 DEF Called
        <5>4. ~Served(B, n)
          BY <3>1, <5>3, FreeFields DEF IsInvite
        <5>5. A.reliable
          <6>1. worker["a"].reliable /\ worker["b"].reliable
            BY DEF Break
          <6>. QED
            BY <1>1, <6>1 DEF End
        <5>. QED
          BY <1>4, <3>1, <3>2, <4>1, <5>1, <5>4, <5>5 DEF Lines, Repeatable, Final
      <4>2. Awaits(a, n)'
        BY <1>2, <3>2, <4>1 DEF Awaits
      <4>. QED
        BY <4>2
    <3>3. CASE n # A.invite.request
      <4>1. Unanswered(a, n)
        BY <2>5, <3>1, <3>3 DEF Unanswered
      <4>2. Over(a, n.call)
        BY <3>3, <4>1 DEF Lines, Answerable, Awaits
      <4>3. Over(a, n.call)'
        BY <1>2, <2>5, <4>2 DEF Over, SentByes
      <4>. QED
        BY <4>3
    <3>. QED
      BY <3>2, <3>3
  <2>15. Answerable(a)'
    BY <2>14 DEF Answerable
  <2>. QED
    BY <2>9, <2>10, <2>11, <2>12, <2>13, <2>15 DEF Lines
<1>. QED
  BY <1>3, <1>4

-----------------------------------------------------------------------------
(* One step of each action.                                                *)

LEMMA AloneTurned ==
  ASSUME IInv, NEW e \in End, NEW w \in Worker, Turns(e, w)
  PROVE  Turned(e, w) /\ net'[e] = net[e] /\ Sent(Peer(e))' = Sent(Peer(e))
<1>1. Turned(e, w) /\ net'[e] = net[e]
  BY TurnedBecomes DEF Turns
<1>2. Peer(Peer(e)) = e
  BY PeerPeer
<1>. QED
  BY <1>1, <1>2 DEF Sent

LEMMA AloneGoes ==
  ASSUME NEW a, OnlyCaller(a), Accounted, Lines(a), NEW w \in Worker, Turns(a, w),
         NEW done \in BOOLEAN, Goes(worker[a], w, done),
         done => \A m : Unanswered(a, m) => ~Awaits(a, m),
         UNCHANGED <<heard, passed, open, dialled>>
  PROVE  Lines(a)'
<1>1. a \in End /\ IInv /\ dialled \in Nat
  BY CallerFacts DEF Accounted
<1>2. Turned(a, w) /\ Sent(Peer(a))' = Sent(Peer(a))
  BY <1>1, AloneTurned
<1>3. Standing /\ dialled' >= dialled /\ StaysAnswered(a)
  BY <1>1, <1>2 DEF Standing, StaysAnswered
<1>4. GoesOn(worker[a], w, done) /\ w.held_dial \in {worker[a].held_dial, NoCall}
  BY DEF Goes
<1>. QED
  BY <1>2, <1>3, <1>4, GoesKeeps

LEMMA AloneServes ==
  ASSUME NEW a, OnlyCaller(a), Accounted, Lines(a), NEW w \in Worker, Turns(Peer(a), w),
         Serves(worker[Peer(a)], w, Nothing, Running(Peer(a))'),
         UNCHANGED <<heard, passed, dialled>>, open'[a] = open[a],
         open[Peer(a)] # "gone", Running(Peer(a))' => Running(Peer(a))
  PROVE  Lines(a)'
<1>. DEFINE b == Peer(a)
<1>1. b \in End /\ Peer(b) = a /\ IInv
  BY CallerFacts DEF Accounted
<1>2. Turned(b, w) /\ net'[b] = net[b]
  BY <1>1, AloneTurned
<1>3. Thinned(net[b], net[b])
  BY <1>1, Kept, ThinnedSame DEF Carried
<1>4. Listening(a)
  BY <1>2, <1>3 DEF Listening, Known
<1>5. IsInvite(Nothing) => Nothing.call \in passed'
  BY FreeFields DEF IsInvite
<1>. QED
  BY <1>2, <1>4, <1>5, ServesKeeps

\* Only a dials.  The number is new, and what it holds is given up for it.
LEMMA DialLines ==
  ASSUME NEW a, OnlyCaller(a), Accounted, Lines(a), NEW e \in End, Dial(e)
  PROVE  Lines(a)'
<1>. DEFINE A == worker[a]
            b == Peer(a)
            number == dialled + 1
            w == PlaceCall(A, number)
            m == Request("INVITE", number, 1)
<1>1. /\ a \in End /\ IInv /\ dialled \in Nat /\ e = a /\ Caller(A, heard)
  BY CallerFacts DEF Accounted, Dial, OnlyCaller
<1>2. /\ dialled < MaxDials /\ dialled' = number /\ Turns(a, w)
      /\ UNCHANGED <<heard, passed, open>>
  BY <1>1 DEF Dial
<1>3. number \in Call /\ number \in Nat
  BY <1>1, <1>2, SipAssumption DEF Call
<1>4. w \in Worker
  BY <1>1, <1>3, GoodPlaceCall DEF Caller, Good
<1>5. \/ GoesOn(A, w, FALSE) /\ (w.held_dial = A.held_dial \/ w.held_dial = number)
      \/ A.invite = Free /\ w.held_dial = A.held_dial /\ Asks(A, w, m)
  BY <1>1, <1>3, CallerPlaces
<1>6. m \in Message /\ m.call = number
  BY <1>3, RequestType, RequestFields
<1>. HIDE DEF w, m
<1>7. Turned(a, w) /\ Sent(b)' = Sent(b)
  BY <1>1, <1>2, <1>4, AloneTurned
<1>8. Standing /\ dialled' >= dialled /\ StaysAnswered(a)
  BY <1>1, <1>2, <1>3, <1>7 DEF Standing, StaysAnswered
<1>9. CASE GoesOn(A, w, FALSE) /\ (w.held_dial = A.held_dial \/ w.held_dial = number)
  <2>1. w.held_dial \in {A.held_dial, NoCall} \/ w.held_dial > dialled
    BY <1>1, <1>9
  <2>. QED
    BY <1>4, <1>7, <1>8, <1>9, <2>1, GoesKeeps
<1>10. CASE A.invite = Free /\ w.held_dial = A.held_dial /\ Asks(A, w, m)
  <2>1. \A n \in Known(a) : n.call # m.call
    BY <1>1, <1>6 DEF Lines, Placed
  <2>2. m \notin heard
    BY <2>1 DEF Known
  <2>3. m.call # w.held_dial
    <3>1. A.held_dial # NoCall => A.held_dial \in 1 .. dialled
      BY CallerFacts
    <3>2. NoCall = 0
      BY FreeFields
    <3>. QED
      BY <1>1, <1>6, <1>10, <3>1, <3>2
  <2>4. ASSUME NEW n, Unanswered(a, n)
        PROVE  ~Awaits(a, n) /\ n.call # m.call
    <3>1. n.call # m.call
      BY <2>1, <2>4, UnansweredCall
    <3>2. n # Nothing
      BY <2>4, FreeFields DEF Unanswered, IsInvite
    <3>. QED
      BY <1>10, <3>1, <3>2, FreeFields DEF Awaits
  <2>5. m.call \in 1 .. dialled'
    BY <1>1, <1>2, <1>6
  <2>. QED
    BY <1>4, <1>6, <1>7, <1>8, <1>10, <2>1, <2>2, <2>3, <2>4, <2>5, AsksAnew
<1>. QED
  BY <1>5, <1>9, <1>10

\* Nothing rings at the end that dials.
LEMMA AnswerLines ==
  ASSUME NEW a, OnlyCaller(a), Accounted, Lines(a), NEW e \in End, NEW usable, Answer(e, usable)
  PROVE  Lines(a)'
<1>. DEFINE b == Peer(a)
            w == AcceptCall(worker[b], usable)
<1>1. /\ b \in End /\ (e = a \/ e = b) /\ Callee(worker[b], heard, Running(b))
      /\ worker[a].ringing = Nothing
  BY CallerFacts DEF Caller, Calling
<1>2. /\ e = b /\ open[b] = "running" /\ worker[b].ringing # Nothing /\ Turns(b, w)
      /\ UNCHANGED <<heard, passed, open, dialled>>
  BY <1>1 DEF Answer, Running, budgets
<1>3. Running(b) = TRUE /\ Running(b)' = TRUE
  BY <1>2 DEF Running
<1>4. Callee(worker[b], heard, TRUE)
  BY <1>1, <1>3
<1>5. w \in Worker
  BY <1>2, <1>4, GoodAcceptCall DEF Callee, Good
<1>6. Serves(worker[b], w, Nothing, TRUE)
  BY <1>2, <1>4, CalleeAnswers
<1>. HIDE DEF w
<1>7. Serves(worker[b], w, Nothing, Running(b)')
  BY <1>3, <1>6
<1>. QED
  BY <1>2, <1>3, <1>5, <1>7, AloneServes

LEMMA HangUpLines ==
  ASSUME NEW a, OnlyCaller(a), Accounted, Lines(a), NEW e \in End, HangUp(e)
  PROVE  Lines(a)'
<1>. DEFINE A == worker[a]
            b == Peer(a)
            w == EndCall(worker[e])
<1>1. /\ a \in End /\ b \in End /\ (e = a \/ e = b) /\ Callee(worker[b], heard, Running(b))
      /\ Caller(A, heard)
      /\ A.invite # Free => ~A.call.established
  BY CallerFacts
<1>2. /\ open[e] = "running" /\ Turns(e, w) /\ UNCHANGED <<heard, passed, open, dialled>>
  BY DEF HangUp, Running, budgets
<1>3. w \in Worker
  <2>1. Good(worker[e], heard)
    BY <1>1 DEF Caller, Callee
  <2>. QED
    BY <2>1, GoodEndCall DEF Good
<1>4. CASE e = a
  <2>1. CASE A.call.established
    <3>1. Goes(A, w, TRUE)
      <4>1. Goes(A, EndCall(A), TRUE)
        BY <1>1, <2>1, CallerEnds
      <4>. QED
        BY <1>4, <4>1
    <3>2. A.invite = Free
      BY <1>1, <2>1
    <3>3. ASSUME NEW m, Unanswered(a, m) PROVE ~Awaits(a, m)
      BY <3>2, <3>3, FreeFields DEF Unanswered, Awaits, IsInvite
    <3>. HIDE DEF w
    <3>. QED
      BY <1>2, <1>3, <1>4, <3>1, <3>3, AloneGoes
  <2>2. CASE ~A.call.established
    <3>1. Goes(A, w, FALSE)
      <4>1. Goes(A, EndCall(A), FALSE)
        BY <1>1, <2>2, CallerEnds
      <4>. QED
        BY <1>4, <4>1
    <3>. HIDE DEF w
    <3>. QED
      BY <1>2, <1>3, <1>4, <3>1, AloneGoes
  <2>. QED
    BY <2>1, <2>2
<1>5. CASE e = b
  <2>1. Running(b) = TRUE /\ Running(b)' = TRUE
    BY <1>2, <1>5 DEF Running
  <2>2. Callee(worker[b], heard, TRUE)
    BY <1>1, <2>1
  <2>3. Serves(worker[b], w, Nothing, TRUE)
    BY <1>5, <2>2, CalleeEnds
  <2>. HIDE DEF w
  <2>4. Serves(worker[b], w, Nothing, Running(b)')
    BY <2>1, <2>3
  <2>. QED
    BY <1>2, <1>3, <1>5, <2>1, <2>4, AloneServes
<1>. QED
  BY <1>1, <1>4, <1>5

\* The end that dials stays.
LEMMA QuitLines ==
  ASSUME NEW a, OnlyCaller(a), Accounted, Lines(a), NEW e \in End, e # a, Quit(e)
  PROVE  Lines(a)'
<1>. DEFINE b == Peer(a)
            B == worker[b]
            w == IF B.call = NoDialog THEN B ELSE SendBye(B)
<1>1. /\ a \in End /\ b \in End /\ b # a /\ (e = a \/ e = b) /\ Callee(B, heard, Running(b))
      /\ IInv /\ e = b
  BY CallerFacts DEF Accounted
<1>2. /\ open[b] = "running" /\ Turns(b, w) /\ UNCHANGED <<heard, passed, dialled>>
      /\ open' = [open EXCEPT ![b] = "leaving"]
  BY <1>1 DEF Quit, Running
<1>3. open'[b] = "leaving" /\ open'[a] = open[a]
  BY <1>1, <1>2 DEF IInv, Counted
<1>4. Running(b)' = FALSE
  BY <1>3 DEF Running
<1>5. w \in Worker
  BY <1>1, GoodSendBye DEF Callee, Good
<1>6. Serves(B, w, Nothing, FALSE)
  BY <1>1, CalleeByes
<1>. HIDE DEF w
<1>7. Serves(B, w, Nothing, Running(b)')
  BY <1>4, <1>6
<1>. QED
  BY <1>2, <1>3, <1>4, <1>5, <1>7, AloneServes

LEMMA ResendLines ==
  ASSUME NEW a, OnlyCaller(a), Accounted, Lines(a), NEW e \in End, NEW slot \in Slots,
         ResendOne(e, slot)
  PROVE  Lines(a)'
<1>. DEFINE A == worker[a]
            b == Peer(a)
            B == worker[b]
            w == Resend(worker[e], slot)
<1>1. /\ a \in End /\ b \in End /\ b # a /\ Peer(b) = a /\ (e = a \/ e = b) /\ IInv /\ Shapes(a)
      /\ Callee(B, heard, Running(b)) /\ Caller(A, heard) /\ A.reliable = B.reliable
      /\ dialled \in Nat
  BY CallerFacts DEF Accounted, Lines, Shapes
<1>2. /\ open[e] = "running" /\ Quiet /\ Resends(worker[e], slot) /\ ~worker[e].reliable
      /\ Turns(e, w) /\ UNCHANGED <<heard, passed, open, dialled>>
  BY DEF ResendOne, Running, budgets, Resends
<1>3. w \in Worker
  <2>1. Good(worker[e], heard)
    BY <1>1 DEF Caller, Callee
  <2>. QED
    BY <1>2, <2>1, GoodResend DEF Good
<1>4. Sent(a) = {} /\ Sent(b) = {}
  <2>1. net[a] = <<>> /\ net[b] = <<>>
    BY <1>1, <1>2 DEF Quiet, End
  <2>. QED
    BY <1>1, <2>1 DEF Sent
<1>5. CASE e = a
  <2>1. Goes(A, w, FALSE) \/ (A.invite # Free /\ Asks(A, w, A.invite.request))
    <3>1. \/ Goes(A, Resend(A, slot), FALSE)
          \/ (A.invite # Free /\ Asks(A, Resend(A, slot), A.invite.request))
      BY <1>1, <1>2, <1>5, CallerResends
    <3>. QED
      BY <1>5, <3>1
  <2>. HIDE DEF w
  <2>2. CASE Goes(A, w, FALSE)
    BY <1>2, <1>3, <1>5, <2>2, AloneGoes
  <2>3. CASE A.invite # Free /\ Asks(A, w, A.invite.request)
    <3>. DEFINE m == A.invite.request
    <3>1. Turned(a, w) /\ Sent(b)' = Sent(b)
      BY <1>1, <1>2, <1>3, <1>5, AloneTurned
    <3>2. /\ A.call # NoDialog /\ IsInvite(m) /\ m.call = A.call.call
          /\ m.call \in 1 .. dialled /\ m.call # A.held_dial
      BY <2>3, CallerFacts
    <3>3. m \in Message
      BY <1>1, CallerFields
    <3>4. m.call # w.held_dial /\ m.call \in 1 .. dialled' /\ Standing /\ dialled' >= dialled
      BY <1>1, <1>2, <2>3, <3>2, FreeFields DEF Asks, Standing
    <3>5. \A n \in Known(a) : n.call = m.call => n.cseq <= m.cseq
      BY DEF Lines, Placed
    <3>6. \A n : Unanswered(a, n) => n = m \/ (Over(a, n.call) /\ n.call # m.call)
      BY <3>2 DEF Lines, Answerable, Awaits, Over
    <3>. HIDE DEF m
    <3>. QED
      BY <1>2, <1>3, <1>4, <1>5, <1>1, <2>3, <3>1, <3>3, <3>4, <3>5, <3>6, AsksKeeps DEF m
  <2>. QED
    BY <2>1, <2>2, <2>3
<1>6. CASE e = b
  <2>1. Running(b) = TRUE /\ Running(b)' = TRUE
    BY <1>2, <1>6 DEF Running
  <2>2. Callee(B, heard, TRUE)
    BY <1>1, <2>1
  <2>3. Serves(B, Resend(B, slot), Nothing, TRUE) \/ B.answer # Free
    BY <1>2, <1>6, <2>2, CalleeResends
  <2>4. CASE Serves(B, Resend(B, slot), Nothing, TRUE)
    <3>1. Serves(B, w, Nothing, Running(b)')
      BY <1>6, <2>1, <2>4
    <3>. HIDE DEF w
    <3>. QED
      BY <1>2, <1>3, <1>6, <2>1, <3>1, AloneServes
  <2>5. CASE B.answer # Free
    <3>1. ~A.reliable /\ Turns(b, Resend(B, slot)) /\ Resends(B, slot)
      BY <1>1, <1>2, <1>6
    <3>. QED
      BY <1>2, <2>1, <2>5, <3>1, AnswersAgainKeeps
  <2>. QED
    BY <2>3, <2>4, <2>5
<1>. QED
  BY <1>1, <1>5, <1>6

LEMMA ExpireLines ==
  ASSUME NEW a, OnlyCaller(a), Accounted, Lines(a), NEW e \in End, NEW slot \in Slots,
         ExpireOne(e, slot)
  PROVE  Lines(a)'
<1>. DEFINE A == worker[a]
            b == Peer(a)
            B == worker[b]
            w == Expire(worker[e], slot)
<1>1. /\ a \in End /\ b \in End /\ (e = a \/ e = b)
      /\ Callee(B, heard, Running(b)) /\ Caller(A, heard)
  BY CallerFacts
<1>2. /\ open[e] = "running" /\ Expires(worker[e], slot)
      /\ Turns(e, w) /\ UNCHANGED <<heard, passed, open, dialled>>
  BY DEF ExpireOne, Running, budgets
<1>3. w \in Worker
  <2>1. Good(worker[e], heard)
    BY <1>1 DEF Caller, Callee
  <2>. QED
    BY <2>1, GoodExpire DEF Good
<1>4. CASE e = a
  <2>1. Goes(A, w, FALSE)
    <3>1. Goes(A, Expire(A, slot), FALSE)
      BY <1>1, <1>2, <1>4, CallerExpires
    <3>. QED
      BY <1>4, <3>1
  <2>. HIDE DEF w
  <2>. QED
    BY <1>2, <1>3, <1>4, <2>1, AloneGoes
<1>5. CASE e = b
  <2>1. Running(b) = TRUE /\ Running(b)' = TRUE
    BY <1>2, <1>5 DEF Running
  <2>2. Callee(B, heard, TRUE)
    BY <1>1, <2>1
  <2>3. Serves(B, Expire(B, slot), Nothing, TRUE)
    BY <1>2, <1>5, <2>2, CalleeExpires
  <2>4. Serves(B, w, Nothing, Running(b)')
    BY <1>5, <2>1, <2>3
  <2>. HIDE DEF w
  <2>. QED
    BY <1>2, <1>3, <1>5, <2>1, <2>4, AloneServes
<1>. QED
  BY <1>1, <1>4, <1>5

\* Only the end that dials holds a number.
LEMMA HeldLines ==
  ASSUME NEW a, OnlyCaller(a), Accounted, Lines(a), NEW e \in End, HeldIsServed(e) \/ HeldTooLong(e)
  PROVE  Lines(a)'
<1>. DEFINE A == worker[a]
            b == Peer(a)
<1>1. /\ a \in End /\ b \in End /\ (e = a \/ e = b) /\ IInv
      /\ Callee(worker[b], heard, Running(b)) /\ Caller(A, heard) /\ dialled \in Nat
      /\ 1 .. dialled \subseteq Call
  BY CallerFacts DEF Accounted
<1>2. e = a /\ A.held_dial # NoCall /\ UNCHANGED <<heard, passed, open, dialled>>
  <2>1. worker[b].held_dial = NoCall
    BY <1>1 DEF Callee, Called
  <2>. QED
    BY <1>1, <2>1 DEF HeldIsServed, HeldTooLong, budgets
<1>3. CASE HeldTooLong(e)
  <2>. DEFINE w == GiveUpHeldDial(A)
  <2>1. Turns(a, w)
    BY <1>2, <1>3 DEF HeldTooLong
  <2>2. w \in Worker /\ Goes(A, w, FALSE)
    BY <1>1, CallerGivesUp, GoodGiveUpHeldDial DEF Caller, Good
  <2>. HIDE DEF w
  <2>. QED
    BY <1>2, <2>1, <2>2, AloneGoes
<1>4. CASE HeldIsServed(e)
  <2>. DEFINE w == ServeHeldDial(A)
              m == Request("INVITE", A.held_dial, 1)
  <2>1. Turns(a, w) /\ ~StillGettingRidOfACall(A)
    BY <1>2, <1>4 DEF HeldIsServed
  <2>2. A.held_dial \in 1 .. dialled /\ A.held_dial \in Call
    BY <1>1, <1>2, CallerFacts
  <2>3. w \in Worker
    BY <1>1, GoodServeHeldDial DEF Caller, Good
  <2>4. \/ Goes(A, w, FALSE)
        \/ A.invite = Free /\ w.held_dial = NoCall /\ Asks(A, w, m)
    BY <1>1, <2>1, <2>2, CallerServes
  <2>5. m \in Message /\ m.call = A.held_dial
    BY <2>2, RequestType, RequestFields
  <2>. HIDE DEF w, m
  <2>6. CASE Goes(A, w, FALSE)
    BY <1>2, <2>1, <2>3, <2>6, AloneGoes
  <2>7. CASE A.invite = Free /\ w.held_dial = NoCall /\ Asks(A, w, m)
    <3>1. Turned(a, w) /\ Sent(b)' = Sent(b)
      BY <1>1, <2>1, <2>3, AloneTurned
    <3>2. Standing /\ dialled' >= dialled
      BY <1>1, <1>2 DEF Standing
    <3>3. \A n \in Known(a) : n.call # m.call
      BY <2>5 DEF Lines, Placed
    <3>4. m \notin heard
      BY <3>3 DEF Known
    <3>5. m.call # w.held_dial /\ m.call \in 1 .. dialled'
      BY <1>2, <2>2, <2>5, <2>7
    <3>6. ASSUME NEW n, Unanswered(a, n)
          PROVE  ~Awaits(a, n) /\ n.call # m.call
      <4>1. n.call # m.call
        BY <3>3, <3>6, UnansweredCall
      <4>2. n # Nothing
        BY <3>6, FreeFields DEF Unanswered, IsInvite
      <4>. QED
        BY <2>7, <4>1, <4>2, FreeFields DEF Awaits
    <3>. QED
      BY <2>3, <2>5, <2>7, <3>1, <3>2, <3>3, <3>4, <3>5, <3>6, AsksAnew
  <2>. QED
    BY <2>4, <2>6, <2>7
<1>. QED
  BY <1>3, <1>4

\* A message that comes to a.
LEMMA TakesA ==
  ASSUME NEW a, OnlyCaller(a), Accounted, Lines(a), NEW i \in 1 .. Len(net[a]), NEW readable,
         NEW left \in Seq(Message), Takes(a, i, readable, left),
         \A j \in 1 .. Len(left) : left[j] \in Sent(Peer(a)),
         worker[a].reliable =>
           Sent(Peer(a)) \subseteq {left[j] : j \in 1 .. Len(left)} \cup {net[a][i]}
  PROVE  Lines(a)'
<1>. DEFINE A == worker[a]
            b == Peer(a)
            B == worker[b]
            m == net[a][i]
            w == Handle(A, m, readable)
            q == A.invite.request
            again == [q EXCEPT !.cseq = q.cseq + 1]
<1>1. /\ a \in End /\ b \in End /\ Peer(b) = a /\ IInv /\ Shapes(a) /\ Caller(A, heard)
      /\ dialled \in Nat
  BY CallerFacts DEF Accounted, Lines
<1>2. m \in Sent(b) /\ m \in Message /\ Founded(m, heard)
  <2>1. m \in Sent(b)
    BY <1>1 DEF Sent
  <2>. HIDE DEF m
  <2>. QED
    BY <1>1, <2>1, CallerFacts
<1>3. m.code = "Request" => IsBye(m)
  BY <1>1, <1>2 DEF Shapes, IsBye
<1>4. ~IsInvite(m) /\ Invites(m) = {}
  BY <1>3 DEF IsInvite, IsBye, Invites
<1>5. Standing /\ dialled' = dialled /\ Becomes(a, w, left)
  <2>1. heard' = heard \cup Invites(m) /\ passed' = passed \cup {n.call : n \in Invites(m)}
    BY DEF Takes
  <2>2. heard' = heard /\ passed' = passed
    BY <1>4, <2>1
  <2>. QED
    BY <1>1, <2>2 DEF Takes, Standing
<1>6. w \in Worker
  BY <1>1, <1>2, <1>4, GoodHandle DEF Caller, Good
<1>7. \/ Goes(A, w, FALSE)
      \/ /\ Final(q, m)
         /\ Goes(A, w, TRUE) \/ Asks(A, w, again)
  <2>1. CASE m.code = "Request"
    <3>1. w = HandleRequest(A, m)
      BY <2>1 DEF Handle
    <3>2. Goes(A, HandleRequest(A, m), FALSE)
      BY <1>1, <1>2, <1>3, <2>1, CallerBye
    <3>. QED
      BY <3>1, <3>2
  <2>2. CASE m.code # "Request"
    <3>1. w = HandleResponse(A, m, readable)
      BY <2>2 DEF Handle
    <3>. HIDE DEF m, w
    <3>2. \/ Goes(A, HandleResponse(A, m, readable), FALSE)
          \/ /\ Final(q, m)
             /\ \/ Goes(A, HandleResponse(A, m, readable), TRUE)
                \/ Asks(A, HandleResponse(A, m, readable), again)
      BY <1>1, <1>2, <2>2, CallerResponse
    <3>. QED
      BY <3>1, <3>2
  <2>. QED
    BY <2>1, <2>2
<1>8. Answers(q, m) /\ m.code = "OK" => w.invite = Free
  <2>. SUFFICES ASSUME Answers(q, m), m.code = "OK" PROVE w.invite = Free
    OBVIOUS
  <2>1. w = HandleResponse(A, m, readable) /\ m.code # "Request"
    BY DEF Handle
  <2>. HIDE DEF m, w
  <2>2. HandleResponse(A, m, readable).invite = Free
    BY <1>1, <1>2, <2>1, CallerResponse
  <2>. QED
    BY <2>1, <2>2
<1>9. Turned(a, w) /\ Sent(b)' = {left[j] : j \in 1 .. Len(left)} /\ Sent(b)' \subseteq Sent(b)
  <2>. HIDE DEF w
  <2>1. Turned(a, w) /\ Sent(b)' = {left[j] : j \in 1 .. Len(left)}
    BY <1>1, <1>5, <1>6, TurnedBecomes
  <2>. QED
    BY <2>1
<1>. HIDE DEF m, w
<1>10. ASSUME NEW n, Unanswered(a, n), Final(q, m) PROVE ~Awaits(a, n)
  BY <1>2, <1>10 DEF Awaits
<1>11. CASE \E done \in BOOLEAN : Goes(A, w, done) /\ (done => Final(q, m))
  <2>1. PICK done \in BOOLEAN : Goes(A, w, done) /\ (done => Final(q, m))
    BY <1>11
  <2>2. GoesOn(A, w, done) /\ w.held_dial \in {A.held_dial, NoCall}
    BY <2>1 DEF Goes
  <2>3. worker'[a].invite.request = w.invite.request /\ worker'[b] = B
    BY <1>9 DEF Turned, Alike
  <2>4. ASSUME A.reliable, IsInvite(w.invite.request),
               Answers(w.invite.request, B.answer.request), B.answer.request \in Sent(b)
        PROVE  B.answer.request \in Sent(b)'
    <3>1. w.invite # Free
      BY <2>4, FreeFields DEF IsInvite
    <3>2. w.invite.request = q
      BY <2>2, <3>1 DEF GoesOn
    <3>3. B.answer # Free
      <4>1. ~Answers(w.invite.request, Nothing)
        BY <2>4 DEF Answers, Nothing, Request, IsInvite
      <4>. QED
        BY <2>4, <4>1, FreeFields
    <3>4. B.answer.request.code = "OK"
      BY <1>1, <3>3 DEF Shapes, Called
    <3>5. B.answer.request # m
      BY <1>8, <2>4, <3>1, <3>2, <3>4
    <3>6. Sent(b) \subseteq {left[j] : j \in 1 .. Len(left)} \cup {m}
      BY <2>4 DEF m
    <3>. QED
      BY <1>9, <2>4, <3>5, <3>6
  <2>5. StaysAnswered(a)
    BY <2>3, <2>4 DEF StaysAnswered
  <2>. QED
    BY <1>1, <1>5, <1>6, <1>9, <1>10, <2>1, <2>2, <2>5, GoesKeeps
<1>12. CASE Final(q, m) /\ Asks(A, w, again)
  <2>1. A.invite # Free
    <3>1. ~Final(Nothing, m)
      BY <1>2, NothingIsAnswered DEF Founded
    <3>. QED
      BY <1>12, <3>1, FreeFields
  <2>2. /\ A.call # NoDialog /\ IsInvite(q) /\ q.call = A.call.call
        /\ A.call.call \in 1 .. dialled /\ A.call.call # A.held_dial
    BY <2>1, CallerFacts
  <2>3. q \in Message
    BY <1>1, CallerFields
  <2>4. /\ again \in Message /\ again.call = q.call /\ again.cseq = q.cseq + 1 /\ q.cseq \in Nat
    BY <2>3 DEF Message
  <2>5. \A n \in Known(a) : n.call = again.call => n.cseq <= q.cseq /\ n.cseq \in Nat
    <3>1. \A n \in Known(a) : n \in Message
      BY <1>1, CallerFacts DEF Known, IInv
    <3>. QED
      BY <2>4, <3>1 DEF Lines, Placed, Message
  <2>6. again \notin heard
    <3>. HIDE DEF again, q
    <3>1. q.cseq + 1 > q.cseq
      BY <2>4
    <3>2. again \notin Known(a)
      BY <2>4, <2>5, <3>1
    <3>. QED
      BY <3>2 DEF Known
  <2>7. \A n \in Known(a) : n.call = again.call => n.cseq <= again.cseq
    BY <2>4, <2>5
  <2>8. \A n : Unanswered(a, n) => ~Awaits(a, n) /\ (n.call # again.call \/ ~Over(a, n.call))
    BY <1>10, <1>12, <2>2, <2>4 DEF Over
  <2>9. w.held_dial \in {A.held_dial, NoCall}
    BY <1>12 DEF Asks
  <2>10. again.call \in 1 .. dialled' /\ again.call # w.held_dial /\ dialled' >= dialled
    BY <1>1, <1>5, <2>2, <2>4, <2>9, FreeFields
  <2>. HIDE DEF again, q
  <2>. QED
    BY <1>5, <1>6, <1>9, <1>12, <2>4, <2>6, <2>7, <2>8, <2>10, AsksAnew
<1>. QED
  BY <1>7, <1>11, <1>12

\* A message that comes to the other end.
LEMMA TakesB ==
  ASSUME NEW a, OnlyCaller(a), Accounted, Lines(a), NEW i \in 1 .. Len(net[Peer(a)]), NEW readable,
         NEW left \in Seq(Message), Takes(Peer(a), i, readable, left),
         Thinned(left, net[Peer(a)])
  PROVE  Lines(a)'
<1>. DEFINE A == worker[a]
            b == Peer(a)
            B == worker[b]
            m == net[b][i]
            w == Handle(B, m, readable)
<1>1. /\ a \in End /\ b \in End /\ Peer(b) = a /\ IInv /\ Shapes(a)
      /\ Callee(B, heard, Running(b)) /\ dialled \in Nat /\ Good(B, heard)
  BY CallerFacts DEF Accounted, Lines, Callee
<1>2. m \in Sent(a) /\ m \in Message /\ Founded(m, heard)
  <2>1. m \in Sent(a)
    BY <1>1 DEF Sent
  <2>. HIDE DEF m
  <2>. QED
    BY <1>1, <2>1, CallerFacts
<1>3. /\ heard' = heard \cup Invites(m) /\ passed' = passed \cup {n.call : n \in Invites(m)}
      /\ open' = open /\ dialled' = dialled /\ Becomes(b, w, left)
  BY DEF Takes
<1>4. /\ heard \subseteq heard' /\ heard' \subseteq Known(a) /\ passed \subseteq passed'
      /\ IsInvite(m) => m \in heard'
      /\ IsInvite(m) => m.call \in passed'
  BY <1>2, <1>3 DEF Invites, Known
<1>5. w \in Worker
  <2>1. Founded(m, heard') /\ Good(B, heard')
    BY <1>1, <1>2, <1>4, FoundedStays, GoodStays
  <2>. DEFINE H == heard'
  <2>2. H = heard'
    OBVIOUS
  <2>. HIDE DEF m, H
  <2>3. Good(w, H)
    BY <1>2, <1>4, <2>1, <2>2, GoodHandle
  <2>. QED
    BY <2>3 DEF Good
<1>. HIDE DEF m
<1>6. Serves(B, w, m, Running(b))
  <2>1. CASE m.code = "Request"
    <3>1. IsInvite(m) => m.call # NoCall
      <4>1. IsInvite(m) => m.call \in 1 .. dialled
        BY <1>2 DEF Lines, Placed, Known
      <4>. QED
        BY <1>1, <4>1, FreeFields
    <3>2. ASSUME Running(b), IsBye(m), B.ringing # Nothing
          PROVE  m.call # B.ringing.call
      <4>1. IsInvite(B.ringing) /\ m \in SentByes(a)
        BY <1>1, <1>2, <3>2 DEF Good, SentByes
      <4>2. Unanswered(a, B.ringing)
        BY <3>2, <4>1 DEF Unanswered
      <4>3. CASE Over(a, B.ringing.call)
        BY <4>1, <4>3 DEF Over
      <4>4. CASE Awaits(a, B.ringing)
        <5>1. A.invite.request = B.ringing /\ A.invite # Free
          BY <4>1, <4>4, FreeFields DEF Awaits, IsInvite
        <5>2. B.ringing.call = A.call.call /\ m.call # A.call.call
          BY <4>1, <5>1, CallerFacts
        <5>. QED
          BY <5>2
      <4>. QED
        BY <4>2, <4>3, <4>4 DEF Lines, Answerable
    <3>3. Serves(B, HandleRequest(B, m), m, Running(b))
      BY <1>1, <1>2, <2>1, <3>1, <3>2, CalleeRequest DEF Founded
    <3>4. w = HandleRequest(B, m)
      BY <2>1 DEF Handle
    <3>. QED
      BY <3>3, <3>4
  <2>2. CASE m.code # "Request"
    <3>1. m.method = "BYE"
      BY <1>1, <1>2, <2>2 DEF Shapes
    <3>2. Serves(B, HandleResponse(B, m, readable), m, Running(b))
      BY <1>1, <1>2, <2>2, <3>1, CalleeResponse
    <3>3. w = HandleResponse(B, m, readable)
      BY <2>2 DEF Handle
    <3>. QED
      BY <3>2, <3>3
  <2>. QED
    BY <2>1, <2>2
<1>. HIDE DEF w
<1>7. Turned(b, w) /\ net'[b] = left
  BY <1>1, <1>3, <1>5, TurnedBecomes
<1>8. Running(b)' = Running(b) /\ Listening(a)
  <2>1. Running(b)' = Running(b)
    BY <1>3 DEF Running
  <2>. QED
    BY <1>3, <1>4, <1>7, <2>1 DEF Listening
<1>9. Serves(B, w, m, Running(b)')
  BY <1>6, <1>8
<1>. QED
  BY <1>2, <1>4, <1>5, <1>7, <1>8, <1>9, ServesKeeps

LEMMA ReceiveLines ==
  ASSUME NEW a, OnlyCaller(a), Accounted, Lines(a), NEW e \in End, NEW readable,
         Receive(e, readable)
  PROVE  Lines(a)'
<1>1. /\ a \in End /\ (e = a \/ e = Peer(a))
      /\ IInv /\ net[e] # <<>> /\ Takes(e, 1, readable, Tail(net[e]))
  BY CallerFacts DEF Accounted, Receive
<1>2. /\ net[e] \in Seq(Message) /\ Tail(net[e]) \in Seq(Message) /\ 1 \in 1 .. Len(net[e])
      /\ \A j \in 1 .. Len(Tail(net[e])) : Tail(net[e])[j] \in Sent(Peer(e))
  BY <1>1, SentLeft
<1>3. CASE e = a
  <2>1. Sent(Peer(a)) \subseteq {Tail(net[a])[j] : j \in 1 .. Len(Tail(net[a]))} \cup {net[a][1]}
    <3>. DEFINE s == net[a]
                t == Tail(s)
    <3>1. /\ Len(s) \in Nat /\ Len(s) >= 1 /\ Len(t) = Len(s) - 1
          /\ \A k \in 1 .. Len(t) : t[k] = s[k + 1]
      BY <1>1, <1>2, <1>3, LenProperties, EmptySeq
    <3>2. Sent(Peer(a)) = {s[k] : k \in 1 .. Len(s)}
      BY <1>1, <1>3, PeerPeer DEF Sent
    <3>. HIDE DEF s, t
    <3>3. ASSUME NEW k \in 1 .. Len(s)
          PROVE  s[k] \in {t[j] : j \in 1 .. Len(t)} \cup {s[1]}
      <4>1. CASE k = 1
        BY <4>1
      <4>2. CASE k # 1
        <5>1. k - 1 \in 1 .. Len(t) /\ k - 1 + 1 = k
          BY <3>1, <4>2
        <5>. QED
          BY <3>1, <5>1
      <4>. QED
        BY <4>1, <4>2
    <3>4. Sent(Peer(a)) \subseteq {t[j] : j \in 1 .. Len(t)} \cup {s[1]}
      BY <3>2, <3>3
    <3>. QED
      BY <3>4 DEF s, t
  <2>. QED
    BY <1>1, <1>2, <1>3, <2>1, TakesA
<1>4. CASE e = Peer(a)
  <2>1. Thinned(Tail(net[e]), net[e])
    BY <1>1, <1>2, ThinnedTail
  <2>. QED
    BY <1>1, <1>2, <1>4, <2>1, TakesB
<1>. QED
  BY <1>1, <1>3, <1>4

LEMMA RepeatLines ==
  ASSUME NEW a, OnlyCaller(a), Accounted, Lines(a), NEW e \in End, NEW readable, Repeat(e, readable)
  PROVE  Lines(a)'
<1>1. /\ a \in End /\ (e = a \/ e = Peer(a))
      /\ IInv /\ net[e] # <<>> /\ Takes(e, 1, readable, net[e]) /\ ~worker[e].reliable
  BY CallerFacts DEF Accounted, Repeat, Lossy
<1>2. /\ net[e] \in Seq(Message) /\ 1 \in 1 .. Len(net[e])
      /\ \A j \in 1 .. Len(net[e]) : net[e][j] \in Sent(Peer(e))
  BY <1>1, SentLeft
<1>3. CASE e = a
  BY <1>1, <1>2, <1>3, TakesA
<1>4. CASE e = Peer(a)
  <2>1. Thinned(net[e], net[e])
    BY <1>2, ThinnedSame
  <2>. QED
    BY <1>1, <1>2, <1>4, <2>1, TakesB
<1>. QED
  BY <1>1, <1>3, <1>4

LEMMA OvertakeLines ==
  ASSUME NEW a, OnlyCaller(a), Accounted, Lines(a), NEW e \in End, NEW readable,
         Overtake(e, readable)
  PROVE  Lines(a)'
<1>1. /\ a \in End /\ (e = a \/ e = Peer(a))
      /\ IInv /\ Len(net[e]) > 1 /\ Takes(e, 2, readable, Without(net[e], 2))
      /\ ~worker[e].reliable
  BY CallerFacts DEF Accounted, Overtake, Lossy
<1>2. net[e] \in Seq(Message)
  BY <1>1, Kept DEF Carried
<1>3. /\ Thinned(Without(net[e], 2), net[e]) /\ Without(net[e], 2) \in Seq(Message)
      /\ 2 \in 1 .. Len(net[e])
  BY <1>1, <1>2, ThinnedSecond, LenProperties
<1>4. CASE e = a
  <2>. DEFINE left == Without(net[e], 2)
  <2>1. left \in Seq(Message) /\ Takes(a, 2, readable, left)
    BY <1>1, <1>3, <1>4
  <2>2. \A j \in 1 .. Len(left) : left[j] \in Sent(Peer(a))
    <3>1. Sent(Peer(a)) = {net[e][k] : k \in 1 .. Len(net[e])}
      BY <1>1, <1>4, PeerPeer DEF Sent
    <3>2. {left[j] : j \in 1 .. Len(left)} \subseteq {net[e][k] : k \in 1 .. Len(net[e])}
      BY <1>3, ThinnedSent
    <3>. HIDE DEF left
    <3>. QED
      BY <3>1, <3>2
  <2>. HIDE DEF left
  <2>. QED
    BY <1>1, <1>3, <1>4, <2>1, <2>2, TakesA
<1>5. CASE e = Peer(a)
  BY <1>1, <1>3, <1>5, TakesB
<1>. QED
  BY <1>1, <1>4, <1>5

-----------------------------------------------------------------------------
(* Theorems.                                                               *)

LEMMA StartsLines ==
  ASSUME NEW a, OnlyCaller(a), Init
  PROVE  Lines(a)
<1>. DEFINE b == Peer(a)
            A == worker[a]
            B == worker[b]
<1>1. a \in End /\ b \in End /\ Peer(b) = a
  BY PeerOf, PeerPeer DEF OnlyCaller
<1>2. PICK reliable : A = NewWorker(reliable) /\ B = NewWorker(reliable)
  BY <1>1 DEF Init
<1>3. /\ net[b] = <<>> /\ Sent(a) = {} /\ Sent(b) = {} /\ heard = {}
      /\ open[a] = "running" /\ open[b] = "running"
  BY <1>1 DEF Init, Sent
<1>4. Calling(NewWorker(reliable)) /\ \A running : Called(NewWorker(reliable), running)
  BY FreeFields DEF Calling, Called, NewWorker, Mild, IsInvite, IsBye
<1>5. Shapes(a)
  <2>1. A.reliable = B.reliable /\ A.out = <<>> /\ B.out = <<>>
    BY <1>2 DEF NewWorker
  <2>2. Calling(A) /\ Called(B, Running(b))
    BY <1>2, <1>4
  <2>. QED
    BY <1>3, <2>1, <2>2 DEF Shapes
<1>6. Known(a) = {} /\ Lone(net[b], passed) /\ Placed(a)
  BY <1>3 DEF Known, Lone, Placed
<1>7. PassedOn(a)
  BY <1>2 DEF PassedOn, NewWorker
<1>8. Answerable(a) /\ Repeatable(a)
  <2>1. B.ringing = Nothing /\ A.invite.request = Nothing
    BY <1>2, FreeFields DEF NewWorker
  <2>2. \A m : ~Unanswered(a, m)
    BY <1>3, <2>1, FreeFields DEF Unanswered, IsInvite
  <2>. QED
    BY <2>1, <2>2, FreeFields DEF Answerable, Repeatable, IsInvite
<1>. QED
  BY <1>5, <1>6, <1>7, <1>8 DEF Lines

\* A program that runs has been running all along.
LEMMA RunningBefore ==
  ASSUME IInv, NEW a \in End, [Next]_vars, Running(a)'
  PROVE  /\ Running(a)
         /\ ~Quit(a)
<1>1. open \in [End -> {"running", "leaving", "gone"}] /\ open'[a] = "running"
  BY DEF IInv, Counted, Running
<1>2. ASSUME NEW e \in End, Quit(e) PROVE e # a /\ open[a] = "running"
  <2>1. open' = [open EXCEPT ![e] = "leaving"]
    BY <1>2 DEF Quit
  <2>. QED
    BY <1>1, <2>1
<1>3. ASSUME NEW e \in End, Leave(e) PROVE open[a] = "running"
  <2>1. open' = [open EXCEPT ![e] = "gone"]
    BY <1>3 DEF Leave
  <2>. QED
    BY <1>1, <2>1
<1>4. open' = open \/ (\E e \in End : Quit(e)) \/ (\E e \in End : Leave(e))
  <2>1. CASE UNCHANGED vars
    BY <2>1 DEF vars
  <2>2. ASSUME NEW e \in End, Dial(e) \/ HangUp(e) \/ Lose(e) \/ HeldTooLong(e) \/ Forget(e)
        PROVE  open' = open
    BY <2>2 DEF Dial, HangUp, Lose, HeldTooLong, Forget
  <2>3. ASSUME NEW e \in End, NEW usable, Answer(e, usable) PROVE open' = open
    BY <2>3 DEF Answer
  <2>4. ASSUME NEW e \in End, NEW readable,
               Overtake(e, readable) \/ Repeat(e, readable) \/ Receive(e, readable)
        PROVE  open' = open
    BY <2>4 DEF Overtake, Repeat, Receive, Takes
  <2>5. ASSUME NEW e \in End, NEW code, Challenges(e, code) PROVE open' = open
    BY <2>5 DEF Challenges
  <2>6. ASSUME NEW e \in End, NEW slot, ResendOne(e, slot) \/ ExpireOne(e, slot)
        PROVE  open' = open
    BY <2>6 DEF ResendOne, ExpireOne
  <2>7. ASSUME NEW e \in End, HeldIsServed(e) PROVE open' = open
    BY <2>7 DEF HeldIsServed
  <2>8. Break => open' = open
    BY DEF Break
  <2>9. System => open' = open \/ \E e \in End : Leave(e)
    BY <2>4, <2>6, <2>7 DEF System
  <2>. QED
    BY <2>1, <2>2, <2>3, <2>4, <2>5, <2>8, <2>9 DEF Next
<1>. QED
  BY <1>1, <1>2, <1>3, <1>4 DEF Running

LEMMA StepsLines ==
  ASSUME NEW a, OnlyCaller(a), Accounted, Lines(a), [Next]_vars, ~Quit(a)
  PROVE  Lines(a)'
<1>1. CASE UNCHANGED vars
  BY <1>1, StutterLines
<1>2. ASSUME NEW e \in End,
             Dial(e) \/ HangUp(e) \/ Quit(e) \/ Lose(e) \/ HeldTooLong(e) \/ Forget(e)
      PROVE  Lines(a)'
  <2>1. CASE Quit(e)
    BY <2>1, QuitLines
  <2>. QED
    BY <1>2, <2>1, DialLines, HangUpLines, LoseLines, HeldLines, ForgetLines
<1>3. ASSUME NEW e \in End, NEW usable \in BOOLEAN, Answer(e, usable) PROVE Lines(a)'
  BY <1>3, AnswerLines
<1>4. ASSUME NEW e \in End, NEW readable \in BOOLEAN,
             Overtake(e, readable) \/ Repeat(e, readable) \/ Receive(e, readable)
      PROVE  Lines(a)'
  BY <1>4, OvertakeLines, RepeatLines, ReceiveLines
<1>5. ASSUME NEW e \in End, NEW code \in Challenge, Challenges(e, code) PROVE Lines(a)'
  BY <1>5, ChallengesLines
<1>6. ASSUME System PROVE Lines(a)'
  <2>1. PICK e \in End :
          \/ \E readable \in BOOLEAN : Receive(e, readable)
          \/ \E slot \in Slots : ResendOne(e, slot) \/ ExpireOne(e, slot)
          \/ HeldIsServed(e) \/ Leave(e)
    BY <1>6 DEF System
  <2>. QED
    BY <1>4, <2>1, ResendLines, ExpireLines, HeldLines, LeaveLines
<1>7. ASSUME Break PROVE Lines(a)'
  BY <1>7, BreakLines
<1>. QED
  BY <1>1, <1>2, <1>3, <1>4, <1>5, <1>6, <1>7 DEF Next

\* What the two lines are is what the window shows and what a call that is over
\* leaves behind.
LEMMA LinesTell ==
  ASSUME NEW a, OnlyCaller(a), Lines(a)
  PROVE  StateIsTrue /\ NothingRingsOn
<1>1. Calling(worker[a]) /\ Called(worker[Peer(a)], Running(Peer(a)))
  BY DEF Lines, Shapes
<1>2. a \in End /\ \A e \in End : e = a \/ e = Peer(a)
  BY PeerPeer DEF OnlyCaller
<1>. QED
  BY <1>1, <1>2 DEF Calling, Called, StateIsTrue, NothingRingsOn

\* The state that "the window watches to know when a call has ended" is idle when
\* there is no call and only then, and says that a call is up when one is and
\* only then, in every state of both lines: whatever crosses on the way, however
\* often an INVITE is sent again, challenged or answered, whatever the users do
\* meanwhile (place_call, invite_answered, incoming_invite, accept_call, decline,
\* finish_call), and although finish_call leaves what rings alone where there was
\* a call.  That needs one end to dial, and goes for as long as its program has
\* not been closed: the BYE of one that is, while the other telephone rings, is
\* the one way to leave it ringing for no call.
THEOREM StateTold ==
  ASSUME NEW a \in End, Callers \subseteq {a}
  PROVE  Spec => [](Running(a) => StateIsTrue /\ NothingRingsOn)
<1>. DEFINE Inv == Accounted /\ (Running(a) => Lines(a))
<1>1. OnlyCaller(a) /\ Unmixed
  BY DEF OnlyCaller, Unmixed, OneDials
<1>2. Init => Inv
  BY <1>1, StartsAccounted, StartsLines
<1>3. Inv /\ [Next]_vars => Inv'
  <2>. SUFFICES ASSUME Inv, [Next]_vars PROVE Inv'
    OBVIOUS
  <2>1. Accounted'
    BY <1>1, StepsAccounted
  <2>2. ASSUME Running(a)' PROVE Lines(a)'
    <3>1. Running(a) /\ ~Quit(a)
      BY <2>2, RunningBefore DEF Accounted
    <3>. QED
      BY <1>1, <3>1, StepsLines
  <2>. QED
    BY <2>1, <2>2
<1>4. Inv => (Running(a) => StateIsTrue /\ NothingRingsOn)
  BY <1>1, LinesTell
<1>. QED
  BY <1>2, <1>3, <1>4, PTL DEF Spec

=============================================================================
