----------------------------- MODULE SipProofs ------------------------------
(***************************************************************************)
(* What holds of the lines of Sip for every number of dials, resends,      *)
(* faults and challenges, for either transport and whoever dials or quits: *)
(* the types, and that a CANCEL always comes after its INVITE.             *)
(***************************************************************************)
EXTENDS Sip, SequenceTheorems, TLAPS

\* What a message owes to the INVITEs H that came to the far end: a response
\* to an INVITE is an answer to one of them, a CANCEL cancels one of them.
Founded(m, H) ==
  /\ m.method # "None"
  /\ m.code # "Request" /\ m.method = "INVITE" => Response(m, "Request") \in H
  /\ m.code = "Request" /\ m.method = "CANCEL" => [m EXCEPT !.method = "INVITE"] \in H

Sound(slot, H) == slot = Free \/ Founded(slot.request, H)

Good(w, H) ==
  /\ w \in Worker
  /\ w.invite = Free \/ IsInvite(w.invite.request)
  /\ w.invite.prov => w.invite.request \in H
  /\ Sound(w.cancel, H) /\ Sound(w.bye, H) /\ Sound(w.answer, H)
  /\ w.ringing = Nothing \/ (w.ringing \in H /\ IsInvite(w.ringing))
  /\ \A r \in w.kept : Founded(r, H)
  /\ \A i \in 1 .. Len(w.out) : Founded(w.out[i], H)

-----------------------------------------------------------------------------
(* Messages and slots.                                                     *)

LEMMA RequestType ==
  ASSUME NEW method \in {"None", "INVITE", "ACK", "CANCEL", "BYE"},
         NEW call \in Call \cup {NoCall}, NEW cseq \in Nat
  PROVE  Request(method, call, cseq) \in Message
BY DEF Request, Message, Code

LEMMA FreeType ==
  /\ Free \in Slot /\ ~Free.prov /\ Free.request = Nothing
  /\ Nothing \in Message /\ NoCall \in Call \cup {NoCall}
BY SipAssumption, RequestType DEF Free, Pending, Slot, Nothing, NoCall, AUTH_ATTEMPTS

LEMMA PendingType ==
  ASSUME NEW m \in Message
  PROVE  Pending(m) \in Slot /\ Pending(m).request = m /\ ~Pending(m).prov
BY SipAssumption DEF Pending, Slot, AUTH_ATTEMPTS

LEMMA ResponseType ==
  ASSUME NEW m \in Message, NEW code \in Code
  PROVE  /\ Response(m, code) \in Message
         /\ Response(m, code).method = m.method /\ Response(m, code).code = code
         /\ Response(Response(m, code), "Request") = Response(m, "Request")
BY DEF Response, Message, Code

\* A response that goes with a request copies all of it.
LEMMA AnswersAlike ==
  ASSUME NEW request \in Message, NEW response \in Message, Answers(request, response)
  PROVE  /\ request = Response(response, "Request")
         /\ request.code = "Request" /\ response.method = request.method
         /\ response.call = request.call
BY DEF Answers, Response, Message

-----------------------------------------------------------------------------
(* What is said and told.                                                  *)

LEMMA GoodSay ==
  ASSUME NEW H, NEW w, Good(w, H), NEW m \in Message, Founded(m, H)
  PROVE  Good(Say(w, m), H)
<1>. DEFINE v == Say(w, m)
<1>1. w \in Worker /\ w.out \in Seq(Message)
  BY DEF Good, Worker
<1>. Append(w.out, m) \in Seq(Message)
  BY <1>1
<1>2. v \in Worker
  BY <1>1 DEF Say, Worker
<1>3. v.out = Append(w.out, m)
  BY <1>1 DEF Say, Worker
<1>4. \A i \in 1 .. Len(v.out) : Founded(v.out[i], H)
  BY <1>1, <1>3 DEF Good
<1>5. /\ v.invite = w.invite /\ v.cancel = w.cancel /\ v.bye = w.bye
      /\ v.answer = w.answer /\ v.ringing = w.ringing /\ v.kept = w.kept
  BY <1>1 DEF Say, Worker
<1>. QED
  BY <1>2, <1>4, <1>5 DEF Good

LEMMA GoodTell ==
  ASSUME NEW H, NEW w, Good(w, H), NEW word \in Word, NEW call \in Call \cup {NoCall}
  PROVE  Good(Tell(w, word, call), H)
<1>. DEFINE v == Tell(w, word, call)
<1>1. w \in Worker /\ w.told \in Seq(Word \X (Call \cup {NoCall}))
  BY DEF Good, Worker
<1>2. Append(w.told, <<word, call>>) \in Seq(Word \X (Call \cup {NoCall}))
  BY <1>1
<1>3. v \in Worker
  BY <1>1, <1>2 DEF Tell, Worker
<1>5. /\ v.invite = w.invite /\ v.cancel = w.cancel /\ v.bye = w.bye /\ v.out = w.out
      /\ v.answer = w.answer /\ v.ringing = w.ringing /\ v.kept = w.kept
  BY <1>1 DEF Tell, Worker
<1>. QED
  BY <1>3, <1>5 DEF Good

-----------------------------------------------------------------------------
(* The methods, in the order of SipAgent: each keeps a worker Good.        *)

\* A worker that holds no more than a good one is as good.
LEMMA GoodAgain ==
  ASSUME NEW H, NEW w, Good(w, H), NEW v \in Worker,
         v.invite = w.invite \/ v.invite = Free, v.cancel = w.cancel \/ v.cancel = Free,
         v.bye = w.bye \/ v.bye = Free, v.answer = w.answer \/ v.answer = Free,
         v.ringing = w.ringing \/ v.ringing = Nothing, v.kept = w.kept \/ v.kept = {},
         v.out = w.out
  PROVE  Good(v, H)
<1>1. Sound(v.cancel, H) /\ Sound(v.bye, H) /\ Sound(v.answer, H)
  BY DEF Good, Sound
<1>2. v.invite = Free \/ IsInvite(v.invite.request)
  BY DEF Good
<1>3. v.invite.prov => v.invite.request \in H
  BY FreeType DEF Good
<1>4. v.ringing = Nothing \/ (v.ringing \in H /\ IsInvite(v.ringing))
  BY DEF Good
<1>5. /\ \A r \in v.kept : Founded(r, H)
      /\ \A i \in 1 .. Len(v.out) : Founded(v.out[i], H)
  BY DEF Good
<1>. QED
  BY <1>1, <1>2, <1>3, <1>4, <1>5 DEF Good

LEMMA SetState ==
  ASSUME NEW H, NEW w, Good(w, H), NEW state \in State
  PROVE  Good([w EXCEPT !.state = state], H)
<1>. DEFINE v == [w EXCEPT !.state = state]
<1>1. w \in Worker
  BY DEF Good
<1>2. v \in Worker
  BY <1>1 DEF Worker
<1>3. /\ v.invite = w.invite /\ v.cancel = w.cancel /\ v.bye = w.bye /\ v.answer = w.answer
      /\ v.ringing = w.ringing /\ v.kept = w.kept /\ v.out = w.out
  BY <1>1 DEF Worker
<1>. HIDE DEF v
<1>4. Good(v, H)
  BY <1>2, <1>3, GoodAgain
<1>. QED
  BY <1>4 DEF v

LEMMA SetHeld ==
  ASSUME NEW H, NEW w, Good(w, H), NEW number \in Call \cup {NoCall}
  PROVE  Good([w EXCEPT !.held_dial = number], H)
<1>. DEFINE v == [w EXCEPT !.held_dial = number]
<1>1. w \in Worker
  BY DEF Good
<1>2. v \in Worker
  BY <1>1 DEF Worker
<1>3. /\ v.invite = w.invite /\ v.cancel = w.cancel /\ v.bye = w.bye /\ v.answer = w.answer
      /\ v.ringing = w.ringing /\ v.kept = w.kept /\ v.out = w.out
  BY <1>1 DEF Worker
<1>. HIDE DEF v
<1>4. Good(v, H)
  BY <1>2, <1>3, GoodAgain
<1>. QED
  BY <1>4 DEF v

LEMMA SetWanted ==
  ASSUME NEW H, NEW w, Good(w, H)
  PROVE  Good([w EXCEPT !.cancel_wanted = TRUE, !.state = "cancelling"], H)
<1>. DEFINE v == [w EXCEPT !.cancel_wanted = TRUE, !.state = "cancelling"]
<1>1. w \in Worker
  BY DEF Good
<1>2. v \in Worker
  BY <1>1 DEF Worker, State
<1>3. /\ v.invite = w.invite /\ v.cancel = w.cancel /\ v.bye = w.bye /\ v.answer = w.answer
      /\ v.ringing = w.ringing /\ v.kept = w.kept /\ v.out = w.out
  BY <1>1 DEF Worker
<1>. HIDE DEF v
<1>4. Good(v, H)
  BY <1>2, <1>3, GoodAgain
<1>. QED
  BY <1>4 DEF v

LEMMA SetFree ==
  ASSUME NEW H, NEW w, Good(w, H)
  PROVE  /\ Good([w EXCEPT !.cancel = Free], H)
         /\ Good([w EXCEPT !.bye = Free], H)
         /\ Good([w EXCEPT !.ringing = Nothing], H)
         /\ Good([w EXCEPT !.kept = {}], H)
<1>1. Good([w EXCEPT !.cancel = Free], H)
  <2>. DEFINE v == [w EXCEPT !.cancel = Free]
  <2>1. w \in Worker
    BY DEF Good
  <2>2. v \in Worker
    BY FreeType, <2>1 DEF Worker
  <2>3. /\ v.invite = w.invite /\ v.cancel = Free /\ v.bye = w.bye /\ v.answer = w.answer
        /\ v.ringing = w.ringing /\ v.kept = w.kept /\ v.out = w.out
    BY <2>1 DEF Worker
  <2>. HIDE DEF v
  <2>4. Good(v, H)
    BY <2>2, <2>3, GoodAgain
  <2>. QED
    BY <2>4 DEF v
<1>2. Good([w EXCEPT !.bye = Free], H)
  <2>. DEFINE v == [w EXCEPT !.bye = Free]
  <2>1. w \in Worker
    BY DEF Good
  <2>2. v \in Worker
    BY FreeType, <2>1 DEF Worker
  <2>3. /\ v.invite = w.invite /\ v.cancel = w.cancel /\ v.bye = Free /\ v.answer = w.answer
        /\ v.ringing = w.ringing /\ v.kept = w.kept /\ v.out = w.out
    BY <2>1 DEF Worker
  <2>. HIDE DEF v
  <2>4. Good(v, H)
    BY <2>2, <2>3, GoodAgain
  <2>. QED
    BY <2>4 DEF v
<1>3. Good([w EXCEPT !.ringing = Nothing], H)
  <2>. DEFINE v == [w EXCEPT !.ringing = Nothing]
  <2>1. w \in Worker
    BY DEF Good
  <2>2. v \in Worker
    BY FreeType, <2>1 DEF Worker
  <2>3. /\ v.invite = w.invite /\ v.cancel = w.cancel /\ v.bye = w.bye /\ v.answer = w.answer
        /\ v.ringing = Nothing /\ v.kept = w.kept /\ v.out = w.out
    BY <2>1 DEF Worker
  <2>. HIDE DEF v
  <2>4. Good(v, H)
    BY <2>2, <2>3, GoodAgain
  <2>. QED
    BY <2>4 DEF v
<1>4. Good([w EXCEPT !.kept = {}], H)
  <2>. DEFINE v == [w EXCEPT !.kept = {}]
  <2>1. w \in Worker
    BY DEF Good
  <2>2. v \in Worker
    BY <2>1 DEF Worker
  <2>3. /\ v.invite = w.invite /\ v.cancel = w.cancel /\ v.bye = w.bye /\ v.answer = w.answer
        /\ v.ringing = w.ringing /\ v.kept = {} /\ v.out = w.out
    BY <2>1 DEF Worker
  <2>. HIDE DEF v
  <2>4. Good(v, H)
    BY <2>2, <2>3, GoodAgain
  <2>. QED
    BY <2>4 DEF v
<1>. QED
  BY <1>1, <1>2, <1>3, <1>4

LEMMA SetInvite ==
  ASSUME NEW H, NEW w, Good(w, H), NEW slot \in Slot, IsInvite(slot.request),
         slot.prov => slot.request \in H
  PROVE  Good([w EXCEPT !.invite = slot], H)
<1>. DEFINE v == [w EXCEPT !.invite = slot]
<1>1. w \in Worker
  BY DEF Good
<1>2. v \in Worker
  BY <1>1 DEF Worker
<1>3. /\ v.invite = slot /\ v.cancel = w.cancel /\ v.bye = w.bye /\ v.answer = w.answer
      /\ v.ringing = w.ringing /\ v.kept = w.kept /\ v.out = w.out
  BY <1>1 DEF Worker
<1>. HIDE DEF v
<1>4. Good(v, H)
  BY <1>2, <1>3 DEF Good
<1>. QED
  BY <1>4 DEF v

LEMMA SetAnswer ==
  ASSUME NEW H, NEW w, Good(w, H), NEW slot \in Slot, Sound(slot, H)
  PROVE  Good([w EXCEPT !.answer = slot], H)
<1>. DEFINE v == [w EXCEPT !.answer = slot]
<1>1. w \in Worker
  BY DEF Good
<1>2. v \in Worker
  BY <1>1 DEF Worker
<1>3. /\ v.invite = w.invite /\ v.cancel = w.cancel /\ v.bye = w.bye /\ v.answer = slot
      /\ v.ringing = w.ringing /\ v.kept = w.kept /\ v.out = w.out
  BY <1>1 DEF Worker
<1>. HIDE DEF v
<1>4. Good(v, H)
  BY <1>2, <1>3 DEF Good
<1>. QED
  BY <1>4 DEF v

LEMMA SetBye ==
  ASSUME NEW H, NEW w, Good(w, H), NEW slot \in Slot, Sound(slot, H)
  PROVE  Good([w EXCEPT !.bye = slot], H)
<1>. DEFINE v == [w EXCEPT !.bye = slot]
<1>1. w \in Worker
  BY DEF Good
<1>2. v \in Worker
  BY <1>1 DEF Worker
<1>3. /\ v.invite = w.invite /\ v.cancel = w.cancel /\ v.bye = slot /\ v.answer = w.answer
      /\ v.ringing = w.ringing /\ v.kept = w.kept /\ v.out = w.out
  BY <1>1 DEF Worker
<1>. HIDE DEF v
<1>4. Good(v, H)
  BY <1>2, <1>3 DEF Good
<1>. QED
  BY <1>4 DEF v

LEMMA SetCancel ==
  ASSUME NEW H, NEW w, Good(w, H), w.invite # Free, NEW slot \in Slot, Sound(slot, H)
  PROVE  Good([w EXCEPT !.invite.cancelled = TRUE, !.cancel = slot,
                        !.cancel_wanted = FALSE, !.state = "cancelling"], H)
<1>. DEFINE gone == [w.invite EXCEPT !.cancelled = TRUE]
<1>1. /\ gone \in Slot /\ gone.request = w.invite.request /\ gone.prov = w.invite.prov
      /\ [w EXCEPT !.invite.cancelled = TRUE, !.cancel = slot,
                   !.cancel_wanted = FALSE, !.state = "cancelling"]
         = [w EXCEPT !.invite = gone, !.cancel = slot,
                     !.cancel_wanted = FALSE, !.state = "cancelling"]
  BY DEF Good, Worker, Slot
<1>2. IsInvite(gone.request) /\ (gone.prov => gone.request \in H)
  BY <1>1 DEF Good
<1>3. ASSUME NEW invite \in Slot, IsInvite(invite.request),
             invite.prov => invite.request \in H
      PROVE  Good([w EXCEPT !.invite = invite, !.cancel = slot,
                            !.cancel_wanted = FALSE, !.state = "cancelling"], H)
  <2>. DEFINE v == [w EXCEPT !.invite = invite, !.cancel = slot,
                             !.cancel_wanted = FALSE, !.state = "cancelling"]
  <2>1. w \in Worker /\ v \in Worker
    <3>1. w \in Worker
      BY DEF Good
    <3>. QED
      BY <3>1 DEF Worker, State
  <2>2. /\ v.invite = invite /\ v.cancel = slot /\ v.answer = w.answer /\ v.bye = w.bye
        /\ v.ringing = w.ringing /\ v.kept = w.kept /\ v.out = w.out
    BY <2>1 DEF Worker
  <2>. HIDE DEF v
  <2>3. Good(v, H)
    BY <1>3, <2>1, <2>2 DEF Good
  <2>. QED
    BY <2>3 DEF v
<1>. HIDE DEF gone
<1>. QED
  BY <1>1, <1>2, <1>3

LEMMA SetNotCancelled ==
  ASSUME NEW H, NEW w, Good(w, H)
  PROVE  Good([w EXCEPT !.cancel = Free, !.cancel_wanted = FALSE], H)
<1>. DEFINE v == [w EXCEPT !.cancel = Free, !.cancel_wanted = FALSE]
<1>1. w \in Worker
  BY DEF Good
<1>2. v \in Worker
  BY FreeType, <1>1 DEF Worker
<1>3. /\ v.invite = w.invite /\ v.cancel = Free /\ v.bye = w.bye /\ v.answer = w.answer
      /\ v.ringing = w.ringing /\ v.kept = w.kept /\ v.out = w.out
  BY <1>1 DEF Worker
<1>. HIDE DEF v
<1>4. Good(v, H)
  BY <1>2, <1>3, GoodAgain
<1>. QED
  BY <1>4 DEF v

LEMMA SetNoCall ==
  ASSUME NEW H, NEW w, Good(w, H)
  PROVE  /\ Good([w EXCEPT !.call = NoDialog, !.state = "idle"], H)
         /\ Good([w EXCEPT !.ringing = Nothing, !.call = NoDialog, !.state = "idle"], H)
<1>1. NoDialog \in [call : Call \cup {NoCall}, cseq : Nat, invite_cseq : Nat,
                    established : BOOLEAN]
  BY FreeType DEF NoDialog, Dialog
<1>2. Good([w EXCEPT !.call = NoDialog, !.state = "idle"], H)
  <2>. DEFINE v == [w EXCEPT !.call = NoDialog, !.state = "idle"]
  <2>1. w \in Worker
    BY DEF Good
  <2>2. v \in Worker
    BY <1>1, <2>1 DEF Worker, State
  <2>3. /\ v.invite = w.invite /\ v.cancel = w.cancel /\ v.bye = w.bye /\ v.answer = w.answer
        /\ v.ringing = w.ringing /\ v.kept = w.kept /\ v.out = w.out
    BY <2>1 DEF Worker
  <2>. HIDE DEF v
  <2>4. Good(v, H)
    BY <2>2, <2>3, GoodAgain
  <2>. QED
    BY <2>4 DEF v
<1>3. Good([w EXCEPT !.ringing = Nothing, !.call = NoDialog, !.state = "idle"], H)
  <2>. DEFINE v == [w EXCEPT !.ringing = Nothing, !.call = NoDialog, !.state = "idle"]
  <2>1. w \in Worker
    BY DEF Good
  <2>2. v \in Worker
    BY <1>1, FreeType, <2>1 DEF Worker, State
  <2>3. /\ v.invite = w.invite /\ v.cancel = w.cancel /\ v.bye = w.bye /\ v.answer = w.answer
        /\ v.ringing = Nothing /\ v.kept = w.kept /\ v.out = w.out
    BY <2>1 DEF Worker
  <2>. HIDE DEF v
  <2>4. Good(v, H)
    BY <2>2, <2>3, GoodAgain
  <2>. QED
    BY <2>4 DEF v
<1>. QED
  BY <1>2, <1>3

LEMMA SetCall ==
  ASSUME NEW H, NEW w, Good(w, H), NEW call \in Call \cup {NoCall}, NEW slot \in Slot,
         IsInvite(slot.request), ~slot.prov
  PROVE  Good([w EXCEPT !.call = Dialog(call, 1), !.invite = slot, !.state = "dialling"], H)
<1>1. Dialog(call, 1) \in [call : Call \cup {NoCall}, cseq : Nat, invite_cseq : Nat,
                          established : BOOLEAN]
  BY DEF Dialog
<1>2. ASSUME NEW c \in [call : Call \cup {NoCall}, cseq : Nat, invite_cseq : Nat,
                        established : BOOLEAN]
      PROVE  Good([w EXCEPT !.call = c, !.invite = slot, !.state = "dialling"], H)
  <2>. DEFINE v == [w EXCEPT !.call = c, !.invite = slot, !.state = "dialling"]
  <2>1. w \in Worker
    BY DEF Good
  <2>2. v \in Worker
    BY <2>1 DEF Worker, State
  <2>3. /\ v.invite = slot /\ v.cancel = w.cancel /\ v.bye = w.bye /\ v.answer = w.answer
        /\ v.ringing = w.ringing /\ v.kept = w.kept /\ v.out = w.out
    BY <2>1 DEF Worker
  <2>. HIDE DEF v
  <2>4. Good(v, H)
    BY <2>2, <2>3 DEF Good
  <2>. QED
    BY <2>4 DEF v
<1>. QED
  BY <1>1, <1>2

LEMMA SetUp ==
  ASSUME NEW H, NEW w, Good(w, H), NEW up \in BOOLEAN
  PROVE  Good([w EXCEPT !.call.established = up, !.state = "answered"], H)
<1>. DEFINE v == [w EXCEPT !.call.established = up, !.state = "answered"]
<1>1. w \in Worker /\ v \in Worker
  <2>1. w \in Worker
    BY DEF Good
  <2>. QED
    BY <2>1 DEF Worker, State
<1>2. /\ v.invite = w.invite /\ v.cancel = w.cancel /\ v.answer = w.answer /\ v.bye = w.bye
      /\ v.ringing = w.ringing /\ v.kept = w.kept /\ v.out = w.out
  BY <1>1 DEF Worker
<1>. HIDE DEF v
<1>3. Good(v, H)
  BY <1>1, <1>2 DEF Good
<1>. QED
  BY <1>3 DEF v

LEMMA SetRinging ==
  ASSUME NEW H, NEW w, Good(w, H), NEW request \in H, request \in Message, IsInvite(request)
  PROVE  Good([w EXCEPT !.call = Dialog(request.call, request.cseq), !.ringing = request,
                        !.state = "ringing here"], H)
<1>. DEFINE dialog == Dialog(request.call, request.cseq)
<1>1. dialog \in [call : Call \cup {NoCall}, cseq : Nat, invite_cseq : Nat,
                  established : BOOLEAN]
  BY DEF Message, Dialog
<1>2. ASSUME NEW c \in [call : Call \cup {NoCall}, cseq : Nat, invite_cseq : Nat,
                        established : BOOLEAN]
      PROVE  Good([w EXCEPT !.call = c, !.ringing = request, !.state = "ringing here"], H)
  <2>. DEFINE v == [w EXCEPT !.call = c, !.ringing = request, !.state = "ringing here"]
  <2>1. w \in Worker
    BY DEF Good
  <2>2. v \in Worker
    BY <2>1 DEF Worker, State
  <2>3. /\ v.invite = w.invite /\ v.cancel = w.cancel /\ v.bye = w.bye /\ v.answer = w.answer
        /\ v.ringing = request /\ v.kept = w.kept /\ v.out = w.out
    BY <2>1 DEF Worker
  <2>. HIDE DEF v
  <2>4. Good(v, H)
    BY <2>2, <2>3 DEF Good
  <2>. QED
    BY <2>4 DEF v
<1>. QED
  BY <1>1, <1>2

LEMMA SlotOf ==
  ASSUME NEW H, NEW m \in Message, Founded(m, H)
  PROVE  Pending(m) \in Slot /\ Sound(Pending(m), H) /\ Sound(Free, H) /\ Free \in Slot
BY PendingType, FreeType DEF Sound

LEMMA GoodRemember ==
  ASSUME NEW H, NEW w, Good(w, H), NEW m \in Message, Founded(m, H)
  PROVE  Good(Remember(w, m), H)
BY DEF Good, Worker, Remember

LEMMA GoodRespond ==
  ASSUME NEW H, NEW w, Good(w, H), NEW request \in Message, NEW code \in Code \ {"Request"},
         request.code = "Request", request.method # "None",
         request.method = "INVITE" => request \in H
  PROVE  Good(Respond(w, request, code), H)
<1>. DEFINE response == Response(request, code)
            sent     == Remember(Say(w, response), response)
<1>1. response \in Message /\ response.method = request.method /\ response.code = code
  BY ResponseType
<1>2. Response(response, "Request") = request
  BY ResponseType DEF Response, Message
<1>3. Founded(response, H)
  BY <1>1, <1>2 DEF Founded
<1>4. Good(sent, H)
  BY <1>1, <1>3, GoodSay, GoodRemember
<1>5. Good([sent EXCEPT !.answer = Pending(response)], H)
  BY <1>1, <1>3, <1>4, SlotOf, SetAnswer
<1>. QED
  BY <1>4, <1>5 DEF Respond

LEMMA GoodFinishCall ==
  ASSUME NEW H, NEW w, Good(w, H)
  PROVE  Good(FinishCall(w), H)
<1>. DEFINE over  == [w EXCEPT !.call = NoDialog, !.invite = Free, !.cancel = Free,
                               !.cancel_wanted = FALSE, !.answer = Free,
                               !.ringing = IF w.call = NoDialog THEN Nothing ELSE @]
            ended == IF w.call # NoDialog THEN w.call.call ELSE w.ringing.call
<1>1. Good(over, H)
  <2>1. w \in Worker /\ over \in Worker
    <3>1. w \in Worker
      BY DEF Good
    <3>2. NoDialog \in [call : Call \cup {NoCall}, cseq : Nat, invite_cseq : Nat,
                        established : BOOLEAN]
      BY FreeType DEF NoDialog, Dialog
    <3>. DEFINE ringing == IF w.call = NoDialog THEN Nothing ELSE w.ringing
    <3>3. ringing \in Message
      BY <3>1, FreeType DEF Worker
    <3>4. over = [w EXCEPT !.call = NoDialog, !.invite = Free, !.cancel = Free,
                           !.cancel_wanted = FALSE, !.answer = Free, !.ringing = ringing]
      BY <3>1 DEF Worker
    <3>. HIDE DEF ringing
    <3>5. [w EXCEPT !.call = NoDialog, !.invite = Free, !.cancel = Free,
                    !.cancel_wanted = FALSE, !.answer = Free, !.ringing = ringing] \in Worker
      BY <3>1, <3>2, <3>3, FreeType DEF Worker
    <3>. HIDE DEF over
    <3>. QED
      BY <3>1, <3>4, <3>5
  <2>2. /\ over.invite = Free /\ over.cancel = Free /\ over.answer = Free
        /\ over.bye = w.bye /\ over.ringing \in {w.ringing, Nothing}
        /\ over.kept = w.kept /\ over.out = w.out
    BY <2>1 DEF Worker
  <2>. HIDE DEF over
  <2>. QED
    BY <2>1, <2>2, FreeType DEF Good, Sound
<1>2. Good([over EXCEPT !.state = "idle"], H)
  BY <1>1, SetState DEF State
<1>3. ended \in Call \cup {NoCall}
  BY DEF Good, Worker, Message
<1>4. Good(Tell([over EXCEPT !.state = "idle"], "Ended", ended), H)
  BY <1>2, <1>3, GoodTell DEF Word
<1>. QED
  BY <1>1, <1>4 DEF FinishCall

LEMMA GoodSendBye ==
  ASSUME NEW H, NEW w, Good(w, H)
  PROVE  Good(SendBye(w), H)
<1>. DEFINE request == Request("BYE", w.call.call, w.call.cseq + 1)
            sent    == [Say(w, request) EXCEPT !.bye = Pending(request)]
<1>1. w.call.call \in Call \cup {NoCall} /\ w.call.cseq + 1 \in Nat
  BY DEF Good, Worker
<1>2. request \in Message /\ Founded(request, H)
  BY <1>1, RequestType DEF Founded, Request
<1>3. Good(Say(w, request), H)
  BY <1>2, GoodSay
<1>4. Good(sent, H)
  BY <1>2, <1>3, SlotOf, SetBye
<1>5. Good([w EXCEPT !.answer = Free], H)
  BY <1>2, SlotOf, SetAnswer
<1>. QED
  BY <1>4, <1>5, GoodFinishCall DEF SendBye

\* What lets a CANCEL go out: the INVITE has been answered provisionally.
LEMMA GoodSendCancel ==
  ASSUME NEW H, NEW w, Good(w, H), w.invite.prov
  PROVE  Good(SendCancel(w), H)
<1>. DEFINE request == [w.invite.request EXCEPT !.method = "CANCEL"]
<1>. SUFFICES ASSUME w.invite # Free
              PROVE  Good([Say(w, request) EXCEPT
                             !.invite.cancelled = TRUE, !.cancel = Pending(request),
                             !.cancel_wanted = FALSE, !.state = "cancelling"], H)
  BY DEF SendCancel
<1>1. w.invite \in Slot /\ IsInvite(w.invite.request) /\ w.invite.request \in H
  BY DEF Good, Worker
<1>2. request \in Message /\ request.method = "CANCEL" /\ request.code = "Request"
  BY <1>1 DEF Slot, Message, IsInvite
<1>3. [request EXCEPT !.method = "INVITE"] = w.invite.request
  BY <1>1 DEF Slot, Message, IsInvite
<1>4. Founded(request, H)
  BY <1>1, <1>2, <1>3 DEF Founded
<1>5. Good(Say(w, request), H)
  BY <1>2, <1>4, GoodSay
<1>6. Say(w, request).invite # Free
  BY <1>2 DEF Say, Good, Worker
<1>. QED
  BY <1>2, <1>4, <1>5, <1>6, SlotOf, SetCancel

LEMMA GoodWantCancel ==
  ASSUME NEW H, NEW w, Good(w, H)
  PROVE  Good(WantCancel(w), H)
<1>1. Good([w EXCEPT !.cancel_wanted = TRUE, !.state = "cancelling"], H)
  BY SetWanted
<1>. QED
  BY <1>1, GoodSendCancel DEF WantCancel

LEMMA GoodDecline ==
  ASSUME NEW H, NEW w, Good(w, H), w.ringing # Nothing
  PROVE  Good(Decline(w), H)
<1>. DEFINE gone == Respond(w, w.ringing, "Declined")
<1>1. w.ringing \in Message /\ w.ringing \in H /\ IsInvite(w.ringing)
  BY DEF Good, Worker
<1>2. Good(gone, H)
  BY <1>1, GoodRespond DEF IsInvite, Code, Refusal
<1>3. Good([gone EXCEPT !.ringing = Nothing, !.call = NoDialog, !.state = "idle"], H)
  BY <1>2, SetNoCall
<1>. QED
  BY <1>1, <1>3, GoodTell DEF Decline, Word, Message

LEMMA GoodGiveUpHeldDial ==
  ASSUME NEW H, NEW w, Good(w, H)
  PROVE  Good(GiveUpHeldDial(w), H)
<1>1. Good([w EXCEPT !.held_dial = NoCall], H)
  BY FreeType, SetHeld
<1>2. w.held_dial \in Call \cup {NoCall}
  BY DEF Good, Worker
<1>. QED
  BY <1>1, <1>2, GoodTell DEF GiveUpHeldDial, Word

LEMMA GoodPlaceCall ==
  ASSUME NEW H, NEW w, Good(w, H), NEW number \in Call \cup {NoCall}
  PROVE  Good(PlaceCall(w, number), H)
<1>. DEFINE request == Request("INVITE", number, 1)
<1>1. request \in Message /\ IsInvite(request)
  BY RequestType DEF Request, IsInvite
<1>2. Founded(request, H)
  BY <1>1 DEF Founded, IsInvite
<1>3. Good(Say(w, request), H)
  BY <1>1, <1>2, GoodSay
<1>4. Good([Say(w, request) EXCEPT !.call = Dialog(number, 1), !.invite = Pending(request),
                                   !.state = "dialling"], H)
  BY <1>1, <1>3, PendingType, SetCall
<1>5. Good(HoldADial(w, number), H)
  BY GoodGiveUpHeldDial, SetHeld DEF HoldADial
<1>. QED
  BY <1>4, <1>5, GoodTell DEF PlaceCall, Word

LEMMA GoodAcceptCall ==
  ASSUME NEW H, NEW w, Good(w, H), w.ringing # Nothing, NEW usable
  PROVE  Good(AcceptCall(w, usable), H)
<1>. DEFINE request == w.ringing
            taken   == [w EXCEPT !.ringing = Nothing]
            agreed  == Respond(taken, request, "OK")
            refused == Respond(taken, request, "NotAcceptable")
<1>1. request \in Message /\ request \in H /\ IsInvite(request)
  BY DEF Good, Worker
<1>2. Good(taken, H)
  BY FreeType DEF Good, Worker, Sound
<1>3. Good(agreed, H) /\ Good(refused, H)
  BY <1>1, <1>2, GoodRespond DEF IsInvite, Code, Refusal
<1>4. Good([agreed EXCEPT !.call.established = w.call # NoDialog, !.state = "answered"], H)
  BY <1>3, SetUp
<1>5. Good([refused EXCEPT !.call = NoDialog, !.state = "idle"], H)
  BY <1>3, SetNoCall
<1>. QED
  BY <1>1, <1>4, <1>5, GoodTell DEF AcceptCall, Word, Message

LEMMA GoodEndCall ==
  ASSUME NEW H, NEW w, Good(w, H)
  PROVE  Good(EndCall(w), H)
<1>. DEFINE v == GiveUpHeldDial(w)
<1>1. Good(v, H)
  BY GoodGiveUpHeldDial
<1>2. Good([v EXCEPT !.state = "idle"], H)
  BY <1>1, SetState DEF State
<1>. HIDE DEF v
<1>3. Good(HangUpNow(v), H)
  BY <1>1, <1>2, GoodDecline, GoodSendBye, GoodWantCancel DEF HangUpNow
<1>. QED
  BY <1>3 DEF EndCall, v

-----------------------------------------------------------------------------
(* Responses.                                                              *)

LEMMA GoodSendAck ==
  ASSUME NEW H, NEW w, Good(w, H), NEW response \in Message
  PROVE  Good(SendAck(w, response), H)
<1>. DEFINE ack == Request("ACK", w.call.call, response.cseq)
<1>1. w.call.call \in Call \cup {NoCall} /\ response.cseq \in Nat
  BY DEF Good, Worker, Message
<1>2. ack \in Message /\ Founded(ack, H)
  BY <1>1, RequestType DEF Founded, Request
<1>. QED
  BY <1>2, GoodSay DEF SendAck

LEMMA GoodAckFailure ==
  ASSUME NEW H, NEW w, Good(w, H)
  PROVE  Good(AckFailure(w), H)
<1>. DEFINE ack == [w.invite.request EXCEPT !.method = "ACK"]
<1>1. w.invite.request \in Message /\ w.invite.request.code = "Request"
  BY FreeType DEF Good, Worker, Slot, IsInvite, Nothing, Request
<1>2. ack \in Message /\ Founded(ack, H)
  BY <1>1 DEF Message, Founded
<1>. QED
  BY <1>2, GoodSay DEF AckFailure

LEMMA GoodRetry ==
  ASSUME NEW H, NEW w, Good(w, H), w.invite # Free, w.invite.attempts < AUTH_ATTEMPTS
  PROVE  Good(RetryWithCredentials(w), H)
<1>. DEFINE cseq    == w.invite.request.cseq + 1
            request == [w.invite.request EXCEPT !.cseq = cseq]
            known   == [w EXCEPT !.call = IF @ = NoDialog THEN @
                                          ELSE [@ EXCEPT !.cseq = cseq, !.invite_cseq = cseq]]
            slot    == [Pending(request) EXCEPT !.attempts = w.invite.attempts + 1]
<1>1. w.invite.request \in Message /\ IsInvite(w.invite.request)
  BY DEF Good, Worker, Slot
<1>2. cseq \in Nat /\ request \in Message /\ IsInvite(request)
  BY <1>1 DEF Message, IsInvite
<1>3. Founded(request, H)
  BY <1>2 DEF Founded, IsInvite
<1>4. w.invite.attempts + 1 \in 0 .. AUTH_ATTEMPTS
  BY DEF Good, Worker, Slot, AUTH_ATTEMPTS
<1>5. slot \in Slot /\ slot.request = request /\ ~slot.prov
  BY <1>2, <1>4, PendingType DEF Slot
<1>6. Good(known, H)
  <2>. HIDE DEF cseq
  <2>. QED
    BY <1>2 DEF Good, Worker, Sound
<1>. HIDE DEF request, known, slot
<1>7. Good(Say(known, request), H)
  BY <1>2, <1>3, <1>6, GoodSay
<1>8. Good([Say(known, request) EXCEPT !.invite = slot], H)
  BY <1>2, <1>5, <1>7, SetInvite
<1>. QED
  BY <1>8 DEF RetryWithCredentials, request, known, slot

LEMMA GoodInviteProvisional ==
  ASSUME NEW H, NEW w, Good(w, H), w.invite # Free, w.invite.request \in H, NEW response
  PROVE  Good(InviteProvisional(w, response), H)
<1>. DEFINE slot  == [w.invite EXCEPT !.prov = TRUE]
            state == IF response.code = "Ringing" THEN "ringing" ELSE w.state
            known == [w EXCEPT !.invite = slot, !.state = state]
<1>1. slot \in Slot /\ slot.request = w.invite.request /\ slot.prov /\ IsInvite(slot.request)
  BY DEF Good, Worker, Slot
<1>2. state \in State
  BY DEF Good, Worker, State
<1>3. [w EXCEPT !.invite.prov = TRUE, !.state = IF response.code = "Ringing" THEN "ringing" ELSE @]
        = known
  BY DEF Good, Worker
<1>. HIDE DEF slot, state
<1>4. Good(known, H) /\ known.invite = slot
  BY <1>1, <1>2 DEF Good, Worker, Sound
<1>. HIDE DEF known
<1>. QED
  BY <1>1, <1>3, <1>4, GoodSendCancel DEF InviteProvisional, known

LEMMA GoodAdoptDialog ==
  ASSUME NEW H, NEW w, Good(w, H), NEW response \in Message
  PROVE  Good(AdoptDialog(w, response), H)
<1>. DEFINE v == AdoptDialog(w, response)
<1>1. w \in Worker /\ v \in Worker
  <2>1. w \in Worker
    BY DEF Good
  <2>. DEFINE call == IF w.call = NoDialog THEN w.call
                      ELSE [w.call EXCEPT !.invite_cseq = response.cseq, !.established = TRUE]
  <2>2. call \in [call : Call \cup {NoCall}, cseq : Nat, invite_cseq : Nat,
                  established : BOOLEAN]
    BY <2>1 DEF Worker, Message
  <2>3. v = [w EXCEPT !.invite = Free, !.call = call]
    BY <2>1 DEF AdoptDialog, Worker
  <2>. HIDE DEF call
  <2>4. [w EXCEPT !.invite = Free, !.call = call] \in Worker
    BY <2>1, <2>2, FreeType DEF Worker
  <2>. HIDE DEF v
  <2>. QED
    BY <2>1, <2>3, <2>4
<1>2. /\ v.invite = Free /\ v.cancel = w.cancel /\ v.answer = w.answer /\ v.bye = w.bye
      /\ v.ringing = w.ringing /\ v.kept = w.kept /\ v.out = w.out
  BY <1>1 DEF AdoptDialog, Worker
<1>. HIDE DEF v
<1>3. Good(v, H)
  BY <1>1, <1>2, FreeType DEF Good
<1>. QED
  BY <1>3 DEF v

LEMMA GoodInviteAccepted ==
  ASSUME NEW H, NEW w, Good(w, H), NEW response \in Message, NEW readable
  PROVE  Good(InviteAccepted(w, response, readable), H)
<1>. DEFINE up == SendAck(AdoptDialog(w, response), response)
<1>1. Good(up, H)
  BY GoodAdoptDialog, GoodSendAck
<1>. HIDE DEF up
<1>2. Good([up EXCEPT !.cancel = Free, !.cancel_wanted = FALSE], H)
  BY <1>1, SetNotCancelled
<1>3. Good([up EXCEPT !.state = "up"], H)
  BY <1>1, SetState DEF State
<1>4. Good(Tell([up EXCEPT !.state = "up"], "Answered", response.call), H)
  BY <1>3, GoodTell DEF Word, Message
<1>. QED
  BY <1>1, <1>2, <1>4, GoodSendBye DEF InviteAccepted, up

LEMMA GoodInviteFailed ==
  ASSUME NEW H, NEW w, Good(w, H)
  PROVE  Good(InviteFailed(w), H)
<1>. DEFINE over == [w EXCEPT !.invite = Free, !.cancel = Free, !.cancel_wanted = FALSE,
                              !.call = NoDialog, !.state = "idle"]
<1>1. Good(over, H)
  <2>1. w \in Worker
    BY DEF Good
  <2>2. over \in Worker
    BY FreeType, <2>1 DEF Worker, State, NoDialog, Dialog
  <2>3. /\ over.invite = Free /\ over.cancel = Free /\ over.answer = w.answer
        /\ over.bye = w.bye /\ over.ringing = w.ringing /\ over.kept = w.kept
        /\ over.out = w.out
    BY <2>1 DEF Worker
  <2>. HIDE DEF over
  <2>. QED
    BY <2>2, <2>3, GoodAgain
<1>2. w.invite.request.call \in Call \cup {NoCall}
  BY DEF Good, Worker, Slot, Message
<1>. HIDE DEF over
<1>. QED
  BY <1>1, <1>2, GoodTell DEF InviteFailed, Word, over

LEMMA GoodInviteAnswered ==
  ASSUME NEW H, NEW w, Good(w, H), NEW response \in Message, Founded(response, H),
         response.code # "Request", Answers(w.invite.request, response), NEW readable
  PROVE  Good(InviteAnswered(w, response, readable), H)
<1>1. w.invite.request \in Message
  BY DEF Good, Worker, Slot
<1>2. w.invite.request = Response(response, "Request") /\ w.invite.request.method # "None"
  BY <1>1, AnswersAlike DEF Founded
<1>3. w.invite # Free /\ IsInvite(w.invite.request)
  BY <1>2, FreeType DEF Good, Nothing, Request
<1>4. w.invite.request \in H
  BY <1>1, <1>2, <1>3, AnswersAlike DEF Founded, IsInvite
<1>5. CASE response.code \in Provisional
  <2>1. InviteAnswered(w, response, readable) = InviteProvisional(w, response)
    BY <1>5 DEF InviteAnswered, Provisional, Challenge
  <2>. QED
    BY <1>3, <1>4, <2>1, GoodInviteProvisional
<1>6. CASE response.code = "OK"
  <2>1. response.code \notin Provisional /\ response.code \notin Challenge
    BY <1>6 DEF Provisional, Challenge
  <2>2. InviteAnswered(w, response, readable) = InviteAccepted(w, response, readable)
    BY <1>6, <2>1 DEF InviteAnswered
  <2>. QED
    BY <2>2, GoodInviteAccepted
<1>7. CASE response.code \in Challenge /\ MayAnswerAgain(w.invite.attempts, response)
  <2>1. Good(AckFailure(w), H) /\ AckFailure(w).invite = w.invite
    BY GoodAckFailure DEF AckFailure, Say, Good, Worker
  <2>2. w.invite.attempts < AUTH_ATTEMPTS
    BY <1>7 DEF MayAnswerAgain, AUTH_ATTEMPTS, Good, Worker, Slot
  <2>3. Good(RetryWithCredentials(AckFailure(w)), H)
    BY <1>3, <2>1, <2>2, GoodRetry
  <2>4. response.code \notin Provisional /\ response.code # "OK"
    BY <1>7 DEF Provisional, Challenge
  <2>5. InviteAnswered(w, response, readable) = RetryWithCredentials(AckFailure(w))
    BY <1>7, <2>4 DEF InviteAnswered
  <2>. QED
    BY <2>3, <2>5
<1>8. CASE ~(response.code \in Provisional) /\ response.code # "OK"
           /\ ~(response.code \in Challenge /\ MayAnswerAgain(w.invite.attempts, response))
  <2>1. InviteAnswered(w, response, readable) = InviteFailed(AckFailure(w))
    BY <1>8 DEF InviteAnswered
  <2>. QED
    BY <2>1, GoodAckFailure, GoodInviteFailed
<1>. QED
  BY <1>5, <1>6, <1>7, <1>8

LEMMA GoodHandleResponse ==
  ASSUME NEW H, NEW w, Good(w, H), NEW response \in Message, Founded(response, H),
         response.code # "Request", NEW readable
  PROVE  Good(HandleResponse(w, response, readable), H)
<1>1. Good([w EXCEPT !.cancel = Free], H) /\ Good([w EXCEPT !.bye = Free], H)
  BY SetFree
<1>2. Good(StrayInviteResponse(w, response), H)
  BY GoodSendAck DEF StrayInviteResponse
<1>. QED
  BY <1>1, <1>2, GoodInviteAnswered DEF HandleResponse

-----------------------------------------------------------------------------
(* Requests.                                                               *)

LEMMA GoodIncomingInvite ==
  ASSUME NEW H, NEW w, Good(w, H), NEW request \in Message, IsInvite(request), request \in H
  PROVE  Good(IncomingInvite(w, request), H)
<1>. DEFINE trying  == Respond(w, request, "Trying")
            ringing == Respond(trying, request, "Ringing")
            call    == Dialog(request.call, request.cseq)
<1>1. \A v, code : Good(v, H) /\ code \in Code \ {"Request"} => Good(Respond(v, request, code), H)
  BY GoodRespond DEF IsInvite
<1>2. Good(ringing, H)
  BY <1>1 DEF Code, Provisional
<1>3. request.call \in Call \cup {NoCall}
  BY DEF Message
<1>. HIDE DEF ringing, call
<1>4. Good([ringing EXCEPT !.call = call, !.ringing = request, !.state = "ringing here"], H)
  BY <1>2, SetRinging DEF call
<1>5. Good(Tell([ringing EXCEPT !.call = call, !.ringing = request,
                                !.state = "ringing here"], "Incoming", request.call), H)
  BY <1>3, <1>4, GoodTell DEF Word
<1>. QED
  BY <1>1, <1>5 DEF IncomingInvite, ringing, call, Code, Provisional, Refusal

LEMMA GoodOnBye ==
  ASSUME NEW H, NEW w, Good(w, H), NEW request \in Message, request.code = "Request",
         request.method = "BYE"
  PROVE  Good(OnBye(w, request), H)
<1>1. Good(Respond(w, request, "OK"), H) /\ Good(Respond(w, request, "NoSuchCall"), H)
  BY GoodRespond DEF Code, Refusal
<1>. QED
  BY <1>1, GoodFinishCall DEF OnBye

LEMMA GoodOnCancel ==
  ASSUME NEW H, NEW w, Good(w, H), NEW request \in Message, request.code = "Request",
         request.method = "CANCEL"
  PROVE  Good(OnCancel(w, request), H)
<1>. DEFINE taken == Respond(w, request, "OK")
            quiet == [taken EXCEPT !.ringing = Nothing]
<1>1. Good(taken, H) /\ Good(Respond(w, request, "NoSuchCall"), H)
  BY GoodRespond DEF Code, Refusal
<1>. HIDE DEF taken
<1>2. Good(quiet, H)
  BY <1>1, SetFree
<1>. HIDE DEF quiet
<1>3. ASSUME w.ringing # Nothing
      PROVE  Good(Respond(quiet, w.ringing, "Terminated"), H)
  <2>1. w.ringing \in Message /\ w.ringing \in H /\ IsInvite(w.ringing)
    BY <1>3 DEF Good, Worker
  <2>. QED
    BY <1>2, <2>1, GoodRespond DEF IsInvite, Code, Refusal
<1>. QED
  BY <1>1, <1>3, GoodFinishCall DEF OnCancel, quiet, taken

LEMMA GoodHandleRequest ==
  ASSUME NEW H, NEW w, Good(w, H), NEW request \in Message, request.code = "Request",
         Founded(request, H), IsInvite(request) => request \in H
  PROVE  Good(HandleRequest(w, request), H)
<1>. DEFINE again == {r \in w.kept : Answers(request, r)}
            kept  == CHOOSE r \in again : TRUE
<1>1. CASE again # {}
  <2>1. kept \in w.kept
    BY <1>1
  <2>2. kept \in Message /\ Founded(kept, H)
    BY <2>1 DEF Good, Worker
  <2>3. HandleRequest(w, request) = Say(w, kept)
    BY <1>1 DEF HandleRequest
  <2>. QED
    BY <2>2, <2>3, GoodSay
<1>2. CASE again = {}
  <2>1. HandleRequest(w, request) = HandleAfresh(w, request)
    BY <1>2 DEF HandleRequest
  <2>2. request.method \in {"INVITE", "ACK", "CANCEL", "BYE"}
    BY DEF Founded, Message
  <2>3. CASE request.method = "INVITE"
    <3>1. HandleAfresh(w, request) = IncomingInvite(w, request)
      BY <2>3 DEF HandleAfresh
    <3>. QED
      BY <2>1, <2>3, <3>1, GoodIncomingInvite DEF IsInvite
  <2>4. CASE request.method = "ACK"
    <3>1. HandleAfresh(w, request) = AnswerAcknowledged(w, request)
      BY <2>4 DEF HandleAfresh
    <3>2. Good([w EXCEPT !.answer = Free], H)
      BY SetAnswer, FreeType DEF Sound
    <3>. QED
      BY <2>1, <3>1, <3>2 DEF AnswerAcknowledged
  <2>5. CASE request.method = "BYE"
    <3>1. HandleAfresh(w, request) = OnBye(w, request)
      BY <2>5 DEF HandleAfresh
    <3>. QED
      BY <2>1, <2>5, <3>1, GoodOnBye
  <2>6. CASE request.method = "CANCEL"
    <3>1. HandleAfresh(w, request) = OnCancel(w, request)
      BY <2>6 DEF HandleAfresh
    <3>. QED
      BY <2>1, <2>6, <3>1, GoodOnCancel
  <2>. QED
    BY <2>2, <2>3, <2>4, <2>5, <2>6
<1>. QED
  BY <1>1, <1>2

LEMMA GoodHandle ==
  ASSUME NEW H, NEW w, Good(w, H), NEW m \in Message, Founded(m, H),
         IsInvite(m) => m \in H, NEW readable
  PROVE  Good(Handle(w, m, readable), H)
BY GoodHandleRequest, GoodHandleResponse DEF Handle

-----------------------------------------------------------------------------
(* Timers, and the connection made again.                                  *)

\* What a slot holds may be sent again.
LEMMA SlotFounded ==
  ASSUME NEW H, NEW w, Good(w, H), NEW slot \in Slots, w[slot] # Free
  PROVE  w[slot] \in Slot /\ w[slot].request \in Message /\ Founded(w[slot].request, H)
<1>1. CASE slot = "invite"
  <2>1. w.invite \in Slot /\ IsInvite(w.invite.request)
    BY <1>1 DEF Good, Worker
  <2>. QED
    BY <1>1, <2>1 DEF Slot, Founded, IsInvite
<1>2. CASE slot # "invite"
  <2>1. w[slot] \in Slot /\ Sound(w[slot], H)
    BY <1>2 DEF Good, Worker, Slots
  <2>. QED
    BY <2>1 DEF Slot, Sound
<1>. QED
  BY <1>1, <1>2

LEMMA GoodResend ==
  ASSUME NEW H, NEW w, Good(w, H), NEW slot \in Slots, Resends(w, slot)
  PROVE  Good(Resend(w, slot), H)
<1>. DEFINE said  == Say(w, w[slot].request)
            again == [w[slot] EXCEPT !.tries = @ + 1]
<1>1. /\ w[slot] \in Slot /\ w[slot].request \in Message /\ Founded(w[slot].request, H)
      /\ w[slot].tries < MaxTries /\ (slot = "invite" => ~w.invite.prov)
  BY SlotFounded DEF Resends
<1>2. Good(said, H) /\ said[slot] = w[slot]
  <2>1. Good(said, H)
    BY <1>1, GoodSay
  <2>. QED
    BY <2>1 DEF Say, Good, Worker, Slots
<1>3. again \in Slot /\ again.request = w[slot].request /\ again.prov = w[slot].prov
  BY <1>1, SipAssumption DEF Slot
<1>4. Resend(w, slot) = [said EXCEPT ![slot] = again]
  BY <1>2 DEF Resend
<1>. HIDE DEF said, again
<1>5. CASE slot = "invite"
  <2>1. IsInvite(again.request)
    BY <1>1, <1>3, <1>5, FreeType DEF Good, Founded, Nothing, Request
  <2>2. ~again.prov
    BY <1>1, <1>3, <1>5
  <2>. QED
    BY <1>2, <1>3, <1>4, <1>5, <2>1, <2>2 DEF Good, Worker, Sound
<1>6. CASE slot = "cancel"
  BY <1>1, <1>2, <1>3, <1>4, <1>6 DEF Good, Worker, Sound
<1>7. CASE slot = "bye"
  BY <1>1, <1>2, <1>3, <1>4, <1>7 DEF Good, Worker, Sound
<1>8. CASE slot = "answer"
  BY <1>1, <1>2, <1>3, <1>4, <1>8 DEF Good, Worker, Sound
<1>. QED
  BY <1>5, <1>6, <1>7, <1>8 DEF Slots

LEMMA GoodExpire ==
  ASSUME NEW H, NEW w, Good(w, H), NEW slot \in Slots
  PROVE  Good(Expire(w, slot), H)
<1>. DEFINE over == [w EXCEPT !.invite = Free, !.cancel = Free, !.cancel_wanted = FALSE,
                              !.call = NoDialog, !.state = "idle"]
            word == IF w.invite.cancelled \/ w.cancel_wanted THEN "Ended" ELSE "Failed"
<1>1. CASE slot = "invite"
  <2>1. Good(over, H)
    <3>1. w \in Worker /\ over \in Worker
      <4>1. w \in Worker
        BY DEF Good
      <4>. QED
        BY FreeType, <4>1 DEF Worker, State, NoDialog, Dialog
    <3>2. /\ over.invite = Free /\ over.cancel = Free /\ over.answer = w.answer
          /\ over.bye = w.bye /\ over.ringing = w.ringing /\ over.kept = w.kept
          /\ over.out = w.out
      BY <3>1 DEF Worker
    <3>. HIDE DEF over
    <3>. QED
      BY <3>1, <3>2, FreeType DEF Good, Sound
  <2>2. w.invite.request.call \in Call \cup {NoCall} /\ word \in Word
    BY DEF Good, Worker, Slot, Message, Word
  <2>3. Expire(w, slot) = Tell(over, word, w.invite.request.call)
    BY <1>1 DEF Expire
  <2>. HIDE DEF over, word
  <2>. QED
    BY <2>1, <2>2, <2>3, GoodTell
<1>2. CASE slot = "answer"
  <2>1. Good([w EXCEPT !.answer = Free], H)
    BY SetAnswer, FreeType DEF Sound
  <2>2. Expire(w, slot) = SendBye([w EXCEPT !.answer = Free])
    BY <1>2 DEF Expire
  <2>. QED
    BY <2>1, <2>2, GoodSendBye
<1>3. CASE slot \in {"cancel", "bye"}
  <2>1. Good([w EXCEPT !.cancel = Free], H) /\ Good([w EXCEPT !.bye = Free], H)
    BY SetFree
  <2>2. Expire(w, slot) = [w EXCEPT ![slot] = Free]
    BY <1>3 DEF Expire
  <2>. QED
    BY <1>3, <2>1, <2>2
<1>. QED
  BY <1>1, <1>2, <1>3 DEF Slots

LEMMA GoodServeHeldDial ==
  ASSUME NEW H, NEW w, Good(w, H)
  PROVE  Good(ServeHeldDial(w), H)
<1>1. Good([w EXCEPT !.held_dial = NoCall], H)
  BY FreeType, SetHeld
<1>2. w.held_dial \in Call \cup {NoCall}
  BY DEF Good, Worker
<1>. QED
  BY <1>1, <1>2, GoodPlaceCall DEF ServeHeldDial

LEMMA GoodConnectionRemade ==
  ASSUME NEW H, NEW w, Good(w, H)
  PROVE  Good(ConnectionRemade(w), H)
<1>. DEFINE Again(v, slot) == IF v[slot] = Free THEN v ELSE Say(v, v[slot].request)
<1>1. \A v, slot : Good(v, H) /\ slot \in Slots => Good(Again(v, slot), H)
  BY SlotFounded, GoodSay
<1>2. ConnectionRemade(w) = Again(Again(Again(Again(w, "invite"), "cancel"), "bye"), "answer")
  BY DEF ConnectionRemade
<1>. HIDE DEF Again
<1>. QED
  BY <1>1, <1>2 DEF Slots

-----------------------------------------------------------------------------
(* The two lines.                                                          *)

\* A sequence of messages that may be on its way.
Carried(s, H) == s \in Seq(Message) /\ \A i \in 1 .. Len(s) : Founded(s[i], H)

Counted ==
  /\ open \in [End -> {"running", "leaving", "gone"}]
  /\ dialled \in 0 .. MaxDials /\ faults \in 0 .. MaxFaults /\ challenges \in 0 .. MaxChallenges
  /\ passed \subseteq Call \cup {NoCall}

Workers == worker = [e \in End |-> worker[e]] /\ \A e \in End : Good(worker[e], heard)

Wires == net = [e \in End |-> net[e]] /\ \A e \in End : Carried(net[e], heard)

\* The inductive invariant.
IInv == Counted /\ Workers /\ Wires /\ heard \subseteq Message

\* A CANCEL on its way comes after its INVITE because everything on the way is
\* founded, and what waits to be sent again as well.
LEMMA Enough == IInv => TypeOK /\ CancelFindsInvite
<1>. SUFFICES ASSUME IInv PROVE TypeOK /\ CancelFindsInvite
  OBVIOUS
<1>1. worker \in [End -> Worker]
  BY DEF IInv, Workers, Good
<1>2. TypeOK
  BY <1>1 DEF TypeOK, IInv, Counted, Wires, Carried
<1>3. ASSUME NEW e \in End, NEW m \in Sent(e) \cup {worker[e].cancel.request},
             m.code = "Request", m.method = "CANCEL"
      PROVE  [m EXCEPT !.method = "INVITE"] \in heard
  <2>1. Peer(e) \in End
    BY DEF Peer, End
  <2>2. CASE m \in Sent(e)
    <3>1. Founded(m, heard)
      BY <2>1, <2>2 DEF Sent, IInv, Wires, Carried
    <3>. QED
      BY <1>3, <3>1 DEF Founded
  <2>3. CASE m = worker[e].cancel.request
    <3>1. Founded(m, heard)
      BY <1>3, <2>3, FreeType DEF IInv, Workers, Good, Sound, Nothing, Request
    <3>. QED
      BY <1>3, <3>1 DEF Founded
  <2>. QED
    BY <2>2, <2>3
<1>. QED
  BY <1>2, <1>3 DEF CancelFindsInvite

\* What is founded stays so: INVITEs that were heard are not forgotten.
LEMMA FoundedStays ==
  ASSUME NEW H, NEW G, H \subseteq G, NEW m, Founded(m, H)
  PROVE  Founded(m, G)
BY DEF Founded

LEMMA GoodStays ==
  ASSUME NEW H, NEW G, H \subseteq G, NEW w, Good(w, H)
  PROVE  Good(w, G)
BY FoundedStays DEF Good, Sound

LEMMA GoodRested ==
  ASSUME NEW H, NEW w, Good(w, H)
  PROVE  Good([w EXCEPT !.out = <<>>, !.told = <<>>], H)
<1>1. <<>> \in Seq(Message) /\ <<>> \in Seq(Word \X (Call \cup {NoCall})) /\ Len(<<>>) = 0
  OBVIOUS
<1>. DEFINE v == [w EXCEPT !.out = <<>>, !.told = <<>>]
<1>2. w \in Worker
  BY DEF Good
<1>3. v \in Worker
  BY <1>1, <1>2 DEF Worker
<1>4. /\ v.invite = w.invite /\ v.cancel = w.cancel /\ v.bye = w.bye /\ v.out = <<>>
      /\ v.answer = w.answer /\ v.ringing = w.ringing /\ v.kept = w.kept
  BY <1>2 DEF Worker
<1>. HIDE DEF v
<1>5. Good(v, H)
  BY <1>1, <1>3, <1>4 DEF Good
<1>. QED
  BY <1>5 DEF v

LEMMA CarriedConcat ==
  ASSUME NEW H, NEW s, NEW t, Carried(s, H), Carried(t, H)
  PROVE  Carried(s \o t, H)
<1>1. s \in Seq(Message) /\ t \in Seq(Message)
  BY DEF Carried
<1>2. s \o t \in Seq(Message) /\ Len(s \o t) = Len(s) + Len(t)
  BY <1>1, ConcatProperties
<1>3. ASSUME NEW i \in 1 .. Len(s \o t)
      PROVE  Founded((s \o t)[i], H)
  <2>1. CASE i <= Len(s)
    <3>1. (s \o t)[i] = s[i] /\ i \in 1 .. Len(s)
      BY <1>1, <1>2, <2>1, ConcatProperties, LenProperties
    <3>. QED
      BY <3>1 DEF Carried
  <2>2. CASE i > Len(s)
    <3>1. (s \o t)[i] = t[i - Len(s)] /\ i - Len(s) \in 1 .. Len(t)
      BY <1>1, <1>2, <2>2, ConcatProperties, LenProperties
    <3>. QED
      BY <3>1 DEF Carried
  <2>. QED
    BY <1>1, <2>1, <2>2, LenProperties
<1>. QED
  BY <1>2, <1>3 DEF Carried

LEMMA CarriedOne ==
  ASSUME NEW H, NEW m \in Message, Founded(m, H)
  PROVE  Carried(<<m>>, H)
BY DEF Carried

LEMMA CarriedNone == \A H : Carried(<<>>, H)
BY DEF Carried

LEMMA CarriedPart ==
  ASSUME NEW H, NEW s, Carried(s, H), NEW i \in 1 .. Len(s) + 1, NEW j \in i - 1 .. Len(s)
  PROVE  Carried(SubSeq(s, i, j), H)
<1>. DEFINE part == SubSeq(s, i, j)
<1>1. s \in Seq(Message) /\ Len(s) \in Nat
  BY LenProperties DEF Carried
<1>2. /\ part \in Seq(Message) /\ Len(part) = j - i + 1
      /\ \A k \in 1 .. j - i + 1 : part[k] = s[i + k - 1]
  BY <1>1, SubSeqProperties
<1>3. \A k \in 1 .. j - i + 1 : i + k - 1 \in 1 .. Len(s)
  BY <1>1
<1>. HIDE DEF part
<1>4. Carried(part, H)
  BY <1>2, <1>3 DEF Carried
<1>. QED
  BY <1>4 DEF part

LEMMA CarriedTail ==
  ASSUME NEW H, NEW s, Carried(s, H), s # <<>>
  PROVE  Carried(Tail(s), H) /\ Len(s) >= 1
<1>1. s \in Seq(Message)
  BY DEF Carried
<1>2. Len(s) \in Nat /\ Len(s) >= 1
  BY <1>1, LenProperties, EmptySeq
<1>3. /\ Tail(s) \in Seq(Message) /\ Len(Tail(s)) = Len(s) - 1
      /\ \A k \in 1 .. Len(Tail(s)) : Tail(s)[k] = s[k + 1]
  BY <1>1, <1>2
<1>. QED
  BY <1>2, <1>3 DEF Carried

LEMMA CarriedWithout ==
  ASSUME NEW H, NEW s, Carried(s, H), Len(s) > 1
  PROVE  Carried(Without(s, 2), H)
<1>1. Len(s) \in Nat /\ s \in Seq(Message)
  BY LenProperties DEF Carried
<1>2. Carried(SubSeq(s, 1, 1), H) /\ Carried(SubSeq(s, 3, Len(s)), H)
  BY <1>1, CarriedPart
<1>. QED
  BY <1>2, CarriedConcat DEF Without

LEMMA CarriedStays ==
  ASSUME NEW H, NEW G, H \subseteq G, NEW s, Carried(s, H)
  PROVE  Carried(s, G)
BY FoundedStays DEF Carried

LEMMA PeerOf == \A e \in End : Peer(e) \in End /\ Peer(e) # e
BY DEF Peer, End

\* One end turns into a Good one.
LEMMA TurnKeeps ==
  ASSUME IInv, NEW e \in End, NEW w, NEW arriving, Becomes(e, w, arriving),
         heard \subseteq heard', heard' \subseteq Message, Good(w, heard'), Counted',
         Carried(arriving, heard')
  PROVE  IInv'
<1>. DEFINE rested == [w EXCEPT !.out = <<>>, !.told = <<>>]
<1>1. Good(rested, heard')
  BY GoodRested
<1>. HIDE DEF rested
<1>2. worker' = [worker EXCEPT ![e] = rested]
  BY DEF Becomes, rested
<1>3. Workers'
  <2>1. \A f \in End : Good(worker[f], heard')
    BY GoodStays DEF IInv, Workers
  <2>. QED
    BY <1>1, <1>2, <2>1 DEF IInv, Workers
<1>4. Wires'
  <2>1. \A f \in End : Carried(net[f], heard')
    BY CarriedStays DEF IInv, Wires
  <2>. DEFINE sent == net[Peer(e)] \o w.out
  <2>2. Carried(w.out, heard')
    BY DEF Good, Worker, Carried
  <2>3. Carried(sent, heard')
    BY <2>1, <2>2, PeerOf, CarriedConcat
  <2>4. net' = [net EXCEPT ![e] = arriving,
                           ![Peer(e)] = IF open[Peer(e)] = "gone" THEN net[Peer(e)] ELSE sent]
    BY PeerOf DEF Becomes, IInv, Wires
  <2>. HIDE DEF sent
  <2>5. \A f \in End : Carried(net'[f], heard')
    BY <2>1, <2>3, <2>4, PeerOf DEF IInv, Wires
  <2>. QED
    BY <2>4, <2>5 DEF IInv, Wires
<1>. QED
  BY <1>3, <1>4 DEF IInv

LEMMA TurnsKeeps ==
  ASSUME IInv, NEW e \in End, NEW w, Turns(e, w), Good(w, heard), Counted', heard' = heard
  PROVE  IInv'
<1>1. Carried(net[e], heard) /\ heard \subseteq Message
  BY DEF IInv, Wires
<1>. QED
  BY <1>1, TurnKeeps DEF Turns

-----------------------------------------------------------------------------
(* One step of each action.                                                *)

LEMMA Kept ==
  ASSUME IInv
  PROVE  /\ Counted /\ heard \subseteq Message
         /\ \A e \in End : Good(worker[e], heard) /\ Carried(net[e], heard)
BY DEF IInv, Workers, Wires

LEMMA DialKeeps ==
  ASSUME IInv, NEW e \in End, Dial(e)
  PROVE  IInv'
<1>1. dialled + 1 \in Call /\ Counted'
  BY SipAssumption DEF Dial, IInv, Counted, Call
<1>2. Good(PlaceCall(worker[e], dialled + 1), heard)
  BY <1>1, Kept, GoodPlaceCall
<1>. QED
  BY <1>1, <1>2, TurnsKeeps DEF Dial

LEMMA AnswerKeeps ==
  ASSUME IInv, NEW e \in End, NEW usable, Answer(e, usable)
  PROVE  IInv'
<1>1. Counted'
  BY Kept DEF Answer, Counted, budgets
<1>2. Good(AcceptCall(worker[e], usable), heard)
  BY Kept, GoodAcceptCall DEF Answer
<1>. QED
  BY <1>1, <1>2, TurnsKeeps DEF Answer

LEMMA HangUpKeeps ==
  ASSUME IInv, NEW e \in End, HangUp(e)
  PROVE  IInv'
<1>1. Counted'
  BY Kept DEF HangUp, Counted, budgets
<1>2. Good(EndCall(worker[e]), heard)
  BY Kept, GoodEndCall
<1>. QED
  BY <1>1, <1>2, TurnsKeeps DEF HangUp

LEMMA QuitKeeps ==
  ASSUME IInv, NEW e \in End, Quit(e)
  PROVE  IInv'
<1>. DEFINE w == IF worker[e].call = NoDialog THEN worker[e] ELSE SendBye(worker[e])
<1>1. Counted'
  BY Kept, SipBounds DEF Quit, Counted
<1>2. Good(w, heard)
  BY Kept, GoodSendBye
<1>. QED
  BY <1>1, <1>2, TurnsKeeps DEF Quit

LEMMA LeaveKeeps ==
  ASSUME IInv, NEW e \in End, Leave(e)
  PROVE  IInv'
<1>1. Counted'
  BY Kept DEF Leave, Counted, budgets, history
<1>2. Workers' /\ heard' = heard
  BY DEF Leave, history, IInv, Workers
<1>3. Wires'
  BY <1>2, CarriedNone DEF Leave, IInv, Wires
<1>. QED
  BY <1>1, <1>2, <1>3 DEF IInv

LEMMA TakesKeeps ==
  ASSUME IInv, NEW e \in End, NEW i \in 1 .. Len(net[e]), NEW readable, NEW left,
         Takes(e, i, readable, left), Carried(left, heard), faults' \in 0 .. MaxFaults
  PROVE  IInv'
<1>. DEFINE m == net[e][i]
<1>1. m \in Message /\ Founded(m, heard)
  BY Kept, ElementOfSeq DEF Carried
<1>2. heard' = heard \cup Invites(m)
  BY DEF Takes
<1>3. /\ heard \subseteq heard' /\ heard' \subseteq Message
      /\ IsInvite(m) => m \in heard'
  BY <1>1, <1>2, Kept DEF Invites
<1>4. Founded(m, heard') /\ Good(worker[e], heard') /\ Carried(left, heard')
  BY <1>1, <1>3, Kept, FoundedStays, GoodStays, CarriedStays
<1>. HIDE DEF m
<1>5. Good(Handle(worker[e], m, readable), heard')
  BY <1>1, <1>3, <1>4, GoodHandle
<1>6. Counted'
  <2>1. {x.call : x \in Invites(m)} \subseteq Call \cup {NoCall}
    BY <1>1 DEF Invites, Message
  <2>. QED
    BY <2>1, Kept DEF Takes, Counted, m
<1>. QED
  BY <1>3, <1>4, <1>5, <1>6, TurnKeeps DEF Takes, m

LEMMA ReceiveKeeps ==
  ASSUME IInv, NEW e \in End, NEW readable, Receive(e, readable)
  PROVE  IInv'
<1>1. Carried(net[e], heard) /\ net[e] # <<>>
  BY Kept DEF Receive
<1>2. Carried(Tail(net[e]), heard) /\ 1 \in 1 .. Len(net[e])
  BY <1>1, CarriedTail, LenProperties DEF Carried
<1>. QED
  BY <1>2, Kept, TakesKeeps DEF Receive, Counted

LEMMA OvertakeKeeps ==
  ASSUME IInv, NEW e \in End, NEW readable, Overtake(e, readable)
  PROVE  IInv'
<1>1. Carried(net[e], heard) /\ Len(net[e]) > 1 /\ Len(net[e]) \in Nat
  BY Kept, LenProperties DEF Overtake, Carried
<1>2. Carried(Without(net[e], 2), heard) /\ 2 \in 1 .. Len(net[e])
  BY <1>1, CarriedWithout
<1>3. faults' \in 0 .. MaxFaults
  BY Kept, SipBounds DEF Overtake, Lossy, Counted
<1>. QED
  BY <1>2, <1>3, TakesKeeps DEF Overtake

LEMMA RepeatKeeps ==
  ASSUME IInv, NEW e \in End, NEW readable, Repeat(e, readable)
  PROVE  IInv'
<1>1. Carried(net[e], heard) /\ 1 \in 1 .. Len(net[e])
  BY Kept, CarriedTail, LenProperties DEF Repeat, Carried
<1>2. faults' \in 0 .. MaxFaults
  BY Kept, SipBounds DEF Repeat, Lossy, Counted
<1>. QED
  BY <1>1, <1>2, TakesKeeps DEF Repeat

LEMMA LoseKeeps ==
  ASSUME IInv, NEW e \in End, Lose(e)
  PROVE  IInv'
<1>1. Counted'
  BY Kept, SipBounds DEF Lose, Lossy, Counted, history
<1>2. Workers' /\ heard' = heard
  BY DEF Lose, history, IInv, Workers
<1>3. Carried(Tail(net[e]), heard)
  BY Kept, CarriedTail DEF Lose
<1>4. Wires'
  BY <1>2, <1>3 DEF Lose, IInv, Wires
<1>. QED
  BY <1>1, <1>2, <1>4 DEF IInv

\* The proxy answers an INVITE that has come to it.
LEMMA ChallengesKeeps ==
  ASSUME IInv, NEW e \in End, NEW code \in Challenge, Challenges(e, code)
  PROVE  IInv'
<1>. DEFINE m       == net[e][1]
            trying  == IF TryingFirst THEN <<Response(m, "Trying")>> ELSE <<>>
            answers == (net[Peer(e)] \o trying) \o <<Response(m, code)>>
<1>1. Carried(net[e], heard) /\ net[e] # <<>> /\ IsInvite(m)
  BY Kept DEF Challenges
<1>2. Carried(Tail(net[e]), heard) /\ m \in Message
  BY <1>1, CarriedTail, LenProperties, ElementOfSeq DEF Carried
<1>3. heard' = heard \cup {m} /\ heard \subseteq heard' /\ heard' \subseteq Message
  BY <1>2, Kept DEF Challenges
<1>4. ASSUME NEW c \in Code
      PROVE  Response(m, c) \in Message /\ (c # "Request" => Founded(Response(m, c), heard'))
  <2>1. /\ Response(m, c) \in Message /\ Response(m, c).method = "INVITE"
        /\ Response(m, c).code = c
    BY <1>1, <1>2, ResponseType DEF IsInvite
  <2>2. Response(Response(m, c), "Request") = m
    BY <1>1, <1>2 DEF Response, Message, IsInvite
  <2>. QED
    BY <1>3, <2>1, <2>2 DEF Founded
<1>5. Carried(trying, heard')
  BY <1>4, CarriedOne, CarriedNone DEF Code, Provisional
<1>6. Carried(<<Response(m, code)>>, heard')
  BY <1>4, CarriedOne DEF Code, Challenge
<1>7. \A f \in End : Carried(net[f], heard')
  BY <1>3, Kept, CarriedStays
<1>8. Carried(answers, heard')
  BY <1>5, <1>6, <1>7, PeerOf, CarriedConcat
<1>9. net' = [net EXCEPT ![e] = Tail(net[e]), ![Peer(e)] = answers]
  BY PeerOf DEF Challenges, IInv, Wires
<1>. HIDE DEF answers, trying
<1>10. Wires'
  BY <1>2, <1>3, <1>7, <1>8, <1>9, PeerOf, CarriedStays DEF IInv, Wires
<1>11. Workers'
  BY <1>3, Kept, GoodStays DEF Challenges, IInv, Workers
<1>12. Counted'
  BY Kept, SipBounds DEF Challenges, Counted
<1>. QED
  BY <1>3, <1>10, <1>11, <1>12 DEF IInv

LEMMA BreakKeeps ==
  ASSUME IInv, Break
  PROVE  IInv'
<1>1. \A f \in End : Carried(ConnectionRemade(worker[f]).out, heard)
  BY Kept, GoodConnectionRemade DEF Carried, Good, Worker
<1>2. Counted'
  BY Kept, SipBounds DEF Break, Counted, history
<1>3. Workers' /\ heard' = heard
  BY DEF Break, history, IInv, Workers
<1>4. net' = [f \in End |-> IF open[f] = "gone" \/ open[Peer(f)] = "gone" THEN <<>>
                            ELSE ConnectionRemade(worker[Peer(f)]).out]
  BY PeerOf DEF Break
<1>5. Wires'
  BY <1>1, <1>3, <1>4, PeerOf, CarriedNone DEF Wires
<1>. QED
  BY <1>2, <1>3, <1>5, Kept DEF IInv

LEMMA ResendKeeps ==
  ASSUME IInv, NEW e \in End, NEW slot \in Slots, ResendOne(e, slot)
  PROVE  IInv'
<1>1. Counted'
  BY Kept DEF ResendOne, Counted, budgets
<1>2. Good(Resend(worker[e], slot), heard)
  BY Kept, GoodResend DEF ResendOne
<1>. QED
  BY <1>1, <1>2, TurnsKeeps DEF ResendOne

LEMMA ExpireKeeps ==
  ASSUME IInv, NEW e \in End, NEW slot \in Slots, ExpireOne(e, slot)
  PROVE  IInv'
<1>1. Counted'
  BY Kept DEF ExpireOne, Counted, budgets
<1>2. Good(Expire(worker[e], slot), heard)
  BY Kept, GoodExpire
<1>. QED
  BY <1>1, <1>2, TurnsKeeps DEF ExpireOne

LEMMA HeldIsServedKeeps ==
  ASSUME IInv, NEW e \in End, HeldIsServed(e)
  PROVE  IInv'
<1>1. Counted'
  BY Kept DEF HeldIsServed, Counted, budgets
<1>2. Good(ServeHeldDial(worker[e]), heard)
  BY Kept, GoodServeHeldDial
<1>. QED
  BY <1>1, <1>2, TurnsKeeps DEF HeldIsServed

LEMMA HeldTooLongKeeps ==
  ASSUME IInv, NEW e \in End, HeldTooLong(e)
  PROVE  IInv'
<1>1. Counted'
  BY Kept DEF HeldTooLong, Counted, budgets
<1>2. Good(GiveUpHeldDial(worker[e]), heard)
  BY Kept, GoodGiveUpHeldDial
<1>. QED
  BY <1>1, <1>2, TurnsKeeps DEF HeldTooLong

LEMMA ForgetKeeps ==
  ASSUME IInv, NEW e \in End, Forget(e)
  PROVE  IInv'
<1>1. Counted' /\ heard' = heard
  BY Kept DEF Forget, Counted, budgets, history
<1>2. Good([worker[e] EXCEPT !.kept = {}], heard)
  BY Kept, SetFree
<1>3. worker' = [worker EXCEPT ![e] = [worker[e] EXCEPT !.kept = {}]]
  BY DEF Forget, IInv, Workers
<1>4. Workers'
  BY <1>1, <1>2, <1>3 DEF IInv, Workers
<1>5. Wires'
  BY <1>1 DEF Forget, IInv, Wires
<1>. QED
  BY <1>1, <1>4, <1>5, Kept DEF IInv

-----------------------------------------------------------------------------
(* The theorems.                                                           *)

LEMMA Starts == Init => IInv
<1>. SUFFICES ASSUME Init PROVE IInv
  OBVIOUS
<1>1. ASSUME NEW reliable \in BOOLEAN
      PROVE  Good(NewWorker(reliable), {})
  <2>1. NewWorker(reliable) \in Worker
    BY FreeType DEF NewWorker, Worker, State, NoDialog, Dialog
  <2>. QED
    BY <2>1, FreeType DEF NewWorker, Good, Sound
<1>2. Workers /\ heard = {}
  BY <1>1, SipBounds DEF Init, Workers
<1>3. Wires
  BY CarriedNone DEF Init, Wires
<1>4. Counted
  BY SipAssumption, SipBounds DEF Init, Counted
<1>. QED
  BY <1>2, <1>3, <1>4 DEF IInv

LEMMA Steps == IInv /\ [Next]_vars => IInv'
<1>. SUFFICES ASSUME IInv, [Next]_vars PROVE IInv'
  OBVIOUS
<1>1. ASSUME UNCHANGED vars PROVE IInv'
  BY <1>1 DEF IInv, Counted, Workers, Wires, vars
<1>2. ASSUME NEW e \in End, Dial(e) \/ HangUp(e) \/ Quit(e) \/ Lose(e) \/ HeldTooLong(e) \/ Forget(e)
      PROVE  IInv'
  BY <1>2, DialKeeps, HangUpKeeps, QuitKeeps, LoseKeeps, HeldTooLongKeeps, ForgetKeeps
<1>3. ASSUME NEW e \in End, NEW usable \in BOOLEAN, Answer(e, usable) PROVE IInv'
  BY <1>3, AnswerKeeps
<1>4. ASSUME NEW e \in End, NEW readable \in BOOLEAN,
             Overtake(e, readable) \/ Repeat(e, readable) \/ Receive(e, readable)
      PROVE  IInv'
  BY <1>4, OvertakeKeeps, RepeatKeeps, ReceiveKeeps
<1>5. ASSUME NEW e \in End, NEW code \in Challenge, Challenges(e, code) PROVE IInv'
  BY <1>5, ChallengesKeeps
<1>6. ASSUME System PROVE IInv'
  <2>1. PICK e \in End :
          \/ \E readable \in BOOLEAN : Receive(e, readable)
          \/ \E slot \in Slots : ResendOne(e, slot) \/ ExpireOne(e, slot)
          \/ HeldIsServed(e) \/ Leave(e)
    BY <1>6 DEF System
  <2>. QED
    BY <2>1, <1>4, ResendKeeps, ExpireKeeps, HeldIsServedKeeps, LeaveKeeps
<1>. QED
  BY <1>1, <1>2, <1>3, <1>4, <1>5, <1>6, BreakKeeps DEF Next

\* The inductive invariant holds in every state.
THEOREM Inductive == Spec => []IInv
BY Starts, Steps, PTL DEF Spec

\* Every field of a worker, every message on its way and every count keeps its
\* type: credentials are sent at most AUTH_ATTEMPTS times for one INVITE and
\* nothing is sent again more than MaxTries times (retry_with_credentials and
\* run_timers).
THEOREM Typed == Spec => []TypeOK
<1>1. IInv => TypeOK
  BY Enough
<1>. QED
  BY <1>1, Inductive, PTL

\* A CANCEL on its way, or waiting to be sent again, comes after the INVITE it
\* cancels, whatever is lost, repeated or overtaken on the way and however often
\* the INVITE was challenged (want_cancel and invite_provisional).
THEOREM CancelMeetsInvite == Spec => []CancelFindsInvite
<1>1. IInv => CancelFindsInvite
  BY Enough
<1>. QED
  BY <1>1, Inductive, PTL

=============================================================================
