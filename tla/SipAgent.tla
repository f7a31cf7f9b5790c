------------------------------ MODULE SipAgent ------------------------------
(***************************************************************************)
(* The SIP user agent, Worker of crates/sip/src/ua.rs: one line, at most   *)
(* one call, and the transactions a call needs, each in a field.           *)
(*                                                                         *)
(* A call is the number of the dial that made it.  A branch names one      *)
(* method, call and sequence number, so these three stand for it, and a    *)
(* dialog's tags, which are never reused, for nothing more than its call.  *)
(* "out" is what one turn of the thread sends, "told" what it says to the  *)
(* layer above.                                                            *)
(***************************************************************************)
EXTENDS Naturals, Sequences

CONSTANTS MaxDials,  \* numbers dialled in all
          MaxTries   \* times a request or an answer is sent again before its deadline

ASSUME SipAssumption == MaxDials \in Nat /\ MaxTries \in Nat

AUTH_ATTEMPTS == 3

Call   == 1 .. MaxDials
NoCall == 0

Provisional == {"Trying", "Ringing"}
Challenge   == {"Challenged", "Stale"}
Refusal     == {"NoSuchCall", "Busy", "Terminated", "NotAcceptable", "Declined"}
Code        == Provisional \cup Challenge \cup Refusal \cup {"Request", "OK"}

Message == [code : Code, method : {"None", "INVITE", "ACK", "CANCEL", "BYE"},
            call : Call \cup {NoCall}, cseq : Nat]

Request(method, call, cseq) ==
  [code |-> "Request", method |-> method, call |-> call, cseq |-> cseq]
Nothing == Request("None", NoCall, 0)

Response(request, code) == [request EXCEPT !.code = code]

\* A response goes with the request it copies its branch, call and number from.
Answers(request, response) == [response EXCEPT !.code = "Request"] = request

Pending(request) ==
  [request |-> request, prov |-> FALSE, cancelled |-> FALSE, attempts |-> 0, tries |-> 0]
Free == Pending(Nothing)
Slot == [request : Message, prov : BOOLEAN, cancelled : BOOLEAN,
         attempts : 0 .. AUTH_ATTEMPTS, tries : 0 .. MaxTries]

Dialog(call, invite_cseq) ==
  [call |-> call, cseq |-> 1, invite_cseq |-> invite_cseq, established |-> FALSE]
NoDialog == Dialog(NoCall, 0)

Word  == {"Dialling", "Incoming", "Answered", "Failed", "Ended"}
State == {"idle", "dialling", "ringing", "ringing here", "up", "answered", "cancelling"}

Worker ==
  [call : [call : Call \cup {NoCall}, cseq : Nat, invite_cseq : Nat, established : BOOLEAN],
   invite : Slot, cancel : Slot, bye : Slot, cancel_wanted : BOOLEAN,
   held_dial : Call \cup {NoCall}, ringing : Message, answer : Slot,
   kept : SUBSET Message, state : State, reliable : BOOLEAN,
   out : Seq(Message), told : Seq(Word \X (Call \cup {NoCall}))]

NewWorker(reliable) ==
  [call |-> NoDialog, invite |-> Free, cancel |-> Free, bye |-> Free,
   cancel_wanted |-> FALSE, held_dial |-> NoCall, ringing |-> Nothing, answer |-> Free,
   kept |-> {}, state |-> "idle", reliable |-> reliable, out |-> <<>>, told |-> <<>>]

Say(w, message)    == [w EXCEPT !.out = Append(@, message)]
Tell(w, word, call) == [w EXCEPT !.told = Append(@, <<word, call>>)]

-----------------------------------------------------------------------------
(* Responses: a request answered before is given the same answer again.    *)

Remember(w, response) ==
  [w EXCEPT !.kept = {r \in @ : ~Answers(Response(response, "Request"), r)} \cup {response}]

\* An OK to an INVITE is sent again until it is acknowledged.
Respond(w, request, code) ==
  LET response == Response(request, code)
      sent     == Remember(Say(w, response), response)
  IN  IF code = "OK" /\ request.method = "INVITE"
      THEN [sent EXCEPT !.answer = Pending(response)] ELSE sent

-----------------------------------------------------------------------------
(* Ending a call.                                                          *)

\* call.take() || ringing.take(): the second is left alone if there was the
\* first.
FinishCall(w) ==
  LET over  == [w EXCEPT !.call = NoDialog, !.invite = Free, !.cancel = Free,
                         !.cancel_wanted = FALSE, !.answer = Free,
                         !.ringing = IF w.call = NoDialog THEN Nothing ELSE @]
      ended == IF w.call # NoDialog THEN w.call.call ELSE w.ringing.call
  IN  IF ended = NoCall THEN over
      ELSE Tell([over EXCEPT !.state = "idle"], "Ended", ended)

ByeUnderway(w) ==
  /\ w.call # NoDialog
  /\ w.bye.request.call = w.call.call

SendBye(w) ==
  LET request == Request("BYE", w.call.call, w.call.cseq + 1)
  IN  IF ByeUnderway(w) THEN w
      ELSE IF w.call = NoDialog THEN [w EXCEPT !.answer = Free]
      ELSE FinishCall([Say(w, request) EXCEPT !.bye = Pending(request)])

Cancelling(w) == w.cancel_wanted \/ w.cancel # Free \/ w.invite.cancelled

SendCancel(w) ==
  LET request == [w.invite.request EXCEPT !.method = "CANCEL"]
  IN  IF w.invite = Free \/ w.invite.cancelled THEN w
      ELSE [Say(w, request) EXCEPT !.invite.cancelled = TRUE, !.cancel = Pending(request),
                                   !.cancel_wanted = FALSE, !.state = "cancelling"]

\* A mutant: the CANCEL does not wait.
CancelAtOnce(w) == IF Cancelling(w) \/ w.invite = Free THEN w ELSE SendCancel(w)

WantCancel(w) ==
  IF Cancelling(w) \/ w.invite = Free THEN w
  ELSE IF w.invite.prov THEN SendCancel(w)
  ELSE [w EXCEPT !.cancel_wanted = TRUE, !.state = "cancelling"]

Decline(w) ==
  Tell([Respond(w, w.ringing, "Declined") EXCEPT !.ringing = Nothing, !.call = NoDialog,
                                                 !.state = "idle"],
       "Ended", w.ringing.call)

-----------------------------------------------------------------------------
(* What the layer above asks for.                                          *)

StillGettingRidOfACall(w) == w.invite # Free /\ Cancelling(w)

\* A mutant: a held number is dropped in silence.
DropHeldDial(w) == [w EXCEPT !.held_dial = NoCall]

GiveUpHeldDial(w) ==
  IF w.held_dial = NoCall THEN w
  ELSE Tell([w EXCEPT !.held_dial = NoCall], "Failed", w.held_dial)

HoldADial(w, number) == [GiveUpHeldDial(w) EXCEPT !.held_dial = number]

PlaceCall(w, number) ==
  LET request == Request("INVITE", number, 1)
  IN  IF StillGettingRidOfACall(w) THEN HoldADial(w, number)
      ELSE IF w.call # NoDialog \/ w.invite # Free THEN Tell(w, "Failed", number)
      ELSE Tell([Say(w, request) EXCEPT !.call = Dialog(number, 1),
                                        !.invite = Pending(request), !.state = "dialling"],
                "Dialling", number)

\* A mutant: a call refused on the wire is left standing here.
AcceptOrLeave(w, usable) ==
  LET request == w.ringing
      taken   == [w EXCEPT !.ringing = Nothing]
  IN  IF usable
      THEN Tell([Respond(taken, request, "OK") EXCEPT
                   !.call.established = w.call # NoDialog, !.state = "answered"],
                "Answered", request.call)
      ELSE Tell([Respond(taken, request, "NotAcceptable") EXCEPT !.state = "idle"],
                "Failed", request.call)

\* "usable": whether the offer has a law this account carries.
AcceptCall(w, usable) ==
  LET request == w.ringing
      taken   == [w EXCEPT !.ringing = Nothing]
      agreed  == Respond(taken, request, "OK")
      refused == Respond(taken, request, "NotAcceptable")
  IN  IF usable
      THEN Tell([agreed EXCEPT !.call.established = w.call # NoDialog,
                               !.state = "answered"], "Answered", request.call)
      ELSE Tell([refused EXCEPT !.call = NoDialog, !.state = "idle"], "Failed", request.call)

\* A mutant: every ask puts a BYE on the wire, with the next number.
HangUpEachTime(w) ==
  LET request == Request("BYE", w.call.call, w.call.cseq + 1)
  IN  IF w.ringing # Nothing THEN Decline(w)
      ELSE IF w.call.established /\ w.call.cseq < AUTH_ATTEMPTS
      THEN [Say(w, request) EXCEPT !.bye = Pending(request), !.call.cseq = @ + 1]
      ELSE IF w.invite # Free THEN WantCancel(w)
      ELSE [w EXCEPT !.state = "idle"]

HangUpNow(w) ==
  IF ByeUnderway(w) THEN w
  ELSE IF w.ringing # Nothing THEN Decline(w)
  ELSE IF w.call.established THEN SendBye(w)
  ELSE IF w.invite # Free THEN WantCancel(w)
  ELSE [w EXCEPT !.state = "idle"]

EndCall(w) == HangUpNow(GiveUpHeldDial(w))

-----------------------------------------------------------------------------
(* Responses that arrive.                                                  *)

SendAck(w, response) ==
  IF w.call = NoDialog THEN w ELSE Say(w, Request("ACK", w.call.call, response.cseq))

AckFailure(w) == Say(w, [w.invite.request EXCEPT !.method = "ACK"])

MayAnswerAgain(attempts, response) ==
  attempts = 0 \/ (response.code = "Stale" /\ attempts < AUTH_ATTEMPTS)

\* A new transaction: a new branch, the next number, nothing of the old one
\* but the count of the credentials sent.
RetryWithCredentials(w) ==
  LET cseq    == w.invite.request.cseq + 1
      request == [w.invite.request EXCEPT !.cseq = cseq]
      known   == [w EXCEPT !.call = IF @ = NoDialog THEN @
                                    ELSE [@ EXCEPT !.cseq = cseq, !.invite_cseq = cseq]]
  IN  [Say(known, request) EXCEPT
         !.invite = [Pending(request) EXCEPT !.attempts = w.invite.attempts + 1]]

InviteProvisional(w, response) ==
  LET heard == [w EXCEPT !.invite.prov = TRUE,
                         !.state = IF response.code = "Ringing" THEN "ringing" ELSE @]
  IN  IF w.cancel_wanted THEN SendCancel(heard) ELSE heard

AdoptDialog(w, response) ==
  [w EXCEPT !.invite = Free,
            !.call = IF @ = NoDialog THEN @
                     ELSE [@ EXCEPT !.invite_cseq = response.cseq, !.established = TRUE]]

\* A mutant: a call answered after all, although it was hung up, is kept.
KeepIfAnswered(w, response, readable) ==
  LET up == SendAck(AdoptDialog(w, response), response)
  IN  IF readable
      THEN Tell([up EXCEPT !.cancel = Free, !.cancel_wanted = FALSE, !.state = "up"],
                "Answered", response.call)
      ELSE SendBye(up)

\* A call hung up while it rang is acknowledged, and then ended properly.
\* "readable": whether the answer names a law this account carries.
InviteAccepted(w, response, readable) ==
  LET up == SendAck(AdoptDialog(w, response), response)
  IN  IF Cancelling(w)
      THEN SendBye([up EXCEPT !.cancel = Free, !.cancel_wanted = FALSE])
      ELSE IF readable THEN Tell([up EXCEPT !.state = "up"], "Answered", response.call)
      ELSE SendBye(up)

InviteFailed(w) ==
  Tell([w EXCEPT !.invite = Free, !.cancel = Free, !.cancel_wanted = FALSE,
                 !.call = NoDialog, !.state = "idle"], "Failed", w.invite.request.call)

InviteAnswered(w, response, readable) ==
  CASE response.code \in Provisional -> InviteProvisional(w, response)
    [] response.code = "OK"          -> InviteAccepted(w, response, readable)
    [] response.code \in Challenge /\ MayAnswerAgain(w.invite.attempts, response) ->
         RetryWithCredentials(AckFailure(w))
    [] OTHER                         -> InviteFailed(AckFailure(w))

\* A mutant: a repeated OK is not acknowledged again.
IgnoreStray(w, response) == w

StrayInviteResponse(w, response) ==
  IF /\ response.code = "OK" /\ w.call.established
     /\ w.call.call = response.call /\ w.call.invite_cseq = response.cseq
  THEN SendAck(w, response) ELSE w

\* Which transaction, if any, a response answers.
HandleResponse(w, response, readable) ==
  LET final == response.code \notin Provisional
  IN  CASE Answers(w.invite.request, response) -> InviteAnswered(w, response, readable)
        [] Answers(w.cancel.request, response) -> IF final THEN [w EXCEPT !.cancel = Free] ELSE w
        [] Answers(w.bye.request, response)    -> IF final THEN [w EXCEPT !.bye = Free] ELSE w
        [] OTHER -> IF response.method = "INVITE" THEN StrayInviteResponse(w, response) ELSE w

-----------------------------------------------------------------------------
(* Requests that arrive.                                                   *)

InOurDialog(w, request) == w.call # NoDialog /\ w.call.call = request.call

IncomingInvite(w, request) ==
  IF InOurDialog(w, request)
  THEN Respond(w, request, IF w.ringing # Nothing THEN "Ringing" ELSE "NoSuchCall")
  ELSE IF w.call # NoDialog \/ w.ringing # Nothing THEN Respond(w, request, "Busy")
  ELSE Tell([Respond(Respond(w, request, "Trying"), request, "Ringing") EXCEPT
               !.call = Dialog(request.call, request.cseq), !.ringing = request,
               !.state = "ringing here"],
            "Incoming", request.call)

AnswerAcknowledged(w, ack) ==
  IF w.answer.request.call = ack.call /\ w.answer.request.cseq = ack.cseq
  THEN [w EXCEPT !.answer = Free] ELSE w

OnBye(w, request) ==
  IF InOurDialog(w, request) THEN FinishCall(Respond(w, request, "OK"))
  ELSE Respond(w, request, "NoSuchCall")

\* Honoured only while the call rings here.
OnCancel(w, request) ==
  IF InOurDialog(w, request) /\ w.ringing # Nothing
  THEN FinishCall(Respond([Respond(w, request, "OK") EXCEPT !.ringing = Nothing],
                          w.ringing, "Terminated"))
  ELSE Respond(w, request, "NoSuchCall")

\* A mutant: only the method and the call are looked at, never what was kept.
HandleAfresh(w, request) ==
  CASE request.method = "INVITE" -> IncomingInvite(w, request)
    [] request.method = "ACK"    -> AnswerAcknowledged(w, request)
    [] request.method = "BYE"    -> OnBye(w, request)
    [] request.method = "CANCEL" -> OnCancel(w, request)

HandleRequest(w, request) ==
  LET again == {r \in w.kept : Answers(request, r)}
  IN  IF again # {} THEN Say(w, CHOOSE r \in again : TRUE)
      ELSE HandleAfresh(w, request)

Handle(w, message, readable) ==
  IF message.code = "Request" THEN HandleRequest(w, message)
  ELSE HandleResponse(w, message, readable)

-----------------------------------------------------------------------------
(* Timers, and a connection made again.                                    *)

Slots == {"invite", "cancel", "bye", "answer"}

\* A mutant: a request is sent again for as long as it runs.
ResendsForEver(w, slot) == w[slot] # Free /\ ~w.reliable

\* A mutant: a BYE is sent once.
ResendsButByes(w, slot) ==
  /\ w[slot] # Free /\ ~w.reliable /\ w[slot].tries < MaxTries
  /\ slot # "bye" /\ ~(slot = "invite" /\ w.invite.prov)

Resends(w, slot) ==
  /\ w[slot] # Free /\ ~w.reliable /\ w[slot].tries < MaxTries
  /\ ~(slot = "invite" /\ w.invite.prov)

Resend(w, slot) == [Say(w, w[slot].request) EXCEPT ![slot].tries = @ + 1]

\* The deadline of an INVITE that is being cancelled is no sooner than the
\* last CANCEL.
Expires(w, slot) ==
  /\ w[slot] # Free /\ ~Resends(w, slot)
  /\ slot = "invite" => ~Resends(w, "cancel")

Expire(w, slot) ==
  CASE slot = "invite" ->
         Tell([w EXCEPT !.invite = Free, !.cancel = Free, !.cancel_wanted = FALSE,
                        !.call = NoDialog, !.state = "idle"],
              IF w.invite.cancelled \/ w.cancel_wanted THEN "Ended" ELSE "Failed",
              w.invite.request.call)
    [] slot = "answer" -> SendBye([w EXCEPT !.answer = Free])
    [] OTHER           -> [w EXCEPT ![slot] = Free]

\* The number that waited is placed, or refused, as soon as the leg is gone.
ServeHeldDial(w) == PlaceCall([w EXCEPT !.held_dial = NoCall], w.held_dial)

ConnectionRemade(w) ==
  LET Again(v, slot) == IF v[slot] = Free THEN v ELSE Say(v, v[slot].request)
  IN  Again(Again(Again(Again(w, "invite"), "cancel"), "bye"), "answer")

=============================================================================
