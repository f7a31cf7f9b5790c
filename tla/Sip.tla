-------------------------------- MODULE Sip ---------------------------------
(***************************************************************************)
(* Two lines of crates/sip calling each other, over datagrams that may be  *)
(* lost, repeated or overtaken or over a connection that may go and be     *)
(* made again, through a proxy that may ask for credentials.               *)
(*                                                                         *)
(* The timers (half a second and up) are far longer than a message takes,  *)
(* so each one is left to run out only when nothing is on its way.         *)
(***************************************************************************)
EXTENDS SipAgent

CONSTANTS
  Callers,       \* the ends that dial
  Quitters,      \* the ends whose program may be closed
  Transports,    \* whether the transport is reliable: a subset of BOOLEAN
  MaxFaults,     \* bound: messages lost, repeated or overtaken, connections lost
                 \* and programs closed
  MaxChallenges, \* bound: requests for credentials
  TryingFirst    \* whether the proxy says Trying before it asks for them

ASSUME SipBounds ==
  MaxFaults \in Nat /\ MaxChallenges \in Nat /\ Transports \subseteq BOOLEAN

VARIABLES
  worker,      \* the thread of each end
  net,         \* the messages on their way to each end
  told,        \* history: what each end was told of each call
  put_down,    \* history: the calls each end has put down
  heard,       \* history: the INVITEs that came to the far end or the proxy
  passed,      \* history: the calls whose INVITE came to the far end
  open,        \* "running", "leaving" (wait_briefly) or "gone", per end
  dialled, faults, challenges

vars == <<worker, net, told, put_down, heard, passed, open, dialled, faults, challenges>>
history == <<told, put_down, heard, passed>>
budgets == <<dialled, faults, challenges>>

End == {"a", "b"}
Peer(e) == CHOOSE f \in End : f # e

Init ==
  /\ \E reliable \in Transports : worker = [e \in End |-> NewWorker(reliable)]
  /\ net = [e \in End |-> <<>>]
  /\ told = [e \in End |-> [c \in Call |-> <<>>]]
  /\ put_down = [e \in End |-> {}] /\ heard = {} /\ passed = {}
  /\ open = [e \in End |-> "running"]
  /\ dialled = 0 /\ faults = 0 /\ challenges = 0

-----------------------------------------------------------------------------

Said(w, c) == SelectSeq(w.told, LAMBDA t : t[2] = c)

\* End e becomes w; "arriving" is what is left on its way to e.
Becomes(e, w, arriving) ==
  /\ worker' = [worker EXCEPT ![e] = [w EXCEPT !.out = <<>>, !.told = <<>>]]
  /\ net' = [net EXCEPT ![e] = arriving,
                        ![Peer(e)] = IF open[Peer(e)] = "gone" THEN @ ELSE @ \o w.out]
  /\ told' = [told EXCEPT ![e] = [c \in Call |->
               @[c] \o [i \in 1 .. Len(Said(w, c)) |-> Said(w, c)[i][1]]]]

Turns(e, w) == Becomes(e, w, net[e])

Running(e) == open[e] = "running"
Lossy(e)   == ~worker[e].reliable /\ faults < MaxFaults
Quiet      == net["a"] = <<>> /\ net["b"] = <<>>

-----------------------------------------------------------------------------
(* The user and the modem.                                                 *)

Dial(e) ==
  /\ Running(e) /\ e \in Callers /\ dialled < MaxDials
  /\ dialled' = dialled + 1
  /\ Turns(e, PlaceCall(worker[e], dialled + 1))
  /\ UNCHANGED <<put_down, heard, passed, open, faults, challenges>>

\* With nothing ringing, the user is told so and nothing changes.
Answer(e, usable) ==
  /\ Running(e) /\ worker[e].ringing # Nothing
  /\ Turns(e, AcceptCall(worker[e], usable))
  /\ UNCHANGED <<put_down, heard, passed, open, budgets>>

PutsDown(e) == {worker[e].call.call, worker[e].ringing.call} \ {NoCall}

HangUp(e) ==
  /\ Running(e) /\ EndCall(worker[e]) # worker[e]
  /\ Turns(e, EndCall(worker[e]))
  /\ put_down' = [put_down EXCEPT ![e] = @ \cup PutsDown(e)]
  /\ UNCHANGED <<heard, passed, open, budgets>>

\* shut_down: a BYE, a moment for its answer (wait_briefly, 400 ms), and the
\* program is gone before the T1 of 500 ms after which it would send it again.
Quit(e) ==
  /\ Running(e) /\ e \in Quitters /\ faults < MaxFaults
  /\ faults' = faults + 1
  /\ open' = [open EXCEPT ![e] = "leaving"]
  /\ Turns(e, IF worker[e].call = NoDialog THEN worker[e] ELSE SendBye(worker[e]))
  /\ put_down' = [put_down EXCEPT ![e] = @ \cup PutsDown(e)]
  /\ UNCHANGED <<heard, passed, dialled, challenges>>

Leave(e) ==
  /\ open[e] = "leaving"
  /\ open' = [open EXCEPT ![e] = "gone"]
  /\ net' = [net EXCEPT ![e] = <<>>]
  /\ UNCHANGED <<worker, history, budgets>>

-----------------------------------------------------------------------------
(* The wire.                                                               *)

Without(s, i) == SubSeq(s, 1, i - 1) \o SubSeq(s, i + 1, Len(s))

IsInvite(m) == m.code = "Request" /\ m.method = "INVITE"
Invites(m)  == IF IsInvite(m) THEN {m} ELSE {}

Takes(e, i, readable, left) ==
  /\ open[e] # "gone"
  /\ Becomes(e, Handle(worker[e], net[e][i], readable), left)
  /\ heard' = heard \cup Invites(net[e][i])
  /\ passed' = passed \cup {m.call : m \in Invites(net[e][i])}
  /\ UNCHANGED <<put_down, open, dialled, challenges>>

Receive(e, readable) ==
  /\ net[e] # <<>>
  /\ Takes(e, 1, readable, Tail(net[e]))
  /\ UNCHANGED faults

\* The second message overtakes the first.
Overtake(e, readable) ==
  /\ Lossy(e) /\ Len(net[e]) > 1
  /\ faults' = faults + 1
  /\ Takes(e, 2, readable, Without(net[e], 2))

\* A copy of what arrives is still on its way.
Repeat(e, readable) ==
  /\ Lossy(e) /\ net[e] # <<>>
  /\ faults' = faults + 1
  /\ Takes(e, 1, readable, net[e])

Lose(e) ==
  /\ Lossy(e) /\ net[e] # <<>>
  /\ faults' = faults + 1
  /\ net' = [net EXCEPT ![e] = Tail(@)]
  /\ UNCHANGED <<worker, history, open, dialled, challenges>>

\* The proxy (external) answers an INVITE of a call it has passed none of on, and
\* does not pass it on.
Challenges(e, code) ==
  /\ challenges < MaxChallenges /\ net[e] # <<>> /\ IsInvite(net[e][1])
  /\ net[e][1].call \notin passed
  /\ challenges' = challenges + 1
  /\ net' = [net EXCEPT
       ![e] = Tail(@),
       ![Peer(e)] = @ \o (IF TryingFirst THEN <<Response(net[e][1], "Trying")>> ELSE <<>>)
                      \o <<Response(net[e][1], code)>>]
  /\ heard' = heard \cup {net[e][1]}
  /\ UNCHANGED <<worker, told, put_down, passed, open, dialled, faults>>

\* The connection goes, with what was on it, and each end makes it again.
Break ==
  LET again == [e \in End |-> ConnectionRemade(worker[e])]
  IN  /\ worker["a"].reliable /\ worker["b"].reliable /\ faults < MaxFaults
      /\ faults' = faults + 1
      /\ net' = [e \in End |-> IF open[e] = "gone" \/ open[Peer(e)] = "gone" THEN <<>>
                               ELSE again[Peer(e)].out]
      /\ UNCHANGED <<worker, history, open, dialled, challenges>>

-----------------------------------------------------------------------------
(* Time passing.                                                           *)

ResendOne(e, slot) ==
  /\ Running(e) /\ Quiet /\ Resends(worker[e], slot)
  /\ Turns(e, Resend(worker[e], slot))
  /\ UNCHANGED <<put_down, heard, passed, open, budgets>>

ExpireOne(e, slot) ==
  /\ Running(e) /\ Quiet /\ Expires(worker[e], slot)
  /\ Turns(e, Expire(worker[e], slot))
  /\ UNCHANGED <<put_down, heard, passed, open, budgets>>

\* Also on the way out: wait_briefly runs the timers.
HeldIsServed(e) ==
  /\ open[e] # "gone" /\ worker[e].held_dial # NoCall /\ ~StillGettingRidOfACall(worker[e])
  /\ Turns(e, ServeHeldDial(worker[e]))
  /\ UNCHANGED <<put_down, heard, passed, open, budgets>>

\* HOLD_A_DIAL: longer than a CANCEL and its answers take.
HeldTooLong(e) ==
  /\ Running(e) /\ Quiet
  /\ worker[e].held_dial # NoCall /\ StillGettingRidOfACall(worker[e])
  /\ Turns(e, GiveUpHeldDial(worker[e]))
  /\ UNCHANGED <<put_down, heard, passed, open, budgets>>

\* ABSORB: what was answered long ago is forgotten.
Forget(e) ==
  /\ Running(e) /\ Quiet /\ worker[e].kept # {}
  /\ worker' = [worker EXCEPT ![e].kept = {}]
  /\ UNCHANGED <<net, history, open, budgets>>

\* What the two programs and the wire do without being asked to.
System ==
  \E e \in End :
    \/ \E readable \in BOOLEAN : Receive(e, readable)
    \/ \E slot \in Slots : ResendOne(e, slot) \/ ExpireOne(e, slot)
    \/ HeldIsServed(e) \/ Leave(e)

Due ==
  \E e \in End :
    /\ open[e] # "gone"
    /\ \/ net[e] # <<>>
       \/ open[e] = "leaving"
       \/ worker[e].held_dial # NoCall /\ ~StillGettingRidOfACall(worker[e])
       \/ Quiet /\ \E slot \in Slots : Resends(worker[e], slot) \/ Expires(worker[e], slot)

Next ==
  \/ \E e \in End :
       \/ Dial(e) \/ HangUp(e) \/ Quit(e) \/ Lose(e) \/ HeldTooLong(e) \/ Forget(e)
       \/ \E usable \in BOOLEAN : Answer(e, usable)
       \/ \E readable \in BOOLEAN : Overtake(e, readable)
       \/ \E readable \in BOOLEAN : Repeat(e, readable)
       \/ \E code \in Challenge : Challenges(e, code)
  \/ System
  \/ Break

Spec == Init /\ [][Next]_vars

\* A thread turns at least every 20 ms, the link hands over what arrives and
\* the timers run out: the system does not stop with something to do.  Nothing
\* is assumed of the users, who may let a call ring and leave one up for ever.
FairSpec == Spec /\ ([]<>~Due \/ []<><<System>>_vars)

-----------------------------------------------------------------------------
(* What must hold.                                                         *)

TypeOK ==
  /\ worker \in [End -> Worker]
  /\ net \in [End -> Seq(Message)]
  /\ heard \subseteq Message /\ passed \subseteq Call \cup {NoCall}
  /\ open \in [End -> {"running", "leaving", "gone"}]
  /\ dialled \in 0 .. MaxDials /\ faults \in 0 .. MaxFaults /\ challenges \in 0 .. MaxChallenges

\* "a CANCEL must not be sent until a provisional response has" (9.1), or it
\* finds no transaction to cancel, is answered 481, and the telephone rings: a
\* CANCEL on its way, or to be sent again, comes after the INVITE it cancels.
Sent(e) == {net[Peer(e)][i] : i \in 1 .. Len(net[Peer(e)])}
CancelFindsInvite ==
  \A e \in End : \A m \in Sent(e) \cup {worker[e].cancel.request} :
    m.code = "Request" /\ m.method = "CANCEL" => [m EXCEPT !.method = "INVITE"] \in heard

\* "Ending a live call is one BYE", however often it is asked for, sent again
\* and repeated on the way: no two for one call from one end differ.
Byes(e) == {m \in Sent(e) \cup {worker[e].bye.request} : m.method = "BYE" /\ m.code = "Request"}
OneBye == \A e \in End : \A m, n \in Byes(e) : m.call = n.call => m = n

\* "The window watches this field to know when a call has ended" (state): it is
\* idle when there is no call and only then, and says that a call is up when one
\* is and only then, or a modem waits for a carrier that is gone, or a call that
\* is over at the modem is left up.
StateIsTrue ==
  \A e \in End :
    /\ worker[e].state = "idle" <=> worker[e].call = NoDialog
    /\ worker[e].state \in {"up", "answered"} <=> worker[e].call.established

\* finish_call: "Whatever is left over from it goes with it": what rings at an
\* end is the call it is in, and never the INVITE of one that is over, which
\* nobody will answer and which keeps the line busy.
NothingRingsOn ==
  \A e \in End :
    Running(e) /\ worker[e].ringing # Nothing => worker[e].ringing.call = worker[e].call.call

=============================================================================
