-------------------------------- MODULE Lapm --------------------------------
(***************************************************************************)
(* Two LAPM entities facing each other over a telephone line, as the       *)
(* originator's and the answerer's V42Stack (crates/ec/src/stack.rs) drive *)
(* them: begin_protocol, next_bit, dispatch, tick and drain.               *)
(*                                                                         *)
(* The line keeps frames in order and may lose them: a frame whose check   *)
(* sequence fails is dropped by feed_bit.  It never duplicates one.        *)
(*                                                                         *)
(* Nothing here knows the time.  T401 is meant to outlast a round trip, so *)
(* an armed timer expires once nothing is on its way any more (Quiet); a   *)
(* value too short for the line is an expiry before that (MaxEarly), which *)
(* t401_for's comment reports from real calls.                             *)
(***************************************************************************)
EXTENDS LapmEntity

CONSTANTS MaxSend,          \* [Ends -> Nat]: chunks each user hands to send
          MaxLoss,          \* frames the line may lose
          MaxEarly,         \* expiries of T401 that come too early
          EarlyIn,          \* the states in which they may
          MaxReleases,      \* [Ends -> Nat]: calls of disconnect
          MaxUndecodable,   \* streams that will not decode
          UndecodableResets \* UNDECODABLE_RESETS of stack.rs: 3

Ends    == {"Originator", "Answerer"}
Peer(e) == IF e = "Originator" THEN "Answerer" ELSE "Originator"

ASSUME LapmBounds ==
  /\ MaxSend \in [Ends -> Nat] /\ MaxReleases \in [Ends -> Nat]
  /\ MaxLoss \in Nat /\ MaxEarly \in Nat /\ EarlyIn \subseteq State
  /\ MaxUndecodable \in Nat /\ UndecodableResets \in Nat

VARIABLES
  begun,        \* the originator has run begin_protocol
  ent,          \* [Ends -> Entity]
  wire,         \* [Ends -> Seq(Frame)]: what each end has sent, in order
  accepted,     \* [Ends -> Nat]: chunks handed to send so far
  undecodable,  \* [Ends -> Nat]: V42Stack::undecodable
  losses, early, releases

vars == <<begun, ent, wire, accepted, undecodable, losses, early, releases>>

environment == <<losses, early, releases>>

TypeOK ==
  /\ begun \in BOOLEAN
  /\ ent \in [Ends -> Entity]
  /\ wire \in [Ends -> Seq(Frame)]
  /\ accepted \in [Ends -> Nat]
  /\ undecodable \in [Ends -> Nat]
  /\ losses \in Nat /\ early \in Nat
  /\ releases \in [Ends -> Nat]

Init ==
  /\ begun = FALSE
  /\ ent = [e \in Ends |-> NewEntity]
  /\ wire = [e \in Ends |-> <<>>]
  /\ accepted = [e \in Ends |-> 0]
  /\ undecodable = [e \in Ends |-> 0]
  /\ losses = 0 /\ early = 0
  /\ releases = [e \in Ends |-> 0]

-----------------------------------------------------------------------------
(* What the users and the stack above ask for.                             *)

BeginProtocol ==
  /\ ~ begun
  /\ begun' = TRUE
  /\ ent' = [ent EXCEPT !["Originator"] =
               IF @.state = "AwaitingEstablishment" THEN @ ELSE Connect(@)]
  /\ UNCHANGED <<wire, accepted, undecodable, environment>>

UserSends(e) ==
  /\ accepted[e] < MaxSend[e]
  /\ accepted' = [accepted EXCEPT ![e] = @ + 1]
  /\ ent' = [ent EXCEPT ![e] = SendData(@, accepted[e] + 1)]
  /\ UNCHANGED <<begun, wire, undecodable, environment>>

UserReleases(e) ==
  /\ releases[e] < MaxReleases[e]
  /\ ent[e].state # "Disconnected"
  /\ releases' = [releases EXCEPT ![e] = @ + 1]
  /\ ent' = [ent EXCEPT ![e] = Disconnect(@)]
  /\ UNCHANGED <<begun, wire, accepted, undecodable, losses, early>>

-----------------------------------------------------------------------------
(* The line.                                                               *)

\* next_bit with the encoder empty: everything LAPM has to say goes out.
Transmit(e) ==
  LET pumped == Pump(ent[e])
  IN  /\ pumped.out # <<>>
      /\ wire' = [wire EXCEPT ![e] = @ \o pumped.out]
      /\ ent' = [ent EXCEPT ![e] = [pumped EXCEPT !.out = <<>>]]
      /\ UNCHANGED <<begun, accepted, undecodable, environment>>

Lose(e) ==
  /\ wire[e] # <<>>
  /\ losses < MaxLoss
  /\ losses' = losses + 1
  /\ wire' = [wire EXCEPT ![e] = Tail(@)]
  /\ UNCHANGED <<begun, ent, accepted, undecodable, early, releases>>

\* The next frame to reach e is of this type.
Arrives(e, type) == wire[Peer(e)] # <<>> /\ Head(wire[Peer(e)]).type = type

Arriving(e) == Head(wire[Peer(e)])

\* Entity e, having heard the next frame, is now l.
Heard(e, l) ==
  /\ ent' = [ent EXCEPT ![e] = l]
  /\ wire' = [wire EXCEPT ![Peer(e)] = Tail(@)]
  /\ UNCHANGED <<begun, accepted, environment>>

RecvSabme(e) ==
  Arrives(e, "SABME") /\ Heard(e, OnSabme(ent[e], Arriving(e))) /\ UNCHANGED undecodable

RecvDisc(e) ==
  Arrives(e, "DISC") /\ Heard(e, OnDisc(ent[e], Arriving(e))) /\ UNCHANGED undecodable

RecvUa(e) ==
  Arrives(e, "UA") /\ Heard(e, OnUa(ent[e], Arriving(e))) /\ UNCHANGED undecodable

RecvDm(e) ==
  Arrives(e, "DM") /\ Heard(e, OnDm(ent[e], Arriving(e))) /\ UNCHANGED undecodable

\* A numbered frame first stands in for a UA; outside the connected state it
\* is discarded.
Open(e)       == ent[e].state \in {"AwaitingEstablishment", "Connected"}
NowOpen(e)    == StandInForUa(ent[e])

RecvRr(e) ==
  Arrives(e, "RR") /\ Open(e) /\ Heard(e, OnRr(NowOpen(e), Arriving(e)))
    /\ UNCHANGED undecodable

RecvRej(e) ==
  Arrives(e, "REJ") /\ Open(e) /\ Heard(e, OnRej(NowOpen(e), Arriving(e)))
    /\ UNCHANGED undecodable

RecvSrej(e) ==
  Arrives(e, "SREJ") /\ Open(e) /\ Heard(e, OnSrej(NowOpen(e), Arriving(e)))
    /\ UNCHANGED undecodable

RecvI(e) ==
  Arrives(e, "I") /\ Open(e) /\ Heard(e, OnI(NowOpen(e), Arriving(e)))
    /\ UNCHANGED undecodable

\* drain: the octets of an I frame that was taken would not decode.
Undecodable(e) ==
  LET took == OnI(NowOpen(e), Arriving(e))
  IN  /\ Arrives(e, "I") /\ Open(e)
      /\ took.vr # NowOpen(e).vr
      /\ undecodable["Originator"] + undecodable["Answerer"] < MaxUndecodable
      /\ undecodable' = [undecodable EXCEPT ![e] = @ + 1]
      /\ Heard(e, IF undecodable'[e] > UndecodableResets THEN Disconnect(took)
                                                         ELSE Connect(took))

Discard(e) ==
  /\ \E type \in Numbered : Arrives(e, type)
  /\ ~ Open(e)
  /\ Heard(e, ent[e]) /\ UNCHANGED undecodable

Receive(e) ==
  \/ RecvSabme(e) \/ RecvDisc(e) \/ RecvUa(e) \/ RecvDm(e)
  \/ RecvRr(e) \/ RecvRej(e) \/ RecvSrej(e) \/ RecvI(e)
  \/ Undecodable(e) \/ Discard(e)

-----------------------------------------------------------------------------
(* T401.                                                                   *)

\* Nothing is on its way, and neither end has anything to put on it.
Quiet == \A e \in Ends : wire[e] = <<>> /\ Pump(ent[e]).out = <<>>

Due(e) ==
  /\ ent[e].timer
  /\ \/ Quiet /\ early' = early
     \/ ~ Quiet /\ early < MaxEarly /\ ent[e].state \in EarlyIn /\ early' = early + 1

Expires(e, l) ==
  /\ Due(e)
  /\ ent' = [ent EXCEPT ![e] = l]
  /\ UNCHANGED <<begun, wire, accepted, undecodable, losses, releases>>

LastTry(e) == Expired(ent[e]).retries >= N400

GiveUp(e) == LastTry(e) /\ Expires(e, Fail(Expired(ent[e])))

AskAgain(e) ==
  /\ ~ LastTry(e) /\ ent[e].state = "AwaitingEstablishment"
  /\ Expires(e, ResendSabme(Expired(ent[e])))

ReleaseAgain(e) ==
  /\ ~ LastTry(e) /\ ent[e].state = "AwaitingRelease"
  /\ Expires(e, ResendDisc(Expired(ent[e])))

Poll(e) ==
  /\ ~ LastTry(e) /\ ent[e].state = "Connected"
  /\ Expires(e, PollPeer(Expired(ent[e])))

Expire(e) == GiveUp(e) \/ AskAgain(e) \/ ReleaseAgain(e) \/ Poll(e)

-----------------------------------------------------------------------------
Next ==
  \/ BeginProtocol
  \/ \E e \in Ends :
       \/ UserSends(e) \/ UserReleases(e)
       \/ Transmit(e) \/ Lose(e) \/ Receive(e) \/ Expire(e)

\* The audio callback clocks next_bit, feed_bit and tick for as long as the
\* call lasts, so a step of the line or of T401 that stays possible is taken.
\* Nothing obliges the users to send or to release, or the line to lose.
Fairness ==
  /\ WF_vars(BeginProtocol)
  /\ \A e \in Ends : /\ WF_vars(Transmit(e))
                     /\ WF_vars(Receive(e))
                     /\ WF_vars(Quiet /\ Expire(e))

Spec     == Init /\ [][Next]_vars
FairSpec == Spec /\ Fairness

-----------------------------------------------------------------------------
(* What each user has been given and told.                                 *)

\* The data among events, in their order: what take_received hands up.
Given(events) ==
  LET data[n \in 0 .. Len(events)] ==
        IF n = 0 THEN <<>>
        ELSE IF events[n].type = "Data" THEN Append(data[n - 1], events[n].info)
        ELSE data[n - 1]
  IN  data[Len(events)]
Received(e)   == Given(ent[e].events)

Told(e, type) == \E i \in 1 .. Len(ent[e].events) : ent[e].events[i].type = type

\* Nobody has asked e to release, and e has not been told of a loss.
Settled(e) == /\ releases[e] = 0 /\ undecodable[e] = 0
              /\ ~ Told(e, "Released") /\ ~ Told(e, "Reset")

-----------------------------------------------------------------------------
(* Safety of each end by itself; LapmProofs proves both.                   *)

WindowOf(l) ==
  IF l.state = "Connected"
  THEN /\ Len(l.unacked) = Outstanding(l.va, l.vs)
       /\ Len(l.unacked) <= K
       /\ \A i \in 1 .. Len(l.unacked) : l.unacked[i].ns = Plus(l.va, i - 1)
  ELSE l.unacked = <<>>

\* V(A)..V(S) and the retransmission buffer tell the same story: the buffer
\* holds one frame for each number outstanding, in order, and the window is
\* kept (acknowledge, pump, reset_variables and enter_disconnected).
WindowInv == \A e \in Ends : WindowOf(ent[e])

Waiting(l) ==
  \/ l.state \in {"AwaitingEstablishment", "AwaitingRelease"}
  \/ l.state = "Connected" /\ l.unacked # <<>>

\* An end that waits for something is timing it: without T401 running, a lost
\* frame would leave it waiting for ever (start_timer and stop_timer, in
\* every handler that calls them).
NoSilentWait == \A e \in Ends : Waiting(ent[e]) => ent[e].timer

=============================================================================
