-------------------------------- MODULE Ppp ---------------------------------
(***************************************************************************)
(* Two PPP links over one call.  The line keeps frames in order and may    *)
(* lose them (Deframer drops what fails its check).                        *)
(*                                                                         *)
(* Nothing here knows the time.  Every timer of a link runs for the same   *)
(* three seconds, and those of one end that run together were started      *)
(* together, so they expire together; with nothing on its way an interval  *)
(* passes at one end and then at the other (Interval), and one that is     *)
(* over before the answer could come is one of MaxEarly.                   *)
(***************************************************************************)
EXTENDS PppLink, FiniteSets

CONSTANTS Calls,      \* subset of [Ends -> Setting]: what the two ends are set to
          MaxLoss,    \* frames the line may lose
          MaxEarly,   \* intervals shorter than a round trip
          MaxClose    \* [Ends -> Nat]: closes by each user

Ends    == {"Server", "Caller"}
Peer(e) == IF e = "Server" THEN "Caller" ELSE "Server"

ASSUME PppBounds ==
  /\ Calls \subseteq [Ends -> Setting]
  /\ MaxLoss \in Nat /\ MaxEarly \in Nat /\ MaxClose \in [Ends -> Nat]

VARIABLES
  call,     \* what the two ends are set to
  opened,   \* Link::opened
  link,     \* [Ends -> Link], the line taken from each
  wire,     \* [Ends -> Seq(Frame)]: what each end has sent
  ahead,    \* the end whose clock is one interval ahead
  losses, early, closes

vars == <<call, opened, link, wire, ahead, losses, early, closes>>

environment == <<losses, early, closes>>

TypeOK ==
  /\ call \in Calls
  /\ opened \in [Ends -> BOOLEAN]
  /\ link \in [Ends -> Link]
  /\ wire \in [Ends -> Seq(Frame)]
  /\ ahead \in Ends \cup {"neither"}
  /\ losses \in Nat /\ early \in Nat /\ closes \in [Ends -> Nat]

Init ==
  /\ call \in Calls
  /\ opened = [e \in Ends |-> FALSE]
  /\ link = [e \in Ends |-> NewLink(call[e])]
  /\ wire = [e \in Ends |-> <<>>]
  /\ ahead = "neither"
  /\ losses = 0 /\ early = 0 /\ closes = [e \in Ends |-> 0]

\* End e is now l, the modem has taken its line, and "heard" frames of the
\* other end's are off the wire.
Now(e, l, heard) ==
  /\ link' = [link EXCEPT ![e] = [l EXCEPT !.line = <<>>]]
  /\ wire' = [wire EXCEPT ![e] = @ \o l.line,
                          ![Peer(e)] = SubSeq(@, heard + 1, Len(@))]
  /\ UNCHANGED call

-----------------------------------------------------------------------------
OpenEnd(e) ==
  /\ ~ opened[e]
  /\ opened' = [opened EXCEPT ![e] = TRUE]
  /\ Now(e, OpenLink(link[e]), 0)
  /\ UNCHANGED <<ahead, environment>>

CloseEnd(e) ==
  /\ opened[e] /\ closes[e] < MaxClose[e]
  /\ closes' = [closes EXCEPT ![e] = @ + 1]
  /\ Now(e, UserCloses(link[e]), 0)
  /\ UNCHANGED <<opened, ahead, losses, early>>

Arrives(e, protocol) == wire[Peer(e)] # <<>> /\ Head(wire[Peer(e)]).protocol = protocol

Receives(e, protocol) ==
  /\ Arrives(e, protocol)
  /\ Now(e, Feed(link[e], Head(wire[Peer(e)])), 1)
  /\ UNCHANGED <<opened, ahead, environment>>

ReceiveLcp(e)  == Receives(e, "Lcp")
ReceiveIpcp(e) == Receives(e, "Ipcp")
ReceiveAuth(e) == Receives(e, "Auth")

Lose(e) ==
  /\ wire[e] # <<>> /\ losses < MaxLoss
  /\ losses' = losses + 1
  /\ wire' = [wire EXCEPT ![e] = Tail(@)]
  /\ UNCHANGED <<call, opened, link, ahead, early, closes>>

Quiet == \A e \in Ends : wire[e] = <<>>

MayPass(e) ==
  /\ Quiet /\ opened[Peer(e)] /\ Waiting(link[e])
  /\ ahead = e => ~ Waiting(link[Peer(e)])

Interval(e) ==
  /\ MayPass(e)
  /\ ahead' = IF ahead = Peer(e) THEN "neither" ELSE e
  /\ Now(e, Tick(link[e]), 0)
  /\ UNCHANGED <<opened, environment>>

EarlyInterval(e) ==
  /\ ~ Quiet /\ early < MaxEarly /\ Waiting(link[e])
  /\ early' = early + 1
  /\ Now(e, Tick(link[e]), 0)
  /\ UNCHANGED <<opened, ahead, losses, closes>>

-----------------------------------------------------------------------------
Step(e) ==
  \/ OpenEnd(e) \/ CloseEnd(e)
  \/ ReceiveLcp(e) \/ ReceiveIpcp(e) \/ ReceiveAuth(e)
  \/ Lose(e) \/ Interval(e) \/ EarlyInterval(e)

Next == \E e \in Ends : Step(e)

Spec == Init /\ [][Next]_vars

Receipt(e) == ReceiveLcp(e) \/ ReceiveIpcp(e) \/ ReceiveAuth(e)

\* The modem brings the call up at both ends and carries what is sent, and
\* the caller of step() passes the time.  This is weak fairness, written with
\* the guard of each action for ENABLED: TLC would go through all the rounds
\* of pump to find that out.
Fairness ==
  \A e \in Ends :
    /\ []<>(opened[e])                 \/ []<><<OpenEnd(e)>>_vars
    /\ []<>(wire[Peer(e)] = <<>>)      \/ []<><<Receipt(e)>>_vars
    /\ []<>(~ MayPass(e))              \/ []<><<Interval(e)>>_vars

FairSpec == Spec /\ Fairness

-----------------------------------------------------------------------------
(* Safety.                                                                 *)

\* session.rs: a session waits on its Restart timer exactly in the states
\* that can time out, so that none of them, the pause after a
\* Terminate-Request included, is ever left for good.
TimerRuns == \A e \in Ends : \A s \in {link[e].lcp, link[e].ipcp} :
  s.timer <=> Waits(s.state)

\* link.rs: ROUNDS rounds are enough to say and report everything.
NothingLeftOver == \A e \in Ends :
  LET l == link[e] IN
  /\ l.lcp.out = <<>> /\ l.ipcp.out = <<>> /\ AuthOut(l) = <<>>
  /\ l.lcp.reports = <<>> /\ l.ipcp.reports = <<>>

Carries(e) == link[e].phase = "Network"

\* ipcp.rs: two ends that both carry IP mean the same addresses, and what one
\* compresses the other can read, whatever is still on its way.
NetworkAgreed ==
  (\A e \in Ends : Carries(e)) =>
    \A e \in Ends :
      /\ link[e].ipcp.protocol.remote = link[Peer(e)].ipcp.protocol.local
      /\ link[e].compressor = link[Peer(e)].decompressor

\* auth.rs, link.rs: nobody without the right password is let into the
\* network phase of an end that asked for one.
NotLetIn == \A e \in Ends :
  call[e].demands # "None" /\ call[Peer(e)].account = "wrong" => ~ Carries(e)

\* auth.rs: while users leave it alone, no end closes the link of a caller
\* with the right password, whatever is lost.
Accepted(method) == \A e \in Ends :
  /\ call[Peer(e)].demands = method /\ call[e].account = "right"
  /\ \A d \in Ends : closes[d] = 0
  => \A d \in Ends : link[d].lcp.state \notin {"Closing", "Closed"}

PapAccepted == Accepted("Pap")

\* "CHAP's peer has nothing to repeat; the challenger does."
ChapAccepted == Accepted("Chap")

-----------------------------------------------------------------------------
(* Liveness.                                                               *)

\* link.rs: unless a user closes it, a link comes to carry IP at both ends
\* and goes on, when nobody asks who is calling or the caller's password is
\* right.  Not for CHAP: see ChapAccepted.
Welcome == \A e \in Ends :
  call[e].demands = "None" \/ (call[e].demands = "Pap" /\ call[Peer(e)].account = "right")

LinkOpens ==
  Welcome => <>(\E e \in Ends : closes[e] > 0) \/ <>[](\A e \in Ends : Carries(e))

\* A link that a user closes is down in the end, at both ends.
CloseEnds == \A e \in Ends :
  closes[e] > 0 ~> \A d \in Ends :
    link[d].lcp.state \in {"Initial", "Starting", "Closed", "Stopped"}
=============================================================================
