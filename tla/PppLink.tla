------------------------------ MODULE PppLink -------------------------------
(***************************************************************************)
(* One end of a PPP link, Link of crates/ppp/src/link.rs: the phases of    *)
(* RFC 1661 over an LCP session, an authentication and an IPCP session.    *)
(*                                                                         *)
(* "coded" is Framer's half of what LCP agreed and "reads" is Deframer's:  *)
(* a frame sent under the agreed settings and read under the default ones  *)
(* loses its control characters and fails its check (frame.rs).            *)
(***************************************************************************)
EXTENDS PppSession, PppAuth

Phase == {"Dead", "Establish", "Authenticate", "Network", "Terminate"}

Frame == [protocol : {"Lcp", "Ipcp", "Auth"}, coded : BOOLEAN, body : Message \cup AuthPacket]

Link ==
  [phase : Phase, lcp : Session, ipcp : Session,
   account : Account, prover : Prover \cup {Idle}, authenticator : Authenticator \cup {Idle},
   coded : BOOLEAN, reads : BOOLEAN,
   compressor : BOOLEAN, decompressor : BOOLEAN, line : Seq(Frame)]

\* What is set for an end: its addresses, whether it compresses, the account
\* it would give and the method it demands of the far end.
Setting == [local : Address, remote : Address, compress : BOOLEAN,
            account : Account, demands : Method]

NewLink(c) ==
  [phase |-> "Dead", lcp |-> NewSession(NewLcp(c.demands)),
   ipcp |-> NewSession(NewIpcp(c.local, c.remote, c.compress)),
   account |-> c.account, prover |-> Idle, authenticator |-> Idle,
   coded |-> FALSE, reads |-> FALSE,
   compressor |-> FALSE, decompressor |-> FALSE, line |-> <<>>]

-----------------------------------------------------------------------------
(* send: LCP always goes out as if nothing had been negotiated.            *)

\* A mutant: LCP goes out under what was negotiated, like everything else.
FramedAlike(l, protocol, bodies) ==
  [i \in 1 .. Len(bodies) |-> [protocol |-> protocol, coded |-> l.coded, body |-> bodies[i]]]

Framed(l, protocol, bodies) ==
  [i \in 1 .. Len(bodies) |->
     [protocol |-> protocol, coded |-> protocol # "Lcp" /\ l.coded, body |-> bodies[i]]]

AuthOut(l) == (IF l.prover = Idle THEN <<>> ELSE l.prover.out)
                \o (IF l.authenticator = Idle THEN <<>> ELSE l.authenticator.out)

Said(end) == IF end = Idle THEN end ELSE [end EXCEPT !.out = <<>>]

FlushAuthentication(l) ==
  [l EXCEPT !.line = @ \o Framed(l, "Auth", AuthOut(l)),
            !.prover = Said(@), !.authenticator = Said(@)]

Flush(l) ==
  LET lcp  == [l EXCEPT !.line = @ \o Framed(l, "Lcp", l.lcp.out), !.lcp.out = <<>>]
      auth == FlushAuthentication(lcp)
  IN  [auth EXCEPT !.line = @ \o Framed(l, "Ipcp", l.ipcp.out), !.ipcp.out = <<>>]

-----------------------------------------------------------------------------
(* What follows from LCP's reports.                                        *)

CloseLink(l) ==
  [l EXCEPT !.prover = Idle, !.authenticator = Idle, !.phase = "Terminate",
            !.ipcp = Fire(@, Close), !.lcp = Fire(@, Close)]

BeginNetwork(l) ==
  [l EXCEPT !.phase = "Establish", !.ipcp = Fire(Fire(@, Open), Up)]

\* What this end agreed to prove, and what it asked the far end to.
BeginAuthentication(l) ==
  LET theirs == l.lcp.protocol.agreed
      ours   == l.lcp.protocol.wanted
  IN  IF theirs = "None" /\ ours = "None" THEN BeginNetwork(l)
      ELSE [l EXCEPT !.phase = "Authenticate",
                     !.prover = IF theirs = "None" THEN @ ELSE NewProver(theirs, l.account),
                     !.authenticator = IF ours = "None" THEN @ ELSE NewAuthenticator(ours)]

LcpUp(l) == BeginAuthentication([l EXCEPT !.coded = TRUE, !.reads = TRUE])

LcpDown(l) ==
  [l EXCEPT !.coded = FALSE, !.reads = FALSE, !.compressor = FALSE, !.decompressor = FALSE,
            !.ipcp = Fire(@, Down), !.prover = Idle, !.authenticator = Idle,
            !.phase = "Dead"]

LcpReport(l, report) ==
  CASE report = "Up"                   -> LcpUp(l)
    [] report \in {"Down", "Finished"} -> LcpDown(l)
    [] report = "Started"              -> l

\* follow_authentication.  The refusal goes out ahead of the Terminate-Request.
Outcomes(l) == {end.outcome : end \in {l.prover, l.authenticator} \ {Idle}}

\* A mutant: the network phase begins as soon as nobody has failed.
FollowUnsettled(l) ==
  IF l.phase # "Authenticate" THEN l
  ELSE IF "Failed" \in Outcomes(l) THEN CloseLink(FlushAuthentication(l))
  ELSE BeginNetwork(l)

FollowAuthentication(l) ==
  IF l.phase # "Authenticate" THEN l
  ELSE IF "Failed" \in Outcomes(l) THEN CloseLink(FlushAuthentication(l))
  ELSE IF Outcomes(l) \subseteq {"Passed"} THEN BeginNetwork(l)
  ELSE l

IpcpReport(l, report) ==
  CASE report = "Up" ->
         [l EXCEPT !.phase = "Network", !.compressor = l.ipcp.protocol.sending,
                   !.decompressor = l.ipcp.protocol.receiving]
    [] report \in {"Down", "Finished"} ->
         [l EXCEPT !.phase = IF @ = "Network" THEN "Establish" ELSE @,
                   !.compressor = FALSE, !.decompressor = FALSE]
    [] report = "Started" -> l

\* At most three reports of a session ever wait, and they are taken in order.
InTurn(Report(_, _), l, reports) ==
  LET Nth(m, i) == IF i > Len(reports) THEN m ELSE Report(m, reports[i])
  IN  Nth(Nth(Nth(l, 1), 2), 3)

FollowLcp(l)  == InTurn(LcpReport, [l EXCEPT !.lcp.reports = <<>>], l.lcp.reports)
FollowIpcp(l) == InTurn(IpcpReport, [l EXCEPT !.ipcp.reports = <<>>], l.ipcp.reports)

\* Output before reports: what was said goes out under what was agreed when
\* it was said.
Round(l) == FollowIpcp(FollowAuthentication(FollowLcp(Flush(l))))

\* A mutant: not rounds enough.
PumpOnce(l) == Round(l)

\* pump, ROUNDS = 6 times; a round that finds nothing changes nothing.
Pump(l) == Round(Round(Round(Round(Round(Round(l))))))

-----------------------------------------------------------------------------
(* What the modem, the user and the clock do to it.                        *)

OpenLink(l) ==
  Pump([l EXCEPT !.phase = "Establish", !.lcp = Fire(Fire(@, Open), Up)])

UserCloses(l) ==
  Pump([l EXCEPT !.ipcp = Fire(@, Close), !.lcp = Fire(@, Close), !.phase = "Terminate"])

\* An authentication packet is for whichever end of the exchange it concerns,
\* and dropped when that is not running, or runs the other method.
MethodOf(code) ==
  IF code \in {"AuthenticateRequest", "AuthenticateAck", "AuthenticateNak"}
  THEN "Pap" ELSE "Chap"

DeliverAuth(l, m) ==
  IF m.code \in ForChecker
  THEN IF l.authenticator.method = MethodOf(m.code)
       THEN [l EXCEPT !.authenticator = CheckerReceives(@, m)] ELSE l
  ELSE IF l.prover.method = MethodOf(m.code)
       THEN [l EXCEPT !.prover = ProverReceives(@, m)] ELSE l

Readable(l, frame) == frame.coded => l.reads

Deliver(l, frame) ==
  CASE frame.protocol = "Lcp"  -> [l EXCEPT !.lcp = Receive(@, frame.body)]
    [] frame.protocol = "Ipcp" -> [l EXCEPT !.ipcp = Receive(@, frame.body)]
    [] frame.protocol = "Auth" -> DeliverAuth(l, frame.body)

Feed(l, frame) == Pump(IF Readable(l, frame) THEN Deliver(l, frame) ELSE l)

\* tick, when the time of everything that runs at this end is up.
Tick(l) ==
  Pump([l EXCEPT !.lcp = Expire(@), !.prover = ProverWaited(@),
                 !.authenticator = CheckerWaited(@), !.ipcp = Expire(@)])

\* Something at this end waits for time to pass.
Waiting(l) ==
  \/ l.lcp.timer \/ l.ipcp.timer
  \/ "Waiting" \in Outcomes(l)
=============================================================================
