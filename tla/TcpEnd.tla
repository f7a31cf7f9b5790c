------------------------------- MODULE TcpEnd -------------------------------
(***************************************************************************)
(* What happens to a connection: its timers (tick, retransmit) and the     *)
(* segments that arrive for it (receive), of crates/tcp/src/connection.rs. *)
(***************************************************************************)
EXTENDS TcpConnection

(***************************************************************************)
(* Retransmission.                                                         *)
(***************************************************************************)

\* resend_front: a probe of a closed window, the SYN, the FIN, or the front
\* of the data.
ResendFront(c) ==
  LET size == Least(Len(c.outgoing), Most(Least(Mss, Flight(c)), 1))
      again ==
        IF c.state = "SynSent" /\ c.outgoing = <<>> THEN SynOf(c)
        ELSE IF c.state = "SynReceived" /\ c.outgoing = <<>> THEN SynAckOf(c)
        ELSE IF c.outgoing = <<>> /\ c.fin_sent
        THEN Blank(c, {"FIN", "ACK"}, c.una, c.rcv)
        ELSE [Blank(c, {"ACK"}, c.una, c.rcv) EXCEPT !.data = SubSeq(c.outgoing, 1, size)]
      probe == [Blank(c, {"ACK"}, c.una, c.rcv) EXCEPT !.data = <<Head(c.outgoing)>>]
  IN  CASE Flight(c) = 0 /\ c.wnd = 0 /\ c.outgoing # <<>> ->
             Arm(Say([c EXCEPT !.nxt = Add(@, 1)], probe))
        [] Flight(c) = 0 /\ ~(c.wnd = 0 /\ c.outgoing # <<>>) ->
             [c EXCEPT !.retransmit_at = FALSE]
        [] Flight(c) > 0 -> Arm(Say(c, again))

Retransmit(c) ==
  LET counted == [c EXCEPT !.retransmits = @ + 1]
      slowed  == IF Flight(c) > 0
                 THEN [counted EXCEPT !.ssthresh = Most(Flight(c) \div 2, 2 * Mss), !.cwnd = Mss]
                 ELSE counted
  IN  IF counted.retransmits > MaxRetransmits THEN Abort(counted)
      ELSE ResendFront([slowed EXCEPT !.recovering = FALSE, !.duplicates = 0])

\* tick, with the deadlines that have passed by then.
Tick(c, due) ==
  IF "time_wait" \in due THEN GiveUp(c, "Closed")
  ELSE LET acked == IF "ack" \in due THEN Acknowledge(c) ELSE c
       IN  IF "retransmit" \in due THEN Retransmit(acked) ELSE acked

(***************************************************************************)
(* The acknowledgment a segment carries.                                   *)
(***************************************************************************)

\* open_window: the handshake is over.
OpenWindow(c) ==
  [c EXCEPT !.cwnd = IF c.retransmits > 0 THEN Mss ELSE InitialSegments * Mss,
            !.retransmits = 0]

Establish(c) ==
  [OpenWindow(c) EXCEPT !.state = "Established", !.reports = @ \cup {"Established"}]

GrowWindow(c, acked) ==
  IF c.recovering
  THEN [c EXCEPT !.duplicates = 0, !.recovering = FALSE, !.cwnd = c.ssthresh]
  ELSE LET more == IF c.cwnd < c.ssthresh THEN Least(acked, Mss)
                   ELSE Most((Mss * Mss) \div Most(c.cwnd, 1), 1)
       IN  [c EXCEPT !.duplicates = 0, !.cwnd = Least(c.cwnd + more, InitialSsthresh)]

DuplicatesBeforeResending == 3

DuplicateAck(c) ==
  LET d == [c EXCEPT !.duplicates = @ + 1]
      flight == Most(Flight(c) \div 2, 2 * Mss)
  IN  CASE d.duplicates < DuplicatesBeforeResending -> d
        [] d.duplicates = DuplicatesBeforeResending ->
             [ResendFront([d EXCEPT !.ssthresh = flight, !.recovering = TRUE])
                EXCEPT !.cwnd = flight + 3 * Mss]
        [] d.duplicates > DuplicatesBeforeResending ->
             [d EXCEPT !.cwnd = Least(@ + Mss, InitialSsthresh)]

\* A mutant: a FIN or a SYN acknowledged takes an octet along.
DropOneMore(c, advanced) ==
  [c EXCEPT !.outgoing = SubSeq(@, advanced + 2, Len(@))]

\* The octets acknowledged leave the queue; a SYN or a FIN has no room in it.
DropAcknowledged(c, advanced) ==
  [c EXCEPT !.outgoing = SubSeq(@, Least(advanced, Len(@)) + 1, Len(@))]

\* A mutant: an acknowledgment stops the timer, whatever is still outstanding.
AdvanceUntimed(c, ack) ==
  LET acked == Dist(c.una, ack)
      moved == [DropAcknowledged([c EXCEPT !.una = ack], acked) EXCEPT !.retransmits = 0]
  IN  [GrowWindow(moved, acked) EXCEPT !.retransmit_at = FALSE]

\* A mutant: an acknowledgment of some is one of all.
AdvanceToAll(c, ack) ==
  LET acked == Dist(c.una, c.nxt)
      moved == [DropAcknowledged([c EXCEPT !.una = c.nxt], acked) EXCEPT !.retransmits = 0]
  IN  Arm(GrowWindow(moved, acked))

\* SND.UNA moves over what is newly acknowledged.
Advance(c, ack) ==
  LET acked == Dist(c.una, ack)
      moved == [DropAcknowledged([c EXCEPT !.una = ack], acked) EXCEPT !.retransmits = 0]
  IN  Arm(GrowWindow(moved, acked))

\* Not from a segment older than the one the window was last read from.
UpdateWindow(c, s) ==
  IF Before(c.wl1, s.seq) \/ (c.wl1 = s.seq /\ ~Before(s.ack, c.wl2))
  THEN [c EXCEPT !.wnd = s.wnd, !.wl1 = s.seq, !.wl2 = s.ack] ELSE c

FinAcked(c) == c.fin_sent /\ c.una = c.nxt

Going(c)   == [c |-> c, on |-> TRUE]
Stopped(c) == [c |-> c, on |-> FALSE]

\* The per-state additions of take_acknowledgment's end.
AfterAck(c) ==
  CASE c.state = "FinWait1" /\ FinAcked(c) -> Going([c EXCEPT !.state = "FinWait2"])
    [] c.state = "Closing" /\ FinAcked(c)  -> Going(EnterTimeWait(c))
    [] c.state = "LastAck" /\ FinAcked(c)  -> Stopped(GiveUp(c, "Closed"))
    [] c.state = "TimeWait"                -> Stopped(EnterTimeWait(Acknowledge(c)))
    [] OTHER -> Going(c)

\* take_acknowledgment of a connection that is established: the connection,
\* and whether the rest of the segment is looked at.
TakeAckOpen(c, s) ==
  LET moved == IF Before(c.una, s.ack) THEN Advance(c, s.ack)
               ELSE IF s.ack = c.una /\ s.data = <<>> /\ c.outgoing # <<>>
               THEN DuplicateAck(c) ELSE c
  IN  IF Before(c.nxt, s.ack) THEN Stopped(Acknowledge(c))
      ELSE AfterAck(UpdateWindow(moved, s))

TakeAcknowledgment(c, s) ==
  IF c.state # "SynReceived" THEN TakeAckOpen(c, s)
  ELSE IF Before(c.una, s.ack) /\ ~Before(c.nxt, s.ack) THEN TakeAckOpen(Establish(c), s)
  ELSE Stopped(Say(c, Blank(c, {"RST"}, s.ack, 0)))

(***************************************************************************)
(* The text a segment carries, and whether it was the last.                *)
(***************************************************************************)

\* Take a piece whose first octet is at "seq" into the buffer, as far as
\* there is room and from where the stream has got to.
TakeIn(c, seq, data) ==
  LET already == Dist(seq, c.rcv)
      take    == Least(Len(data) - already, LessFloor(Buffer, Len(c.incoming)))
  IN  [c EXCEPT !.incoming = @ \o SubSeq(data, already + 1, already + take),
                !.rcv = Add(@, take)]

Reaches(c, piece) ==
  /\ ~Before(c.rcv, piece.seq)
  /\ Before(c.rcv, Add(piece.seq, Len(piece.data)))

\* The first piece held that now begins where the stream does goes in.
TakeHeld(c) ==
  LET at == {i \in DOMAIN c.held : Reaches(c, c.held[i])}
  IN  IF at = {} THEN c
      ELSE LET piece == c.held[Min(at)]
           IN  [TakeIn(c, piece.seq, piece.data) EXCEPT !.held = RemoveAt(@, Min(at))]

Room(c) == LessFloor(Buffer, Len(c.incoming))

\* held.retain: the pieces that are in "kept", in their order.
Retain(held, kept) ==
  LET Part[n \in 0 .. Len(held)] ==
        IF n = 0 THEN <<>>
        ELSE IF held[n] \in kept THEN Append(Part[n - 1], held[n]) ELSE Part[n - 1]
  IN  Part[Len(held)]

\* deliver: the piece, then whatever was held behind it while there is room.
\* The one that found none is dropped.
Deliver(c, seq, data) ==
  LET Taken[n \in 0 .. Len(c.held)] ==
        IF n = 0 THEN TakeIn(c, seq, data)
        ELSE IF Room(Taken[n - 1]) > 0 THEN TakeHeld(Taken[n - 1]) ELSE Taken[n - 1]
      all   == TakeHeld(Taken[Len(c.held)])
      ahead == {piece \in Range(all.held) : Before(all.rcv, Add(piece.seq, Len(piece.data)))}
  IN  Advertise([c EXCEPT !.incoming = all.incoming, !.rcv = all.rcv,
                          !.held = Retain(all.held, ahead)])

\* A mutant: what is held is taken off the window.
HoldInWindow(c, seq, data) ==
  [c EXCEPT !.held = Append(@, [seq |-> seq, data |-> data]),
            !.rwnd = LessFloor(@, Len(data))]

Hold(c, seq, data) ==
  IF (\E i \in DOMAIN c.held : c.held[i].seq = seq) \/ Len(c.held) >= MostHeld THEN c
  ELSE [c EXCEPT !.held = Append(@, [seq |-> seq, data |-> data])]

HearFin(c) ==
  LET heard == [c EXCEPT !.rcv = Add(@, 1), !.reports = @ \cup {"Closing"}]
  IN  CASE c.state \in {"SynReceived", "Established"} -> [heard EXCEPT !.state = "CloseWait"]
        [] c.state = "FinWait1" /\ ~FinAcked(c)       -> [heard EXCEPT !.state = "Closing"]
        [] c.state = "FinWait1" /\ FinAcked(c)        -> EnterTimeWait(heard)
        [] c.state \in {"FinWait2", "TimeWait"}       -> EnterTimeWait(heard)
        [] OTHER -> heard

\* At least every second segment is acknowledged at once.
AcknowledgeSoon(c) ==
  LET d == [c EXCEPT !.reports = @ \cup {"Data"}, !.since_ack = @ + 1]
  IN  IF d.since_ack >= 2 THEN Acknowledge(d) ELSE [d EXCEPT !.ack_at = TRUE]

\* A mutant: a FIN past a gap is heard.
TakeAnyFin(c, s) ==
  LET delivered == s.data # <<>> /\ ~Finished(c) /\ s.seq = c.rcv /\ Room(c) > 0
      d == IF delivered THEN Deliver(c, s.seq, s.data) ELSE c
  IN  IF "FIN" \in s.flags THEN Acknowledge(HearFin(d))
      ELSE IF delivered THEN AcknowledgeSoon(d) ELSE c

TakeTextAndFin(c, s) ==
  LET seq  == Add(s.seq, IF "SYN" \in s.flags THEN 1 ELSE 0)
      text == s.data # <<>> /\ ~Finished(c)
      next == seq = c.rcv \/ (Before(seq, c.rcv) /\ Dist(seq, c.rcv) < Len(s.data))
      delivered == text /\ next /\ Room(c) > 0
      d    == IF delivered THEN Deliver(c, seq, s.data) ELSE c
  IN  IF text /\ Before(c.rcv, seq) /\ Within(seq, c.rcv, c.rwnd)
      THEN Acknowledge(Hold(c, seq, s.data))
      ELSE IF "FIN" \in s.flags /\ Add(seq, Len(s.data)) = d.rcv THEN Acknowledge(HearFin(d))
      ELSE IF delivered THEN AcknowledgeSoon(d) ELSE c

(***************************************************************************)
(* A segment arrives, by state (RFC 9293 3.10.7).                          *)
(***************************************************************************)

ArrivedListening(c, s) ==
  IF "RST" \in s.flags THEN c
  ELSE IF "ACK" \in s.flags THEN Say(c, ResetFor(s))
  ELSE IF "SYN" \notin s.flags THEN c
  ELSE LET d == [c EXCEPT !.state = "SynReceived", !.rcv = Add(s.seq, 1),
                          !.una = c.iss, !.nxt = Add(c.iss, 1),
                          !.wnd = s.wnd, !.wl1 = s.seq]
       IN  Transmit(d, <<SynAckOf(d)>>)

ArrivedSynSent(c, s) ==
  LET ack   == "ACK" \in s.flags
      wrong == ack /\ (~Before(c.iss, s.ack) \/ Before(c.nxt, s.ack))
      heard == [c EXCEPT !.rcv = Add(s.seq, 1), !.una = IF ack THEN s.ack ELSE @,
                         !.wnd = s.wnd, !.wl1 = s.seq, !.wl2 = s.ack]
      open  == Acknowledge(Establish(heard))
      text  == IF SegLen(s) > 1 \/ "FIN" \in s.flags THEN TakeTextAndFin(open, s) ELSE open
      both  == [heard EXCEPT !.state = "SynReceived"]
  IN  CASE wrong /\ "RST" \in s.flags  -> c
        [] wrong /\ "RST" \notin s.flags -> Say(c, Blank(c, {"RST"}, s.ack, 0))
        [] ~wrong /\ "RST" \in s.flags -> IF ack THEN GiveUp(c, "Refused") ELSE c
        [] ~wrong /\ s.flags \cap {"RST", "SYN"} = {} -> c
        [] OTHER -> IF Before(c.iss, heard.una) THEN Emit(text)
                    ELSE Transmit(both, <<SynAckOf(both)>>)

\* acceptable: Table 6, a window of nothing having rows of its own.
Acceptable(c, s) ==
  IF SegLen(s) = 0
  THEN IF c.rwnd = 0 THEN s.seq = c.rcv ELSE Within(s.seq, c.rcv, c.rwnd)
  ELSE \/ Within(s.seq, c.rcv, c.rwnd)
       \/ Within(Add(s.seq, SegLen(s) - 1), c.rcv, c.rwnd)

ResetBy(c) ==
  CASE c.state = "SynReceived" /\ c.passive -> Relisten(c)
    [] c.state = "SynReceived" /\ ~c.passive -> GiveUp(c, "Refused")
    [] c.state \in {"Closing", "LastAck", "TimeWait"} -> GiveUp(c, "Closed")
    [] OTHER -> GiveUp(c, "Reset")

ArrivedSynchronized(c, s) ==
  LET t == TakeAcknowledgment(c, s)
  IN  IF ~Acceptable(c, s) THEN IF "RST" \in s.flags THEN c ELSE Acknowledge(c)
      ELSE IF "RST" \in s.flags THEN ResetBy(c)
      ELSE IF "SYN" \in s.flags
      THEN IF c.state = "SynReceived" /\ c.passive THEN Relisten(c) ELSE Acknowledge(c)
      ELSE IF "ACK" \notin s.flags THEN c
      ELSE IF t.on THEN Emit(TakeTextAndFin(t.c, s)) ELSE t.c

Receive(c, s) ==
  CASE c.state = "Closed" -> IF "RST" \in s.flags THEN c ELSE Say(c, ResetFor(s))
    [] c.state = "Listen" -> ArrivedListening(c, s)
    [] c.state = "SynSent" -> ArrivedSynSent(c, s)
    [] OTHER -> ArrivedSynchronized(c, s)
=============================================================================
