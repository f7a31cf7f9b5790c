--------------------------- MODULE TcpConnection ---------------------------
(***************************************************************************)
(* One TCP connection: Connection of crates/tcp/src/connection.rs, with    *)
(* the sequence arithmetic of seq.rs.  A connection is a record, and every *)
(* call or arriving segment an operator from the record to the next one;   *)
(* what it wants sent gathers in "out" until the stack collects it.        *)
(*                                                                         *)
(* The clock is left out: a deadline is a flag that says whether it is     *)
(* set, and the round-trip estimator that moves it is not modelled.        *)
(***************************************************************************)
EXTENDS Integers, Sequences, SequencesExt, FiniteSetsExt

CONSTANTS SeqSpace,          \* 2^32
          Buffer,            \* RECEIVE_BUFFER, 8192
          Mss,               \* the segment size both ends settle on
          MaxRetransmits,    \* MAX_RETRANSMITS, 12
          MostHeld,          \* hold's MOST, 16
          InitialSegments,   \* open_window's 2, 3 or 4, by the size of a segment
          InitialSsthresh    \* INITIAL_SSTHRESH, 65535

ASSUME TcpConstants ==
  /\ SeqSpace \in Nat \ {0} /\ SeqSpace % 2 = 0
  /\ Buffer \in Nat \ {0} /\ 4 * Buffer < SeqSpace
  /\ Mss \in Nat \ {0} /\ InitialSegments \in 2 .. 4
  /\ MaxRetransmits \in Nat /\ MostHeld \in Nat /\ InitialSsthresh \in Nat

Number == 0 .. SeqSpace - 1

(* seq.rs: two numbers have a distance, and an order only within half the  *)
(* space of each other.                                                    *)
AddUnwrapped(a, n) == a + n                \* A mutant.
Add(a, n)          == (a + n) % SeqSpace
Dist(a, b)         == (b - a) % SeqSpace
Before(a, b)       == Dist(b, a) >= SeqSpace \div 2
Within(a, from, n) == Dist(from, a) < n

Least(a, b)    == IF a <= b THEN a ELSE b
Most(a, b)     == IF a >= b THEN a ELSE b
LessFloor(a, b) == Most(a - b, 0)          \* saturating_sub

TcpState == {"Closed", "Listen", "SynSent", "SynReceived", "Established", "FinWait1",
             "FinWait2", "CloseWait", "Closing", "LastAck", "TimeWait"}

Synchronized(c) == c.state \notin {"Closed", "Listen", "SynSent"}
Finished(c)     == c.state \in {"CloseWait", "Closing", "LastAck", "TimeWait", "Closed"}

Flag   == {"SYN", "ACK", "FIN", "RST"}
Octet  == Nat \ {0}      \* an octet is its place in the stream it belongs to
Report == {"Established", "Data", "Closing", "Reset", "Refused", "Closed"}

Segment == [seq : Number, ack : Number, flags : SUBSET Flag, wnd : Nat, data : Seq(Octet)]

SegLen(s) == Len(s.data) + (IF "SYN" \in s.flags THEN 1 ELSE 0)
                         + (IF "FIN" \in s.flags THEN 1 ELSE 0)

Connection ==
  [state : TcpState, passive : BOOLEAN, iss : Number,
   una : Number, nxt : Number, wnd : Nat, wl1 : Number, wl2 : Number,
   rcv : Number, rwnd : Nat,
   outgoing : Seq(Octet), incoming : Seq(Octet), held : Seq([seq : Number, data : Seq(Octet)]),
   closing : BOOLEAN, fin_sent : BOOLEAN,
   cwnd : Nat, ssthresh : Nat, duplicates : Nat, recovering : BOOLEAN, retransmits : Nat,
   retransmit_at : BOOLEAN, time_wait_at : BOOLEAN, ack_at : BOOLEAN, since_ack : Nat,
   out : Seq(Segment), reports : SUBSET Report]

New(iss, state, passive) ==
  [state |-> state, passive |-> passive, iss |-> iss,
   una |-> iss, nxt |-> iss, wnd |-> 0, wl1 |-> 0, wl2 |-> 0,
   rcv |-> 0, rwnd |-> Buffer,
   outgoing |-> <<>>, incoming |-> <<>>, held |-> <<>>,
   closing |-> FALSE, fin_sent |-> FALSE,
   cwnd |-> Mss, ssthresh |-> InitialSsthresh, duplicates |-> 0,
   recovering |-> FALSE, retransmits |-> 0,
   retransmit_at |-> FALSE, time_wait_at |-> FALSE, ack_at |-> FALSE, since_ack |-> 0,
   out |-> <<>>, reports |-> {}]

-----------------------------------------------------------------------------
(* Sending a segment.                                                      *)

Blank(c, flags, seq, ack) ==
  [seq |-> seq, ack |-> ack, flags |-> flags, wnd |-> c.rwnd, data |-> <<>>]

Say(c, segment) == [c EXCEPT !.out = Append(@, segment)]

Arm(c) == [c EXCEPT !.retransmit_at = (c.una # c.nxt)]

\* transmit, of segments that take up sequence space.
Transmit(c, segments) ==
  [Arm(c) EXCEPT !.out = @ \o segments, !.ack_at = FALSE, !.since_ack = 0]

Acknowledge(c) ==
  IF Synchronized(c)
  THEN [Say(c, Blank(c, {"ACK"}, c.nxt, c.rcv)) EXCEPT !.ack_at = FALSE, !.since_ack = 0]
  ELSE c

SynOf(c)    == Blank(c, {"SYN"}, c.iss, 0)
SynAckOf(c) == Blank(c, {"SYN", "ACK"}, c.iss, c.rcv)

\* reset_for: what answers a segment no connection wants.
ResetFor(s) ==
  IF "ACK" \in s.flags
  THEN [seq |-> s.ack, ack |-> 0, flags |-> {"RST"}, wnd |-> 0, data |-> <<>>]
  ELSE [seq |-> 0, ack |-> Add(s.seq, SegLen(s)), flags |-> {"RST", "ACK"}, wnd |-> 0,
        data |-> <<>>]

GiveUp(c, why) ==
  [c EXCEPT !.state = "Closed", !.outgoing = <<>>, !.held = <<>>,
            !.retransmit_at = FALSE, !.time_wait_at = FALSE, !.ack_at = FALSE,
            !.reports = @ \cup {why}]

\* A mutant: no 2 MSL timer.
EnterForGood(c) ==
  [c EXCEPT !.state = "TimeWait", !.retransmit_at = FALSE, !.ack_at = FALSE]

EnterTimeWait(c) ==
  [c EXCEPT !.state = "TimeWait", !.retransmit_at = FALSE, !.ack_at = FALSE,
            !.time_wait_at = TRUE]

Relisten(c) ==
  [c EXCEPT !.state = "Listen", !.outgoing = <<>>, !.incoming = <<>>, !.held = <<>>,
            !.closing = FALSE, !.fin_sent = FALSE,
            !.retransmit_at = FALSE, !.ack_at = FALSE, !.una = c.iss, !.nxt = c.iss]

-----------------------------------------------------------------------------
(* emit: as much as the window, the size and Nagle between them allow.     *)

Flight(c) == Dist(c.una, c.nxt)

\* Whole segments, and a short one when nothing is in flight or it is the
\* last there will be.
SendData(c) ==
  LET allowed == LessFloor(Least(c.wnd, c.cwnd), Flight(c))
      waiting == LessFloor(Len(c.outgoing), Flight(c))
      usable  == Least(allowed, waiting)
      whole   == usable \div Mss
      short   == usable % Mss
      last    == c.closing /\ usable = waiting
      sent    == IF short > 0 /\ (Flight(c) + whole = 0 \/ last) THEN usable ELSE whole * Mss
      Piece(i) ==
        LET from == (i - 1) * Mss
        IN  [Blank(c, {"ACK"}, Add(c.nxt, from), c.rcv)
               EXCEPT !.data = SubSeq(c.outgoing, Flight(c) + from + 1,
                                      Flight(c) + Least(from + Mss, sent))]
      pieces == (sent + Mss - 1) \div Mss
  IN  IF sent = 0 THEN c
      ELSE Transmit([c EXCEPT !.nxt = Add(@, sent)], [i \in 1 .. pieces |-> Piece(i)])

\* A window of nothing is asked about by the timer.
AwaitWindow(c) ==
  IF c.wnd = 0 /\ c.outgoing # <<>> /\ c.una = c.nxt
  THEN [c EXCEPT !.retransmit_at = TRUE] ELSE c

\* A mutant: the FIN does not wait for the data before it.
SendFinAhead(c) ==
  IF c.closing /\ ~c.fin_sent
  THEN [Transmit([c EXCEPT !.fin_sent = TRUE, !.nxt = Add(@, 1)],
                 <<Blank(c, {"FIN", "ACK"}, c.nxt, c.rcv)>>)
          EXCEPT !.state = IF c.state = "CloseWait" THEN "LastAck" ELSE "FinWait1"]
  ELSE c

SendFin(c) ==
  IF c.closing /\ ~c.fin_sent /\ Flight(c) = Len(c.outgoing)
  THEN [Transmit([c EXCEPT !.fin_sent = TRUE, !.nxt = Add(@, 1)],
                 <<Blank(c, {"FIN", "ACK"}, c.nxt, c.rcv)>>)
          EXCEPT !.state = CASE c.state = "CloseWait" -> "LastAck"
                             [] c.state \in {"Established", "SynReceived"} -> "FinWait1"
                             [] OTHER -> c.state]
  ELSE c

Emit(c) ==
  IF ~Synchronized(c) \/ c.state = "TimeWait" THEN c
  ELSE SendFin(AwaitWindow(SendData(c)))

-----------------------------------------------------------------------------
(* The calls of the program above.                                         *)

ConnectSized(iss) ==
  LET c == [New(iss, "SynSent", FALSE) EXCEPT !.nxt = Add(iss, 1)]
  IN  Transmit(c, <<SynOf(c)>>)

SendRoom(c) == 2 * Buffer - Len(c.outgoing)

SendCall(c, octets) ==
  IF c.state \in {"Established", "CloseWait"}
  THEN Emit([c EXCEPT !.outgoing = @ \o octets]) ELSE c

CloseCall(c) ==
  CASE c.state \in {"Listen", "SynSent"} ->
         [c EXCEPT !.state = "Closed", !.reports = @ \cup {"Closed"}]
    [] c.state \in {"SynReceived", "Established", "CloseWait"} ->
         Emit([c EXCEPT !.closing = TRUE])
    [] OTHER -> c

Abort(c) ==
  GiveUp(IF Synchronized(c) THEN Say(c, Blank(c, {"RST"}, c.nxt, 0)) ELSE c, "Closed")

\* advertise: no window that is not worth filling.
Advertise(c) ==
  LET free  == LessFloor(Buffer, Len(c.incoming))
      worth == Least(Mss, Buffer \div 2)
  IN  IF free >= c.rwnd \/ free >= worth THEN [c EXCEPT !.rwnd = free] ELSE c

TakeReceived(c) ==
  IF c.incoming = <<>> THEN c ELSE Advertise([c EXCEPT !.incoming = <<>>])
=============================================================================
