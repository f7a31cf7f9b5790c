------------------------------ MODULE TcpProofs ------------------------------
(***************************************************************************)
(* What holds of the stacks of Tcp for every buffer, segment size, number  *)
(* space of more than four buffers, and any losses, repeats, overtakings   *)
(* and early timers: the types, that whatever is waited for has a timer,   *)
(* and that the window is never taken back.                                *)
(*                                                                         *)
(* The lemmas follow TcpConnection and TcpEnd, one for every operator: what*)
(* it leaves as it was, of the numbers a timer goes by (Clock) and of the  *)
(* window (Seen), and that a connection stays Fit.                         *)
(***************************************************************************)
EXTENDS Tcp, Induction, SequenceTheorems, TLAPS

-----------------------------------------------------------------------------
(* Sequence numbers.                                                       *)

LEMMA Sizes ==
  /\ SeqSpace \in Nat /\ Buffer \in Nat /\ 4 * Buffer < SeqSpace /\ 1 <= Buffer
  /\ Mss \in Nat /\ 1 <= Mss /\ Buffer \div 2 \in Nat
BY TcpConstants

LEMMA AddType ==
  ASSUME NEW a \in Number, NEW n \in Int
  PROVE  Add(a, n) \in Number
BY TcpConstants DEF Add, Number

LEMMA DistType ==
  ASSUME NEW a \in Number, NEW b \in Number
  PROVE  /\ Dist(a, b) \in Number
         /\ Dist(a, b) = IF b >= a THEN b - a ELSE b - a + SeqSpace
         /\ (Dist(a, b) = 0) <=> (a = b)
BY TcpConstants DEF Dist, Number

LEMMA AddAdd ==
  ASSUME NEW a \in Number, NEW m \in Nat, NEW n \in Nat, m + n < SeqSpace
  PROVE  Add(Add(a, m), n) = Add(a, m + n)
<1>1. Add(a, m) = IF a + m < SeqSpace THEN a + m ELSE a + m - SeqSpace
  BY TcpConstants DEF Add, Number
<1>2. CASE a + m < SeqSpace
  <2>1. Add(a, m) = a + m /\ a + m + n = a + (m + n)
    BY <1>1, <1>2 DEF Number
  <2>. QED
    BY <2>1 DEF Add
<1>3. CASE a + m >= SeqSpace
  <2>1. a + m - SeqSpace \in Number /\ a + (m + n) - SeqSpace \in Number
    BY <1>3, TcpConstants DEF Number
  <2>2. (a + (m + n)) % SeqSpace = a + (m + n) - SeqSpace
    BY <1>3, <2>1, TcpConstants DEF Number
  <2>3. (a + m - SeqSpace + n) % SeqSpace = a + (m + n) - SeqSpace
    BY <2>1, TcpConstants DEF Number
  <2>4. Add(a, m) = a + m - SeqSpace
    BY <1>1, <1>3, TcpConstants DEF Number
  <2>5. Add(Add(a, m), n) = (a + m - SeqSpace + n) % SeqSpace
    BY <2>4 DEF Add
  <2>6. Add(a, m + n) = (a + (m + n)) % SeqSpace
    BY DEF Add
  <2>. QED
    BY <2>2, <2>3, <2>5, <2>6
<1>4. a + m < SeqSpace \/ a + m >= SeqSpace
  BY TcpConstants DEF Number
<1>. QED
  BY <1>2, <1>3, <1>4

LEMMA AddDist ==
  ASSUME NEW a \in Number, NEW g \in Nat, g < SeqSpace
  PROVE  Dist(a, Add(a, g)) = g
BY TcpConstants DEF Add, Dist, Number

LEMMA AddZero ==
  ASSUME NEW a \in Number
  PROVE  Add(a, 0) = a
BY TcpConstants DEF Add, Number

\* A piece that reaches past what was expected next begins before it.
LEMMA ReachesLonger ==
  ASSUME NEW seq \in Number, NEW rcv \in Number, NEW len \in Nat,
         ~ Before(rcv, seq), Before(rcv, Add(seq, len))
  PROVE  Dist(seq, rcv) < len
BY TcpConstants DEF Before, Add, Dist, Number

LEMMA WholeFits ==
  ASSUME NEW x \in Nat
  PROVE  /\ x \div Mss \in Nat /\ (x \div Mss) * Mss \in Nat /\ (x \div Mss) * Mss <= x
         /\ x % Mss \in Nat
BY TcpConstants

LEMMA PieceFits ==
  ASSUME NEW sent \in Nat, sent > 0, NEW i \in 1 .. (sent + Mss - 1) \div Mss
  PROVE  (i - 1) * Mss \in Nat /\ (i - 1) * Mss < sent
<1>. DEFINE k == (sent + Mss - 1) \div Mss
<1>1. k \in Nat /\ k * Mss <= sent + Mss - 1
  BY TcpConstants, WholeFits
<1>2. (i - 1) * Mss <= (k - 1) * Mss /\ (i - 1) * Mss \in Nat
  BY TcpConstants, <1>1
<1>3. (k - 1) * Mss = k * Mss - Mss
  BY TcpConstants, <1>1
<1>. QED
  BY <1>1, <1>2, <1>3, TcpConstants

-----------------------------------------------------------------------------
(* Connections, and what is said.                                          *)

\* What a timer goes by, and what the far end is told of the window.
Clock(c) == <<c.state, c.una, c.nxt, c.wnd, c.outgoing, c.retransmit_at>>
Seen(c)  == <<c.rcv, c.rwnd, c.incoming>>

\* advertise keeps to what there is room for, or leaves a window as it was.
Worth == Least(Mss, Buffer \div 2)

Fit(c) ==
  /\ c \in Connection
  /\ Len(c.outgoing) <= 2 * Buffer /\ Len(c.incoming) <= Buffer
  /\ c.rwnd <= Room(c) \/ (c.rwnd <= Buffer /\ Room(c) < Worth)
  /\ c.state = "SynSent" => c.una # c.nxt

Over(c)  == c.state \in {"Closed", "TimeWait"}
Kept(c)  == Over(c) \/ (Outstanding(c) => c.retransmit_at)
Armed(c) == Over(c) \/ (c.una # c.nxt => c.retransmit_at)

LEMMA FitAlike ==
  ASSUME NEW c, Fit(c), NEW d \in Connection, Clock(d) = Clock(c), Seen(d) = Seen(c)
  PROVE  /\ Fit(d)
         /\ Kept(c) => Kept(d)
         /\ Armed(c) => Armed(d)
BY DEF Fit, Clock, Seen, Room, Kept, Armed, Over, Outstanding

LEMMA BlankType ==
  ASSUME NEW c \in Connection, NEW flags \in SUBSET Flag, NEW seq \in Number, NEW ack \in Number
  PROVE  /\ Blank(c, flags, seq, ack) \in Segment
         /\ \A data \in Seq(Octet) :
              [Blank(c, flags, seq, ack) EXCEPT !.data = data] \in Segment
<1>1. Blank(c, flags, seq, ack) =
        [seq |-> seq, ack |-> ack, flags |-> flags, wnd |-> c.rwnd, data |-> <<>>]
  BY DEF Blank
<1>2. c.rwnd \in Nat /\ <<>> \in Seq(Octet)
  BY DEF Connection
<1>3. ASSUME NEW data \in Seq(Octet)
      PROVE  [seq |-> seq, ack |-> ack, flags |-> flags, wnd |-> c.rwnd, data |-> data] \in Segment
  BY <1>2 DEF Segment
<1>4. ASSUME NEW data \in Seq(Octet)
      PROVE  [Blank(c, flags, seq, ack) EXCEPT !.data = data]
             = [seq |-> seq, ack |-> ack, flags |-> flags, wnd |-> c.rwnd, data |-> data]
  BY <1>1
<1>. QED
  BY <1>1, <1>2, <1>3, <1>4

LEMMA ZeroNumber ==
  0 \in Number
BY TcpConstants DEF Number

LEMMA SayKeeps ==
  ASSUME NEW c \in Connection, NEW s \in Segment
  PROVE  Say(c, s) \in Connection /\ Clock(Say(c, s)) = Clock(c) /\ Seen(Say(c, s)) = Seen(c)
<1>. Append(c.out, s) \in Seq(Segment)
  BY DEF Connection
<1>. QED
  BY DEF Say, Connection, Clock, Seen

LEMMA ArmKeeps ==
  ASSUME NEW c \in Connection
  PROVE  /\ Arm(c) = [c EXCEPT !.retransmit_at = (c.una # c.nxt)]
         /\ Arm(c) \in Connection /\ Seen(Arm(c)) = Seen(c)
         /\ Clock(Arm(c)) = <<c.state, c.una, c.nxt, c.wnd, c.outgoing, c.una # c.nxt>>
BY DEF Arm, Connection, Clock, Seen

LEMMA TransmitKeeps ==
  ASSUME NEW c \in Connection, NEW segments \in Seq(Segment)
  PROVE  LET d == Transmit(c, segments)
         IN  /\ d \in Connection /\ Seen(d) = Seen(c)
             /\ Clock(d) = <<c.state, c.una, c.nxt, c.wnd, c.outgoing, c.una # c.nxt>>
<1>. DEFINE a == Arm(c)
<1>1. a \in Connection /\ Seen(a) = Seen(c)
      /\ Clock(a) = <<c.state, c.una, c.nxt, c.wnd, c.outgoing, c.una # c.nxt>>
  BY ArmKeeps
<1>. HIDE DEF a
<1>2. a.out \o segments \in Seq(Segment)
  BY <1>1 DEF Connection
<1>3. Transmit(c, segments) = [a EXCEPT !.out = a.out \o segments, !.ack_at = FALSE, !.since_ack = 0]
  BY DEF Transmit, a
<1>. DEFINE more == a.out \o segments
            d == [a EXCEPT !.out = more, !.ack_at = FALSE, !.since_ack = 0]
<1>. HIDE DEF more
<1>4. d \in Connection /\ Seen(d) = Seen(a) /\ Clock(d) = Clock(a)
  BY <1>1, <1>2 DEF Connection, Seen, Clock, more
<1>. QED
  BY <1>1, <1>3, <1>4 DEF more

LEMMA AcknowledgeKeeps ==
  ASSUME NEW c \in Connection
  PROVE  LET d == Acknowledge(c)
         IN  d \in Connection /\ Clock(d) = Clock(c) /\ Seen(d) = Seen(c)
<1>. DEFINE m == Blank(c, {"ACK"}, c.nxt, c.rcv)
            a == Say(c, m)
<1>1. m \in Segment
  BY BlankType DEF Connection, Flag
<1>2. a \in Connection /\ Clock(a) = Clock(c) /\ Seen(a) = Seen(c)
  BY <1>1, SayKeeps
<1>3. Acknowledge(c) = IF Synchronized(c) THEN [a EXCEPT !.ack_at = FALSE, !.since_ack = 0] ELSE c
  BY DEF Acknowledge
<1>. HIDE DEF a
<1>. DEFINE d == [a EXCEPT !.ack_at = FALSE, !.since_ack = 0]
<1>4. d \in Connection /\ Clock(d) = Clock(a) /\ Seen(d) = Seen(a)
  BY <1>2 DEF Connection, Clock, Seen
<1>. HIDE DEF d
<1>5. Acknowledge(c) = d \/ Acknowledge(c) = c
  BY <1>3 DEF d
<1>. QED
  BY <1>2, <1>4, <1>5

LEMMA GiveUpKeeps ==
  ASSUME NEW c, Fit(c), NEW why \in Report
  PROVE  LET d == GiveUp(c, why)
         IN  Fit(d) /\ d.state = "Closed" /\ Seen(d) = Seen(c)
<1>1. <<>> \in Seq(Octet) /\ <<>> \in Seq([seq : Number, data : Seq(Octet)]) /\ Len(<<>>) = 0
  OBVIOUS
<1>. DEFINE notes == c.reports \cup {why}
            d == [c EXCEPT !.state = "Closed", !.outgoing = <<>>, !.held = <<>>,
                           !.retransmit_at = FALSE, !.time_wait_at = FALSE, !.ack_at = FALSE,
                           !.reports = notes]
<1>2. GiveUp(c, why) = d
  BY DEF GiveUp
<1>3. notes \in SUBSET Report
  BY DEF Fit, Connection
<1>. HIDE DEF notes
<1>4. d \in Connection
  BY <1>1, <1>3 DEF Fit, Connection, TcpState
<1>5. d.state = "Closed" /\ d.outgoing = <<>> /\ Seen(d) = Seen(c) /\ d.incoming = c.incoming /\ d.rwnd = c.rwnd
  BY DEF Fit, Connection, Seen
<1>6. Fit(d)
  BY <1>1, <1>4, <1>5, TcpConstants DEF Fit, Room
<1>. QED
  BY <1>2, <1>5, <1>6

LEMMA EnterTimeWaitKeeps ==
  ASSUME NEW c, Fit(c)
  PROVE  LET d == EnterTimeWait(c)
         IN  Fit(d) /\ d.state = "TimeWait" /\ Seen(d) = Seen(c)
<1>. DEFINE d == EnterTimeWait(c)
<1>1. c \in Connection
  BY DEF Fit
<1>2. d \in Connection
  BY <1>1 DEF EnterTimeWait, Connection, TcpState
<1>3. /\ d.state = "TimeWait" /\ d.rcv = c.rcv /\ d.rwnd = c.rwnd
      /\ d.incoming = c.incoming /\ d.outgoing = c.outgoing
  BY <1>1 DEF EnterTimeWait, Connection
<1>. HIDE DEF d
<1>4. Room(d) = Room(c) /\ Seen(d) = Seen(c)
  BY <1>3 DEF Room, Seen
<1>5. Fit(d)
  BY <1>2, <1>3, <1>4 DEF Fit
<1>. QED
  BY <1>3, <1>4, <1>5 DEF d

LEMMA RelistenKeeps ==
  ASSUME NEW c, Fit(c)
  PROVE  LET d == Relisten(c)
         IN  Fit(d) /\ d.state = "Listen" /\ d.una = d.nxt /\ d.outgoing = <<>>
<1>1. <<>> \in Seq(Octet) /\ <<>> \in Seq([seq : Number, data : Seq(Octet)]) /\ Len(<<>>) = 0
  OBVIOUS
<1>. DEFINE d == Relisten(c)
<1>2. d \in Connection /\ d.state = "Listen" /\ d.una = d.nxt /\ d.outgoing = <<>>
      /\ d.incoming = <<>> /\ d.rwnd = c.rwnd
  <2>1. c \in Connection
    BY DEF Fit
  <2>2. d \in Connection
    BY <1>1, <2>1 DEF Relisten, Connection, TcpState
  <2>3. /\ d.state = "Listen" /\ d.una = d.nxt /\ d.outgoing = <<>>
        /\ d.incoming = <<>> /\ d.rwnd = c.rwnd
    BY <2>1 DEF Relisten, Connection
  <2>. QED
    BY <2>2, <2>3
<1>3. c.rwnd <= Buffer
  BY TcpConstants DEF Fit, Connection, Room, LessFloor, Most
<1>4. Room(d) = Buffer
  BY <1>1, <1>2, TcpConstants DEF Room, LessFloor, Most
<1>. QED
  BY <1>1, <1>2, <1>3, <1>4, TcpConstants DEF Fit

LEMMA NewType ==
  ASSUME NEW iss \in Number, NEW state \in TcpState, NEW passive \in BOOLEAN
  PROVE  New(iss, state, passive) \in Connection
<1>1. <<>> \in Seq(Octet) /\ <<>> \in Seq([seq : Number, data : Seq(Octet)]) /\ <<>> \in Seq(Segment)
  OBVIOUS
<1>. QED
  BY <1>1, TcpConstants, ZeroNumber DEF New, Connection

LEMMA RoomType ==
  ASSUME NEW c \in Connection
  PROVE  /\ Len(c.incoming) \in Nat /\ Room(c) \in Nat /\ Room(c) <= Buffer
         /\ Len(c.incoming) <= Buffer => Room(c) = Buffer - Len(c.incoming)
<1>1. c.incoming \in Seq(Octet)
  BY DEF Connection
<1>2. Len(c.incoming) \in Nat
  BY <1>1
<1>. DEFINE len == Len(c.incoming)
<1>3. Room(c) = IF Buffer - len >= 0 THEN Buffer - len ELSE 0
  BY DEF Room, LessFloor, Most
<1>4. Buffer \in Nat /\ len \in Nat
  BY <1>2, TcpConstants
<1>. HIDE DEF len
<1>5. Room(c) \in Nat /\ Room(c) <= Buffer /\ (len <= Buffer => Room(c) = Buffer - len)
  BY <1>3, <1>4
<1>. QED
  BY <1>4, <1>5 DEF len

LEMMA RoomOfNone ==
  ASSUME NEW c, c.incoming = <<>>
  PROVE  Room(c) = Buffer /\ Len(c.incoming) = 0
<1>1. Len(<<>>) = 0
  OBVIOUS
<1>. QED
  BY <1>1, TcpConstants DEF Room, LessFloor, Most

-----------------------------------------------------------------------------
(* The window that is offered.                                             *)

\* How far the right edge of the window goes on from c to d.
Onward(c, d, k) == \E g \in 0 .. k : Edge(d) = Add(Edge(c), g)

LEMMA OnwardAlike ==
  ASSUME NEW c, c \in Connection, NEW d, Seen(d) = Seen(c), NEW k \in Nat
  PROVE  Onward(c, d, k)
<1>1. c.rcv \in Number /\ c.rwnd \in Nat
  BY DEF Connection
<1>2. Edge(d) = Edge(c)
  BY DEF Edge, Seen
<1>3. Edge(c) \in Number
  BY <1>1, AddType DEF Edge
<1>. QED
  BY <1>2, <1>3, AddZero DEF Onward

LEMMA OnwardNow ==
  ASSUME NEW c \in Connection
  PROVE  Onward(c, c, Buffer + 1)
BY OnwardAlike, Sizes

LEMMA NotTakenBack ==
  ASSUME NEW c, c \in Connection, NEW d, Onward(c, d, Buffer + 1)
  PROVE  ~ Before(Edge(d), Edge(c))
<1>1. c.rcv \in Number /\ c.rwnd \in Nat
  BY DEF Connection
<1>2. Edge(c) \in Number
  BY <1>1, AddType DEF Edge
<1>3. PICK g \in 0 .. Buffer + 1 : Edge(d) = Add(Edge(c), g)
  BY DEF Onward
<1>4. g \in Nat /\ g < SeqSpace \div 2 /\ g < SeqSpace
  BY <1>3, TcpConstants
<1>5. Dist(Edge(c), Edge(d)) = g
  BY <1>2, <1>3, <1>4, AddDist
<1>. QED
  BY <1>4, <1>5, TcpConstants DEF Before

\* What a connection that has taken in more before it has looked at the window.
Filled(c) ==
  /\ c \in Connection
  /\ Len(c.outgoing) <= 2 * Buffer /\ Len(c.incoming) <= Buffer
  /\ c.rwnd <= Buffer
  /\ c.state = "SynSent" => c.una # c.nxt

LEMMA AdvertiseKeeps ==
  ASSUME NEW c, Filled(c)
  PROVE  LET d == Advertise(c)
         IN  /\ Fit(d) /\ Clock(d) = Clock(c)
             /\ d.rcv = c.rcv /\ d.incoming = c.incoming
             /\ \/ d.rwnd = Room(c) /\ (Room(c) >= c.rwnd \/ Room(c) >= Worth)
                \/ d.rwnd = c.rwnd /\ Room(c) < c.rwnd /\ Room(c) < Worth
<1>. DEFINE free == Room(c)
            d == [c EXCEPT !.rwnd = free]
<1>1. Advertise(c) = IF free >= c.rwnd \/ free >= Worth THEN d ELSE c
  BY DEF Advertise, Room, Worth
<1>2. free \in Nat /\ free <= Buffer /\ c.rwnd \in Nat
  BY RoomType DEF Filled, Connection
<1>. HIDE DEF free
<1>3. d \in Connection /\ Clock(d) = Clock(c) /\ d.rcv = c.rcv /\ d.incoming = c.incoming /\ d.rwnd = free
  BY <1>2 DEF Filled, Connection, Clock
<1>. HIDE DEF d
<1>4. Room(d) = Room(c)
  BY <1>3 DEF Room
<1>5. CASE free >= c.rwnd \/ free >= Worth
  <2>1. Advertise(c) = d
    BY <1>1, <1>5
  <2>2. Fit(d)
    BY <1>2, <1>3, <1>4 DEF Fit, Filled, Clock, free
  <2>3. d.rwnd = Room(c) /\ (Room(c) >= c.rwnd \/ Room(c) >= Worth)
    BY <1>3, <1>5 DEF free
  <2>. QED
    BY <1>3, <2>1, <2>2, <2>3
<1>6. CASE ~(free >= c.rwnd \/ free >= Worth)
  <2>1. Advertise(c) = c
    BY <1>1, <1>6
  <2>2. free < c.rwnd /\ free < Worth
    BY <1>2, <1>6, TcpConstants DEF Worth, Least
  <2>3. Fit(c)
    BY <2>2 DEF Fit, Filled, free
  <2>. QED
    BY <2>1, <2>2, <2>3 DEF free
<1>. QED
  BY <1>5, <1>6

LEMMA FitFilled ==
  ASSUME NEW c, Fit(c)
  PROVE  Filled(c) /\ c.rwnd <= Buffer
<1>1. c \in Connection
  BY DEF Fit
<1>2. Room(c) \in Nat /\ Room(c) <= Buffer /\ c.rwnd \in Nat /\ Buffer \in Nat
  BY <1>1, RoomType, TcpConstants DEF Connection
<1>3. c.rwnd <= Buffer
  BY <1>2 DEF Fit
<1>. QED
  BY <1>1, <1>3 DEF Fit, Filled

LEMMA TakeReceivedKeeps ==
  ASSUME NEW c, Fit(c)
  PROVE  LET d == TakeReceived(c)
         IN  Fit(d) /\ Clock(d) = Clock(c) /\ Onward(c, d, Buffer)
<1>. DEFINE e == [c EXCEPT !.incoming = <<>>]
            d == Advertise(e)
<1>0. c \in Connection /\ <<>> \in Seq(Octet) /\ Filled(c) /\ c.rwnd \in Nat /\ c.rcv \in Number
  <2>1. Filled(c) /\ c \in Connection
    BY FitFilled DEF Fit
  <2>2. c.rwnd \in Nat /\ c.rcv \in Number
    BY <2>1 DEF Connection
  <2>. QED
    BY <2>1, <2>2
<1>1. e \in Connection /\ Clock(e) = Clock(c) /\ e.incoming = <<>> /\ e.rcv = c.rcv /\ e.rwnd = c.rwnd
      /\ e.state = c.state /\ e.una = c.una /\ e.nxt = c.nxt /\ e.outgoing = c.outgoing
  BY <1>0 DEF Connection, Clock
<1>2. TakeReceived(c) = IF c.incoming = <<>> THEN c ELSE d
  BY DEF TakeReceived
<1>. HIDE DEF e
<1>3. Room(e) = Buffer /\ Len(e.incoming) = 0
  BY <1>1, RoomOfNone
<1>4. Filled(e)
  BY <1>0, <1>1, <1>3, TcpConstants DEF Filled
<1>5. Fit(d) /\ Clock(d) = Clock(e) /\ d.rcv = c.rcv /\ d.rwnd = Buffer
  <2>1. /\ Fit(d) /\ Clock(d) = Clock(e) /\ d.rcv = e.rcv
        /\ \/ d.rwnd = Room(e)
           \/ d.rwnd = e.rwnd /\ Room(e) < e.rwnd /\ Room(e) < Worth
    BY <1>4, AdvertiseKeeps
  <2>2. ~(Room(e) < e.rwnd)
    BY <1>0, <1>1, <1>3, TcpConstants DEF Filled
  <2>. QED
    BY <1>1, <1>3, <2>1, <2>2
<1>. HIDE DEF d
<1>6. Onward(c, d, Buffer)
  <2>. DEFINE g == Buffer - c.rwnd
  <2>1. g \in 0 .. Buffer /\ c.rwnd + g = Buffer /\ g \in Nat
    BY <1>0, TcpConstants DEF Filled
  <2>2. Add(Edge(c), g) = Add(c.rcv, Buffer)
    BY <1>0, <2>1, AddAdd, TcpConstants DEF Edge
  <2>. QED
    BY <1>5, <2>1, <2>2 DEF Onward, Edge
<1>7. CASE c.incoming = <<>>
  <2>1. TakeReceived(c) = c
    BY <1>2, <1>7
  <2>2. Onward(c, c, Buffer)
    BY <1>0, OnwardAlike, TcpConstants
  <2>. QED
    BY <2>1, <2>2
<1>8. CASE c.incoming # <<>>
  BY <1>1, <1>2, <1>5, <1>6, <1>8
<1>. QED
  BY <1>7, <1>8

-----------------------------------------------------------------------------
\* emit.

\* Only what the far end is still to acknowledge moves, and a timer runs for it.
Sends(c, d) ==
  /\ d \in Connection /\ Seen(d) = Seen(c)
  /\ d.state = c.state /\ d.wnd = c.wnd /\ d.outgoing = c.outgoing /\ d.una = c.una
  /\ \/ d.retransmit_at = c.retransmit_at /\ d.nxt = c.nxt
     \/ d.retransmit_at = (d.una # d.nxt)

LEMMA FlightType ==
  ASSUME NEW c \in Connection
  PROVE  Flight(c) \in Nat /\ Flight(c) < SeqSpace /\ (Flight(c) = 0 <=> c.una = c.nxt)
<1>1. c.una \in Number /\ c.nxt \in Number
  BY DEF Connection
<1>2. /\ Dist(c.una, c.nxt) \in Number
      /\ Dist(c.una, c.nxt) = 0 <=> c.una = c.nxt
  BY <1>1, DistType
<1>. QED
  BY <1>2, TcpConstants DEF Flight, Number

LEMMA SendDataKeeps ==
  ASSUME NEW c, c \in Connection
  PROVE  Sends(c, SendData(c))
<1>. DEFINE flight == Flight(c)
            allowed == LessFloor(Least(c.wnd, c.cwnd), flight)
            waiting == LessFloor(Len(c.outgoing), flight)
            usable  == Least(allowed, waiting)
            whole   == usable \div Mss
            short   == usable % Mss
            last    == c.closing /\ usable = waiting
            sent    == IF short > 0 /\ (flight + whole = 0 \/ last) THEN usable ELSE whole * Mss
            from(i) == (i - 1) * Mss
            text(i) == SubSeq(c.outgoing, flight + from(i) + 1, flight + Least(from(i) + Mss, sent))
            Piece(i) == [Blank(c, {"ACK"}, Add(c.nxt, from(i)), c.rcv) EXCEPT !.data = text(i)]
            pieces == (sent + Mss - 1) \div Mss
            all == [i \in 1 .. pieces |-> Piece(i)]
            next == Add(c.nxt, sent)
            d == [c EXCEPT !.nxt = next]
<1>1. flight \in Nat /\ c.outgoing \in Seq(Octet) /\ Len(c.outgoing) \in Nat
      /\ c.wnd \in Nat /\ c.cwnd \in Nat /\ c.nxt \in Number /\ c.rcv \in Number
  <2>1. flight \in Nat
    BY FlightType
  <2>2. c.outgoing \in Seq(Octet) /\ c.wnd \in Nat /\ c.cwnd \in Nat /\ c.nxt \in Number /\ c.rcv \in Number
    BY DEF Connection
  <2>3. Len(c.outgoing) \in Nat
    BY <2>2
  <2>. QED
    BY <2>1, <2>2, <2>3
<1>2. SendData(c) = IF sent = 0 THEN c ELSE Transmit(d, all)
  BY DEF SendData
<1>. HIDE DEF flight
<1>3. allowed \in Nat /\ waiting \in Nat /\ usable \in Nat /\ usable <= waiting
      /\ waiting <= LessFloor(Len(c.outgoing), flight)
  BY <1>1 DEF LessFloor, Least, Most
<1>4. waiting > 0 => waiting = Len(c.outgoing) - flight
  BY <1>1 DEF LessFloor, Most
<1>. HIDE DEF allowed, waiting, usable
<1>5. whole \in Nat /\ whole * Mss \in Nat /\ whole * Mss <= usable /\ short \in Nat
  BY <1>3, WholeFits
<1>. HIDE DEF whole, short, last
<1>6. sent \in Nat /\ sent <= usable
  BY <1>3, <1>5
<1>. HIDE DEF sent
<1>7. CASE sent = 0
  <2>1. SendData(c) = c
    BY <1>2, <1>7
  <2>. QED
    BY <2>1 DEF Sends
<1>8. CASE sent # 0
  <2>0. waiting = Len(c.outgoing) - flight /\ sent <= Len(c.outgoing) - flight
    BY <1>3, <1>4, <1>6, <1>8
  <2>1. pieces \in Nat
    BY <1>6, TcpConstants, WholeFits
  <2>2. ASSUME NEW i \in 1 .. pieces PROVE Piece(i) \in Segment
    <3>1. from(i) \in Nat /\ from(i) < sent
      BY <1>6, <1>8, PieceFits
    <3>. HIDE DEF from
    <3>. DEFINE m == flight + from(i) + 1
                n == flight + Least(from(i) + Mss, sent)
    <3>2. m \in Nat /\ m >= 1 /\ n \in Nat /\ n <= Len(c.outgoing)
      BY <1>1, <1>6, <2>0, <3>1, TcpConstants, SMTT(20) DEF Least
    <3>3. text(i) = SubSeq(c.outgoing, m, n)
      OBVIOUS
    <3>. HIDE DEF m, n
    <3>4. \A j \in m .. n : c.outgoing[j] \in Octet
      BY <1>1, <3>2, ElementOfSeq
    <3>5. SubSeq(c.outgoing, m, n) \in Seq(Octet)
      BY <3>2, <3>4, SubSeqProperties
    <3>6. Add(c.nxt, from(i)) \in Number /\ {"ACK"} \in SUBSET Flag
      BY <1>1, <3>1, AddType DEF Flag
    <3>. QED
      BY <1>1, <3>3, <3>5, <3>6, BlankType
  <2>3. all \in Seq(Segment)
    <3>. HIDE DEF Piece, pieces
    <3>. QED
      BY <2>1, <2>2
  <2>4. next \in Number
    BY <1>1, <1>6, AddType
  <2>. HIDE DEF all, next
  <2>5. d \in Connection /\ Seen(d) = Seen(c) /\ d.nxt = next /\ d.una = c.una /\ d.state = c.state
        /\ d.wnd = c.wnd /\ d.outgoing = c.outgoing
    BY <2>4 DEF Connection, Seen
  <2>. HIDE DEF d
  <2>. DEFINE e == Transmit(d, all)
  <2>6. e \in Connection /\ Seen(e) = Seen(d)
        /\ Clock(e) = <<d.state, d.una, d.nxt, d.wnd, d.outgoing, d.una # d.nxt>>
    BY <2>3, <2>5, TransmitKeeps
  <2>7. SendData(c) = e
    BY <1>2, <1>8
  <2>. HIDE DEF e
  <2>. QED
    BY <2>5, <2>6, <2>7 DEF Sends, Clock
<1>. QED
  BY <1>7, <1>8

\* Room in sequence space is never so used up that a FIN comes full circle.
LEMMA FinHasRoom ==
  ASSUME NEW c, Fit(c), Flight(c) = Len(c.outgoing)
  PROVE  c.una # Add(c.nxt, 1)
<1>1. Flight(c) <= 2 * Buffer /\ c.una \in Number /\ c.nxt \in Number
  BY DEF Fit, Connection
<1>2. Flight(c) = IF c.nxt >= c.una THEN c.nxt - c.una ELSE c.nxt - c.una + SeqSpace
  BY <1>1, DistType DEF Flight
<1>3. Add(c.nxt, 1) = IF c.nxt + 1 = SeqSpace THEN 0 ELSE c.nxt + 1
  <2>1. CASE c.nxt + 1 = SeqSpace
    <3>1. SeqSpace \in Nat \ {0}
      BY <2>1, TcpConstants
    <3>2. SeqSpace % SeqSpace = 0
      BY <3>1
    <3>. QED
      BY <2>1, <3>1, <3>2 DEF Add
  <2>2. CASE c.nxt + 1 # SeqSpace
    <3>. DEFINE n == c.nxt + 1
    <3>1. n \in 0 .. SeqSpace - 1 /\ SeqSpace \in Nat \ {0}
      BY <1>1, <2>2, TcpConstants DEF Number
    <3>2. n % SeqSpace = n
      BY <3>1
    <3>. QED
      BY <2>2, <3>2 DEF Add
  <2>. QED
    BY <2>1, <2>2
<1>. QED
  BY <1>1, <1>2, <1>3, TcpConstants DEF Number

LEMMA EmitKeeps ==
  ASSUME NEW c, Fit(c)
  PROVE  LET d == Emit(c)
         IN  /\ Fit(d) /\ Seen(d) = Seen(c)
             /\ Armed(c) /\ c.state \notin {"Listen", "SynSent"} => Kept(d)
<1>. DEFINE a == SendData(c)
            b == AwaitWindow(a)
            d == SendFin(b)
<1>0. c \in Connection
  BY DEF Fit
<1>1. CASE ~Synchronized(c) \/ c.state = "TimeWait"
  <2>1. Emit(c) = c
    BY <1>1 DEF Emit
  <2>. QED
    BY <1>0, <1>1, <2>1 DEF Synchronized, Kept, Over
<1>2. CASE Synchronized(c) /\ c.state # "TimeWait"
  <2>0. c.state \in TcpState \ {"Closed", "Listen", "SynSent", "TimeWait"}
    BY <1>0, <1>2 DEF Synchronized, Connection
  <2>1. Sends(c, a)
    BY <1>0, SendDataKeeps
  <2>. HIDE DEF a
  <2>2. a \in Connection /\ Seen(a) = Seen(c) /\ a.state = c.state /\ a.outgoing = c.outgoing
        /\ (Armed(c) => (a.una # a.nxt => a.retransmit_at))
    BY <1>2, <2>0, <2>1 DEF Sends, Armed, Over
  <2>3. b = IF a.wnd = 0 /\ a.outgoing # <<>> /\ a.una = a.nxt
            THEN [a EXCEPT !.retransmit_at = TRUE] ELSE a
    BY DEF AwaitWindow
  <2>. HIDE DEF b
  <2>4. b \in Connection /\ Seen(b) = Seen(c) /\ b.state = c.state /\ b.outgoing = c.outgoing
        /\ (Armed(c) => (Outstanding(b) => b.retransmit_at))
    BY <2>2, <2>3 DEF Connection, Seen, Outstanding
  <2>5. Fit(b)
    BY <2>0, <2>4 DEF Fit, Seen, Room
  <2>6. CASE ~(b.closing /\ ~b.fin_sent /\ Flight(b) = Len(b.outgoing))
    <3>1. d = b
      BY <2>6 DEF SendFin
    <3>2. Emit(c) = b
      BY <1>2, <3>1 DEF Emit, a, b
    <3>. QED
      BY <2>4, <2>5, <3>2 DEF Kept
  <2>7. CASE b.closing /\ ~b.fin_sent /\ Flight(b) = Len(b.outgoing)
    <3>. DEFINE next == Add(b.nxt, 1)
                f == [b EXCEPT !.fin_sent = TRUE, !.nxt = next]
                fin == <<Blank(b, {"FIN", "ACK"}, b.nxt, b.rcv)>>
                g == Transmit(f, fin)
                state == CASE b.state = "CloseWait" -> "LastAck"
                           [] b.state \in {"Established", "SynReceived"} -> "FinWait1"
                           [] OTHER -> b.state
                h == [g EXCEPT !.state = state]
    <3>1. next \in Number /\ next # b.una
      <4>1. b.nxt \in Number
        BY <2>4 DEF Connection
      <4>2. b.una # Add(b.nxt, 1)
        BY <2>5, <2>7, FinHasRoom
      <4>. QED
        BY <4>1, <4>2, AddType
    <3>2. fin \in Seq(Segment)
      <4>1. Blank(b, {"FIN", "ACK"}, b.nxt, b.rcv) \in Segment
        BY <2>4, BlankType DEF Connection, Flag
      <4>. QED
        BY <4>1
    <3>. HIDE DEF next, fin
    <3>3. f \in Connection /\ Seen(f) = Seen(b) /\ f.una # f.nxt /\ f.state = b.state /\ f.outgoing = b.outgoing
      BY <2>4, <3>1 DEF Connection, Seen
    <3>. HIDE DEF f
    <3>4. g \in Connection /\ Seen(g) = Seen(b) /\ g.retransmit_at /\ g.state = b.state /\ g.outgoing = b.outgoing
      <4>. DEFINE k == Transmit(f, fin)
      <4>1. k \in Connection /\ Seen(k) = Seen(f)
            /\ Clock(k) = <<f.state, f.una, f.nxt, f.wnd, f.outgoing, f.una # f.nxt>>
        BY <3>2, <3>3, TransmitKeeps
      <4>. HIDE DEF k
      <4>2. k.state = f.state /\ k.outgoing = f.outgoing /\ k.retransmit_at = (f.una # f.nxt)
        BY <4>1 DEF Clock
      <4>3. k = g
        BY DEF k
      <4>. QED
        BY <3>3, <4>1, <4>2, <4>3
    <3>. HIDE DEF g
    <3>5. state \in TcpState \ {"Closed", "Listen", "SynSent", "TimeWait"}
      BY <2>0, <2>4 DEF TcpState
    <3>. HIDE DEF state
    <3>6. h \in Connection /\ Seen(h) = Seen(c) /\ h.retransmit_at /\ h.state = state /\ h.outgoing = b.outgoing
      BY <2>4, <3>4, <3>5 DEF Connection, Seen
    <3>. HIDE DEF h
    <3>7. Fit(h)
      BY <2>4, <2>5, <3>5, <3>6 DEF Fit, Seen, Room
    <3>8. Emit(c) = h
      BY <1>2, <2>7 DEF Emit, SendFin, a, b, f, g, h, fin, next, state
    <3>. QED
      BY <3>6, <3>7, <3>8 DEF Kept
  <2>. QED
    BY <2>6, <2>7
<1>. QED
  BY <1>1, <1>2

-----------------------------------------------------------------------------
\* The calls.

LEMMA ConnectKeeps ==
  ASSUME NEW iss \in Number
  PROVE  LET d == ConnectSized(iss)
         IN  Fit(d) /\ Kept(d) /\ d.state = "SynSent"
<1>. DEFINE next == Add(iss, 1)
            c == [New(iss, "SynSent", FALSE) EXCEPT !.nxt = next]
            d == Transmit(c, <<SynOf(c)>>)
<1>1. next \in Number /\ next # iss
  BY TcpConstants, AddType, AddDist, DistType
<1>2. New(iss, "SynSent", FALSE) \in Connection
  BY NewType DEF TcpState
<1>3. ConnectSized(iss) = d
  BY DEF ConnectSized
<1>. HIDE DEF next
<1>4. c \in Connection /\ c.una # c.nxt /\ c.rwnd = Buffer /\ c.incoming = <<>> /\ c.outgoing = <<>>
      /\ c.state = "SynSent" /\ c.iss \in Number
  BY <1>1, <1>2 DEF Connection, New
<1>. HIDE DEF c
<1>5. <<SynOf(c)>> \in Seq(Segment)
  <2>1. SynOf(c) \in Segment
    BY <1>4, BlankType, ZeroNumber DEF SynOf, Flag
  <2>. QED
    BY <2>1
<1>6. d \in Connection /\ Seen(d) = Seen(c)
      /\ Clock(d) = <<c.state, c.una, c.nxt, c.wnd, c.outgoing, c.una # c.nxt>>
  BY <1>4, <1>5, TransmitKeeps
<1>. HIDE DEF d
<1>7. d.rwnd = Buffer /\ d.incoming = <<>> /\ d.outgoing = <<>> /\ d.una # d.nxt /\ d.retransmit_at
      /\ d.state = "SynSent"
  BY <1>4, <1>6 DEF Seen, Clock
<1>8. Fit(d)
  BY <1>6, <1>7, RoomOfNone, TcpConstants DEF Fit
<1>. QED
  BY <1>3, <1>7, <1>8 DEF Kept

LEMMA SendCallKeeps ==
  ASSUME NEW c, Fit(c), NEW octets \in Seq(Octet), Len(octets) <= SendRoom(c)
  PROVE  LET d == SendCall(c, octets)
         IN  Fit(d) /\ Seen(d) = Seen(c) /\ (Kept(c) => Kept(d))
<1>. DEFINE more == c.outgoing \o octets
            e == [c EXCEPT !.outgoing = more]
<1>1. SendCall(c, octets) = IF c.state \in {"Established", "CloseWait"} THEN Emit(e) ELSE c
  BY DEF SendCall
<1>2. more \in Seq(Octet) /\ Len(more) <= 2 * Buffer
  <2>1. c.outgoing \in Seq(Octet)
    BY DEF Fit, Connection
  <2>2. Len(more) = Len(c.outgoing) + Len(octets) /\ more \in Seq(Octet)
    BY <2>1, ConcatProperties
  <2>3. Len(c.outgoing) \in Nat /\ Len(octets) \in Nat
    BY <2>1
  <2>. QED
    BY <2>2, <2>3, TcpConstants DEF SendRoom
<1>. HIDE DEF more
<1>3. e \in Connection /\ Seen(e) = Seen(c) /\ e.outgoing = more /\ e.state = c.state
      /\ e.una = c.una /\ e.nxt = c.nxt /\ e.retransmit_at = c.retransmit_at
      /\ e.incoming = c.incoming /\ e.rwnd = c.rwnd
  BY <1>2 DEF Fit, Connection, Seen
<1>. HIDE DEF e
<1>4. Fit(e) /\ (Kept(c) => Armed(e))
  BY <1>2, <1>3 DEF Fit, Room, Kept, Armed, Over, Outstanding
<1>. DEFINE f == Emit(e)
<1>5. Fit(f) /\ Seen(f) = Seen(e) /\ (Armed(e) /\ e.state \notin {"Listen", "SynSent"} => Kept(f))
  BY <1>4, EmitKeeps
<1>. HIDE DEF f
<1>6. CASE c.state \in {"Established", "CloseWait"}
  <2>1. SendCall(c, octets) = f
    BY <1>1, <1>6 DEF f
  <2>. QED
    BY <1>3, <1>4, <1>5, <1>6, <2>1
<1>7. CASE c.state \notin {"Established", "CloseWait"}
  BY <1>1, <1>7
<1>. QED
  BY <1>6, <1>7

LEMMA CloseCallKeeps ==
  ASSUME NEW c, Fit(c)
  PROVE  LET d == CloseCall(c)
         IN  Fit(d) /\ Seen(d) = Seen(c) /\ (Kept(c) => Kept(d))
<1>. DEFINE e == [c EXCEPT !.closing = TRUE]
            f == Emit(e)
            notes == c.reports \cup {"Closed"}
            g == [c EXCEPT !.state = "Closed", !.reports = notes]
<1>0. c \in Connection
  BY DEF Fit
<1>1. CloseCall(c) = CASE c.state \in {"Listen", "SynSent"} -> g
                       [] c.state \in {"SynReceived", "Established", "CloseWait"} -> f
                       [] OTHER -> c
  BY DEF CloseCall
<1>2. e \in Connection /\ Clock(e) = Clock(c) /\ Seen(e) = Seen(c)
  BY <1>0 DEF Connection, Clock, Seen
<1>. HIDE DEF e
<1>3. Fit(e) /\ (Kept(c) => Kept(e)) /\ e.state = c.state
  BY <1>2, FitAlike DEF Clock
<1>4. Fit(f) /\ Seen(f) = Seen(c) /\ (Kept(c) /\ c.state \notin {"Listen", "SynSent"} => Kept(f))
  BY <1>2, <1>3, EmitKeeps DEF Kept, Armed, Outstanding
<1>5. notes \in SUBSET Report
  BY <1>0 DEF Connection, Report
<1>. HIDE DEF f, notes
<1>6. g \in Connection /\ g.state = "Closed" /\ Seen(g) = Seen(c) /\ g.outgoing = c.outgoing
  BY <1>0, <1>5 DEF Connection, Seen, TcpState
<1>7. Fit(g) /\ Kept(g)
  BY <1>6 DEF Fit, Seen, Room, Kept, Over
<1>. HIDE DEF g
<1>8. CASE c.state \in {"Listen", "SynSent"}
  <2>1. CloseCall(c) = g
    BY <1>1, <1>8
  <2>. QED
    BY <1>6, <1>7, <2>1
<1>9. CASE c.state \in {"SynReceived", "Established", "CloseWait"}
  <2>1. CloseCall(c) = f
    BY <1>1, <1>9
  <2>. QED
    BY <1>4, <1>9, <2>1
<1>10. CASE c.state \notin {"Listen", "SynSent", "SynReceived", "Established", "CloseWait"}
  <2>1. CloseCall(c) = c
    BY <1>1, <1>10
  <2>. QED
    BY <2>1
<1>. QED
  BY <1>8, <1>9, <1>10

LEMMA AbortKeeps ==
  ASSUME NEW c, Fit(c)
  PROVE  LET d == Abort(c)
         IN  Fit(d) /\ Seen(d) = Seen(c) /\ d.state = "Closed"
<1>. DEFINE m == Blank(c, {"RST"}, c.nxt, 0)
            e == IF Synchronized(c) THEN Say(c, m) ELSE c
<1>0. c \in Connection
  BY DEF Fit
<1>1. m \in Segment
  BY <1>0, BlankType, ZeroNumber DEF Connection, Flag
<1>. HIDE DEF m
<1>2. e \in Connection /\ Clock(e) = Clock(c) /\ Seen(e) = Seen(c)
  BY <1>0, <1>1, SayKeeps
<1>3. Abort(c) = GiveUp(e, "Closed")
  BY DEF Abort, m
<1>. HIDE DEF e
<1>4. Fit(e)
  BY <1>2, FitAlike
<1>. QED
  BY <1>2, <1>3, <1>4, GiveUpKeeps DEF Report

-----------------------------------------------------------------------------
\* The timers.

\* What is resent says nothing new to the program at either end.
Resends(c, d) ==
  /\ Fit(d) /\ Seen(d) = Seen(c)
  /\ d.state = c.state /\ d.una = c.una /\ d.wnd = c.wnd /\ d.outgoing = c.outgoing

LEMMA KeptArmed ==
  ASSUME NEW c, Kept(c)
  PROVE  Armed(c)
BY DEF Kept, Armed, Outstanding

LEMMA ResendFrontKeeps ==
  ASSUME NEW c, Fit(c)
  PROVE  Resends(c, ResendFront(c)) /\ Kept(ResendFront(c))
<1>0. c \in Connection /\ c.una \in Number /\ c.nxt \in Number /\ c.rcv \in Number /\ c.iss \in Number
      /\ c.outgoing \in Seq(Octet) /\ Len(c.outgoing) \in Nat /\ Flight(c) \in Nat
      /\ (Flight(c) = 0 <=> c.una = c.nxt)
  <2>1. c \in Connection
    BY DEF Fit
  <2>2. c.una \in Number /\ c.nxt \in Number /\ c.rcv \in Number /\ c.iss \in Number
        /\ c.outgoing \in Seq(Octet)
    BY <2>1 DEF Connection
  <2>3. Len(c.outgoing) \in Nat
    BY <2>2
  <2>. QED
    BY <2>1, <2>2, <2>3, FlightType
<1>. DEFINE size == Least(Len(c.outgoing), Most(Least(Mss, Flight(c)), 1))
            text == SubSeq(c.outgoing, 1, size)
            again ==
              IF c.state = "SynSent" /\ c.outgoing = <<>> THEN SynOf(c)
              ELSE IF c.state = "SynReceived" /\ c.outgoing = <<>> THEN SynAckOf(c)
              ELSE IF c.outgoing = <<>> /\ c.fin_sent
              THEN Blank(c, {"FIN", "ACK"}, c.una, c.rcv)
              ELSE [Blank(c, {"ACK"}, c.una, c.rcv) EXCEPT !.data = text]
            one == <<Head(c.outgoing)>>
            probe == [Blank(c, {"ACK"}, c.una, c.rcv) EXCEPT !.data = one]
            next == Add(c.nxt, 1)
            up == [c EXCEPT !.nxt = next]
            asked == Arm(Say(up, probe))
            rest == [c EXCEPT !.retransmit_at = FALSE]
            repeated == Arm(Say(c, again))
<1>1. CASE Flight(c) = 0 /\ c.wnd = 0 /\ c.outgoing # <<>>
  <2>1. ResendFront(c) = asked
    BY <1>1 DEF ResendFront
  <2>2. probe \in Segment
    <3>1. one \in Seq(Octet)
      <4>1. Head(c.outgoing) \in Octet
        BY <1>0, <1>1
      <4>. QED
        BY <4>1
    <3>. HIDE DEF one
    <3>. QED
      BY <1>0, <3>1, BlankType DEF Flag
  <2>3. next \in Number /\ next # c.nxt
    <3>1. Dist(c.nxt, next) = 1 /\ Dist(c.nxt, c.nxt) = 0
      BY <1>0, AddDist, DistType, TcpConstants
    <3>. QED
      BY <1>0, <3>1, AddType
  <2>. HIDE DEF probe, next
  <2>4. up \in Connection /\ Seen(up) = Seen(c) /\ up.una # up.nxt
        /\ up.state = c.state /\ up.una = c.una /\ up.wnd = c.wnd /\ up.outgoing = c.outgoing
    BY <1>0, <1>1, <2>3 DEF Connection, Seen
  <2>. HIDE DEF up
  <2>. DEFINE said == Say(up, probe)
  <2>5. said \in Connection /\ Clock(said) = Clock(up) /\ Seen(said) = Seen(up)
    BY <2>2, <2>4, SayKeeps
  <2>. HIDE DEF said
  <2>. DEFINE d == Arm(said)
  <2>6. /\ d \in Connection /\ Seen(d) = Seen(said)
        /\ Clock(d) = <<said.state, said.una, said.nxt, said.wnd, said.outgoing, said.una # said.nxt>>
    BY <2>5, ArmKeeps
  <2>7. d = asked
    BY DEF said
  <2>. HIDE DEF d, asked
  <2>8. /\ d \in Connection /\ Seen(d) = Seen(c) /\ d.state = c.state /\ d.una = c.una /\ d.wnd = c.wnd
        /\ d.outgoing = c.outgoing /\ d.retransmit_at /\ d.una # d.nxt
    BY <2>4, <2>5, <2>6 DEF Clock
  <2>9. Fit(d)
    BY <2>8 DEF Fit, Seen, Room
  <2>. QED
    BY <2>1, <2>7, <2>8, <2>9 DEF Resends, Kept
<1>2. CASE Flight(c) = 0 /\ ~(c.wnd = 0 /\ c.outgoing # <<>>)
  <2>1. ResendFront(c) = rest
    BY <1>2 DEF ResendFront
  <2>2. rest \in Connection /\ Seen(rest) = Seen(c) /\ rest.una = c.una /\ rest.nxt = c.nxt
        /\ rest.state = c.state /\ rest.wnd = c.wnd /\ rest.outgoing = c.outgoing
    BY <1>0 DEF Connection, Seen
  <2>. HIDE DEF rest
  <2>3. Fit(rest)
    BY <2>2 DEF Fit, Seen, Room
  <2>4. ~Outstanding(rest)
    BY <1>0, <1>2, <2>2 DEF Outstanding
  <2>. QED
    BY <2>1, <2>2, <2>3, <2>4 DEF Resends, Kept
<1>3. CASE Flight(c) > 0
  <2>1. ResendFront(c) = repeated
    BY <1>3 DEF ResendFront
  <2>2. text \in Seq(Octet)
    <3>1. size \in Nat /\ size <= Len(c.outgoing)
      BY <1>0, TcpConstants DEF Least, Most
    <3>. HIDE DEF size
    <3>2. \A j \in 1 .. size : c.outgoing[j] \in Octet
      BY <1>0, <3>1, ElementOfSeq
    <3>. QED
      BY <3>1, <3>2, SubSeqProperties
  <2>3. again \in Segment
    <3>. HIDE DEF text
    <3>1. SynOf(c) \in Segment /\ SynAckOf(c) \in Segment
      BY <1>0, BlankType, ZeroNumber DEF SynOf, SynAckOf, Flag
    <3>2. Blank(c, {"FIN", "ACK"}, c.una, c.rcv) \in Segment
          /\ [Blank(c, {"ACK"}, c.una, c.rcv) EXCEPT !.data = text] \in Segment
      BY <1>0, <2>2, BlankType DEF Flag
    <3>. QED
      BY <3>1, <3>2
  <2>. HIDE DEF again
  <2>. DEFINE said == Say(c, again)
  <2>5. said \in Connection /\ Clock(said) = Clock(c) /\ Seen(said) = Seen(c)
    BY <1>0, <2>3, SayKeeps
  <2>. HIDE DEF said
  <2>. DEFINE d == Arm(said)
  <2>6. /\ d \in Connection /\ Seen(d) = Seen(said)
        /\ Clock(d) = <<said.state, said.una, said.nxt, said.wnd, said.outgoing, said.una # said.nxt>>
    BY <2>5, ArmKeeps
  <2>7. d = repeated
    BY DEF said
  <2>. HIDE DEF d, repeated
  <2>8. /\ d \in Connection /\ Seen(d) = Seen(c) /\ d.state = c.state /\ d.una = c.una /\ d.wnd = c.wnd
        /\ d.outgoing = c.outgoing /\ d.retransmit_at /\ d.una # d.nxt
    <3>1. c.una # c.nxt
      BY <1>0, <1>3
    <3>2. said.state = c.state /\ said.una = c.una /\ said.nxt = c.nxt /\ said.wnd = c.wnd
          /\ said.outgoing = c.outgoing
      BY <2>5 DEF Clock
    <3>3. d.state = said.state /\ d.una = said.una /\ d.nxt = said.nxt /\ d.wnd = said.wnd
          /\ d.outgoing = said.outgoing /\ d.retransmit_at = (said.una # said.nxt)
      BY <2>6 DEF Clock
    <3>. QED
      BY <2>5, <2>6, <3>1, <3>2, <3>3
  <2>9. Fit(d)
    BY <2>8 DEF Fit, Seen, Room
  <2>. QED
    BY <2>1, <2>7, <2>8, <2>9 DEF Resends, Kept
<1>. QED
  BY <1>0, <1>1, <1>2, <1>3

LEMMA RetransmitKeeps ==
  ASSUME NEW c, Fit(c)
  PROVE  LET d == Retransmit(c)
         IN  Fit(d) /\ Seen(d) = Seen(c) /\ Kept(d)
<1>. DEFINE n == c.retransmits + 1
            half == Most(Flight(c) \div 2, 2 * Mss)
            counted == [c EXCEPT !.retransmits = n]
            slowed == IF Flight(c) > 0
                      THEN [counted EXCEPT !.ssthresh = half, !.cwnd = Mss] ELSE counted
            ready == [slowed EXCEPT !.recovering = FALSE, !.duplicates = 0]
<1>0. c \in Connection /\ c.retransmits \in Nat /\ Flight(c) \in Nat
  BY FlightType DEF Fit, Connection
<1>1. n \in Nat /\ half \in Nat
  BY <1>0, TcpConstants DEF Most
<1>. HIDE DEF n, half
<1>2. counted \in Connection /\ Clock(counted) = Clock(c) /\ Seen(counted) = Seen(c) /\ Flight(counted) = Flight(c)
  BY <1>0, <1>1 DEF Connection, Clock, Seen, Flight
<1>3. Retransmit(c) = IF counted.retransmits > MaxRetransmits THEN Abort(counted) ELSE ResendFront(ready)
  BY DEF Retransmit, n, half
<1>. HIDE DEF counted
<1>4. slowed \in Connection /\ Clock(slowed) = Clock(c) /\ Seen(slowed) = Seen(c)
  BY <1>1, <1>2, TcpConstants DEF Connection, Clock, Seen
<1>. HIDE DEF slowed
<1>5. ready \in Connection /\ Clock(ready) = Clock(c) /\ Seen(ready) = Seen(c)
  BY <1>4 DEF Connection, Clock, Seen
<1>. HIDE DEF ready
<1>6. Fit(counted) /\ Fit(ready)
  BY <1>2, <1>5, FitAlike
<1>. DEFINE a == Abort(counted)
            r == ResendFront(ready)
<1>7. Fit(a) /\ Seen(a) = Seen(c) /\ Kept(a)
  BY <1>2, <1>6, AbortKeeps DEF Kept, Over
<1>8. Fit(r) /\ Seen(r) = Seen(c) /\ Kept(r)
  BY <1>5, <1>6, ResendFrontKeeps DEF Resends
<1>. HIDE DEF a, r
<1>9. Retransmit(c) = a \/ Retransmit(c) = r
  BY <1>3 DEF a, r
<1>. QED
  BY <1>7, <1>8, <1>9

LEMMA TickKeeps ==
  ASSUME NEW c, Fit(c), Kept(c), NEW due
  PROVE  LET d == Tick(c, due)
         IN  Fit(d) /\ Seen(d) = Seen(c) /\ Kept(d)
<1>. DEFINE g == GiveUp(c, "Closed")
            acked == IF "ack" \in due THEN Acknowledge(c) ELSE c
            r == Retransmit(acked)
<1>0. c \in Connection
  BY DEF Fit
<1>1. Fit(g) /\ Seen(g) = Seen(c) /\ Kept(g)
  BY GiveUpKeeps DEF Report, Kept, Over
<1>2. acked \in Connection /\ Clock(acked) = Clock(c) /\ Seen(acked) = Seen(c)
  BY <1>0, AcknowledgeKeeps
<1>3. Tick(c, due) = IF "time_wait" \in due THEN g ELSE IF "retransmit" \in due THEN r ELSE acked
  BY DEF Tick
<1>. HIDE DEF g, acked
<1>4. Fit(acked) /\ Kept(acked)
  BY <1>2, FitAlike
<1>5. Fit(r) /\ Seen(r) = Seen(c) /\ Kept(r)
  BY <1>2, <1>4, RetransmitKeeps
<1>. HIDE DEF r
<1>6. Tick(c, due) = g \/ Tick(c, due) = r \/ Tick(c, due) = acked
  BY <1>3
<1>. QED
  BY <1>1, <1>2, <1>4, <1>5, <1>6

-----------------------------------------------------------------------------
\* Acknowledgments.

\* A connection whose numbers both ends have begun to agree on.
Begun(c) == c.state \notin {"Listen", "SynSent"}

\* All of Fit but what is said of a SYN that waits for its answer.
Firm(c) ==
  /\ c \in Connection
  /\ Len(c.outgoing) <= 2 * Buffer /\ Len(c.incoming) <= Buffer
  /\ c.rwnd <= Room(c) \/ (c.rwnd <= Buffer /\ Room(c) < Worth)

LEMMA EstablishKeeps ==
  ASSUME NEW c, Firm(c)
  PROVE  LET d == Establish(c)
         IN  /\ Fit(d) /\ Seen(d) = Seen(c) /\ d.state = "Established"
             /\ d.una = c.una /\ d.nxt = c.nxt /\ d.retransmit_at = c.retransmit_at
             /\ d.wnd = c.wnd /\ d.outgoing = c.outgoing
<1>. DEFINE wide == IF c.retransmits > 0 THEN Mss ELSE InitialSegments * Mss
            notes == c.reports \cup {"Established"}
            d == [c EXCEPT !.cwnd = wide, !.retransmits = 0, !.state = "Established", !.reports = notes]
<1>0. c \in Connection
  BY DEF Firm
<1>1. wide \in Nat /\ notes \in SUBSET Report
  BY <1>0, TcpConstants DEF Connection, Report
<1>2. Establish(c) = d
  BY DEF Establish, OpenWindow
<1>. HIDE DEF wide, notes
<1>3. d \in Connection /\ Seen(d) = Seen(c) /\ d.state = "Established" /\ d.outgoing = c.outgoing
      /\ d.una = c.una /\ d.nxt = c.nxt /\ d.retransmit_at = c.retransmit_at /\ d.wnd = c.wnd
  BY <1>0, <1>1 DEF Connection, Seen, TcpState
<1>. HIDE DEF d
<1>4. Fit(d)
  BY <1>3 DEF Fit, Firm, Seen, Room
<1>. QED
  BY <1>2, <1>3, <1>4

LEMMA GrowWindowKeeps ==
  ASSUME NEW c, c \in Connection, NEW acked \in Nat
  PROVE  LET d == GrowWindow(c, acked)
         IN  d \in Connection /\ Clock(d) = Clock(c) /\ Seen(d) = Seen(c)
<1>. DEFINE more == IF c.cwnd < c.ssthresh THEN Least(acked, Mss)
                    ELSE Most((Mss * Mss) \div Most(c.cwnd, 1), 1)
            wide == Least(c.cwnd + more, InitialSsthresh)
            over == [c EXCEPT !.duplicates = 0, !.recovering = FALSE, !.cwnd = c.ssthresh]
            d == [c EXCEPT !.duplicates = 0, !.cwnd = wide]
<1>0. c.cwnd \in Nat /\ c.ssthresh \in Nat /\ Mss \in Nat /\ Mss * Mss \in Nat /\ InitialSsthresh \in Nat
  BY TcpConstants DEF Connection
<1>1. wide \in Nat
  <2>1. Most(c.cwnd, 1) \in Nat /\ Most(c.cwnd, 1) > 0
    BY <1>0 DEF Most
  <2>2. ASSUME NEW x \in Nat, NEW y \in Nat, y > 0 PROVE x \div y \in Nat
    BY <2>2
  <2>3. (Mss * Mss) \div Most(c.cwnd, 1) \in Nat
    BY <1>0, <2>1, <2>2
  <2>4. more \in Nat
    BY <1>0, <2>3 DEF Least, Most
  <2>. HIDE DEF more
  <2>. QED
    BY <1>0, <2>4 DEF Least
<1>2. GrowWindow(c, acked) = IF c.recovering THEN over ELSE d
  BY DEF GrowWindow
<1>. HIDE DEF wide
<1>3. over \in Connection /\ Clock(over) = Clock(c) /\ Seen(over) = Seen(c)
  BY <1>0 DEF Connection, Clock, Seen
<1>4. d \in Connection /\ Clock(d) = Clock(c) /\ Seen(d) = Seen(c)
  BY <1>1 DEF Connection, Clock, Seen
<1>. HIDE DEF over, d
<1>. QED
  BY <1>2, <1>3, <1>4

LEMMA DuplicateAckKeeps ==
  ASSUME NEW c, Fit(c), Kept(c)
  PROVE  LET d == DuplicateAck(c)
         IN  Fit(d) /\ Seen(d) = Seen(c) /\ d.state = c.state /\ Armed(d)
<1>. DEFINE n == c.duplicates + 1
            flight == Most(Flight(c) \div 2, 2 * Mss)
            wide == flight + 3 * Mss
            wider == Least(c.cwnd + Mss, InitialSsthresh)
            d == [c EXCEPT !.duplicates = n]
            low == [d EXCEPT !.ssthresh = flight, !.recovering = TRUE]
            r == ResendFront(low)
            e == [r EXCEPT !.cwnd = wide]
            f == [d EXCEPT !.cwnd = wider]
<1>0. c \in Connection /\ c.duplicates \in Nat /\ c.cwnd \in Nat /\ Flight(c) \in Nat
  <2>1. c \in Connection
    BY DEF Fit
  <2>. QED
    BY <2>1, FlightType DEF Connection
<1>1. n \in Nat /\ flight \in Nat /\ wider \in Nat /\ Mss \in Nat
  BY <1>0, TcpConstants DEF Most, Least
<1>2. wide \in Nat
  <2>. HIDE DEF flight
  <2>. QED
    BY <1>1
<1>3. d \in Connection /\ Clock(d) = Clock(c) /\ Seen(d) = Seen(c) /\ d.duplicates = n /\ d.cwnd = c.cwnd
  <2>. HIDE DEF n
  <2>. QED
    BY <1>0, <1>1 DEF Connection, Clock, Seen
<1>4. DuplicateAck(c) = CASE n < DuplicatesBeforeResending -> d
                          [] n = DuplicatesBeforeResending -> e
                          [] n > DuplicatesBeforeResending -> f
  BY <1>3 DEF DuplicateAck
<1>. HIDE DEF n, d, flight, wide, wider
<1>5. low \in Connection /\ Clock(low) = Clock(c) /\ Seen(low) = Seen(c)
  BY <1>1, <1>3 DEF Connection, Clock, Seen
<1>6. f \in Connection /\ Clock(f) = Clock(c) /\ Seen(f) = Seen(c)
  BY <1>1, <1>3 DEF Connection, Clock, Seen
<1>. HIDE DEF low, f
<1>7. Fit(d) /\ Fit(low) /\ Fit(f) /\ Kept(d) /\ Kept(f)
  BY <1>3, <1>5, <1>6, FitAlike
<1>8. Fit(r) /\ Seen(r) = Seen(c) /\ r.state = c.state /\ Kept(r)
  BY <1>5, <1>7, ResendFrontKeeps DEF Resends, Clock
<1>. HIDE DEF r
<1>9. e \in Connection /\ Clock(e) = Clock(r) /\ Seen(e) = Seen(r)
  BY <1>2, <1>8 DEF Fit, Connection, Clock, Seen
<1>. HIDE DEF e
<1>10. Fit(e) /\ Kept(e) /\ e.state = c.state /\ Seen(e) = Seen(c)
  BY <1>8, <1>9, FitAlike DEF Clock
<1>11. d.state = c.state /\ f.state = c.state
  BY <1>3, <1>6 DEF Clock
<1>12. DuplicateAck(c) = d \/ DuplicateAck(c) = e \/ DuplicateAck(c) = f
  BY <1>1, <1>4 DEF DuplicatesBeforeResending
<1>. QED
  BY <1>3, <1>6, <1>7, <1>10, <1>11, <1>12, KeptArmed

LEMMA AdvanceKeeps ==
  ASSUME NEW c, Fit(c), c.state # "SynSent", NEW ack \in Number
  PROVE  LET d == Advance(c, ack)
         IN  Fit(d) /\ Seen(d) = Seen(c) /\ d.state = c.state /\ Armed(d)
<1>. DEFINE acked == Dist(c.una, ack)
            from == Least(acked, Len(c.outgoing)) + 1
            left == SubSeq(c.outgoing, from, Len(c.outgoing))
            moved == [c EXCEPT !.una = ack, !.outgoing = left, !.retransmits = 0]
            g == GrowWindow(moved, acked)
            d == Arm(g)
<1>0. c \in Connection /\ acked \in Nat
  <2>1. c \in Connection
    BY DEF Fit
  <2>2. c.una \in Number
    BY <2>1 DEF Connection
  <2>3. acked \in Number
    BY <2>2, DistType
  <2>. QED
    BY <2>1, <2>3, TcpConstants DEF Number
<1>1. left \in Seq(Octet) /\ Len(left) <= Len(c.outgoing) /\ Len(left) \in Nat /\ Len(c.outgoing) \in Nat
  <2>. HIDE DEF acked
  <2>0. c.outgoing \in Seq(Octet)
    BY <1>0 DEF Connection
  <2>1. Len(c.outgoing) \in Nat
    BY <2>0
  <2>2. from \in Nat /\ from >= 1
    BY <1>0, <2>1 DEF Least
  <2>. HIDE DEF from
  <2>3. \A j \in from .. Len(c.outgoing) : c.outgoing[j] \in Octet
    BY <2>0, <2>1, <2>2, ElementOfSeq
  <2>4. left \in Seq(Octet) /\ Len(left) = IF from <= Len(c.outgoing) THEN Len(c.outgoing) - from + 1 ELSE 0
    BY <2>1, <2>2, <2>3, SubSeqProperties
  <2>. QED
    BY <2>1, <2>2, <2>4
<1>2. Advance(c, ack) = d
  BY DEF Advance, DropAcknowledged
<1>. HIDE DEF acked, left
<1>3. moved \in Connection /\ Seen(moved) = Seen(c) /\ moved.state = c.state /\ moved.outgoing = left
  BY <1>0, <1>1 DEF Connection, Seen
<1>. HIDE DEF moved
<1>4. g \in Connection /\ Clock(g) = Clock(moved) /\ Seen(g) = Seen(c)
  BY <1>0, <1>3, GrowWindowKeeps
<1>. HIDE DEF g
<1>5. d \in Connection /\ Seen(d) = Seen(c)
      /\ Clock(d) = <<g.state, g.una, g.nxt, g.wnd, g.outgoing, g.una # g.nxt>>
  BY <1>4, ArmKeeps
<1>. HIDE DEF d
<1>6. d.state = c.state /\ d.outgoing = left /\ (d.retransmit_at = (d.una # d.nxt))
  BY <1>3, <1>4, <1>5 DEF Clock
<1>7. Fit(d)
  BY <1>1, <1>5, <1>6, TcpConstants DEF Fit, Seen, Room
<1>. QED
  BY <1>2, <1>5, <1>6, <1>7 DEF Armed

LEMMA UpdateWindowKeeps ==
  ASSUME NEW c, Fit(c), Armed(c), NEW s \in Segment
  PROVE  LET d == UpdateWindow(c, s)
         IN  Fit(d) /\ Seen(d) = Seen(c) /\ d.state = c.state /\ Armed(d)
<1>. DEFINE d == [c EXCEPT !.wnd = s.wnd, !.wl1 = s.seq, !.wl2 = s.ack]
<1>1. s.wnd \in Nat /\ s.seq \in Number /\ s.ack \in Number
  BY DEF Segment
<1>2. d \in Connection /\ Seen(d) = Seen(c) /\ d.state = c.state /\ d.outgoing = c.outgoing
      /\ d.una = c.una /\ d.nxt = c.nxt /\ d.retransmit_at = c.retransmit_at
  BY <1>1 DEF Fit, Connection, Seen
<1>3. UpdateWindow(c, s) = d \/ UpdateWindow(c, s) = c
  BY DEF UpdateWindow
<1>. HIDE DEF d
<1>4. Fit(d) /\ Armed(d)
  BY <1>2 DEF Fit, Seen, Room, Armed, Over
<1>. QED
  BY <1>2, <1>3, <1>4

\* What an acknowledgment leaves: whoever looks at the rest of the segment
\* ends with emit.
Acked(c, r) ==
  /\ Fit(r.c) /\ Seen(r.c) = Seen(c) /\ Begun(r.c)
  /\ r.on => Armed(r.c)
  /\ ~r.on => Kept(r.c)

LEMMA AfterAckKeeps ==
  ASSUME NEW c, Fit(c), Begun(c), Armed(c)
  PROVE  Acked(c, AfterAck(c))
<1>. DEFINE two == [c EXCEPT !.state = "FinWait2"]
            wait == EnterTimeWait(c)
            over == GiveUp(c, "Closed")
            a == Acknowledge(c)
            again == EnterTimeWait(a)
<1>0. c \in Connection
  BY DEF Fit
<1>1. AfterAck(c) = CASE c.state = "FinWait1" /\ FinAcked(c) -> Going(two)
                      [] c.state = "Closing" /\ FinAcked(c)  -> Going(wait)
                      [] c.state = "LastAck" /\ FinAcked(c)  -> Stopped(over)
                      [] c.state = "TimeWait"                -> Stopped(again)
                      [] OTHER -> Going(c)
  BY DEF AfterAck
<1>2. two \in Connection /\ Seen(two) = Seen(c) /\ two.state = "FinWait2" /\ two.una = c.una
      /\ two.nxt = c.nxt /\ two.retransmit_at = c.retransmit_at /\ two.outgoing = c.outgoing
  BY <1>0 DEF Connection, Seen, TcpState
<1>. HIDE DEF two
<1>3. Fit(two) /\ Begun(two) /\ (c.state = "FinWait1" => Armed(two))
  BY <1>2 DEF Fit, Seen, Room, Begun, Armed, Over
<1>4. Fit(wait) /\ Seen(wait) = Seen(c) /\ Begun(wait) /\ Armed(wait)
  BY EnterTimeWaitKeeps DEF Begun, Armed, Over
<1>5. Fit(over) /\ Seen(over) = Seen(c) /\ Begun(over) /\ Kept(over)
  BY GiveUpKeeps DEF Begun, Kept, Over, Report
<1>6. a \in Connection /\ Clock(a) = Clock(c) /\ Seen(a) = Seen(c)
  BY <1>0, AcknowledgeKeeps
<1>. HIDE DEF a, wait, over
<1>7. Fit(a)
  BY <1>6, FitAlike
<1>8. Fit(again) /\ Seen(again) = Seen(c) /\ Begun(again) /\ Kept(again)
  BY <1>6, <1>7, EnterTimeWaitKeeps DEF Begun, Kept, Over
<1>. HIDE DEF again
<1>9. CASE c.state = "FinWait1" /\ FinAcked(c)
  <2>1. AfterAck(c) = Going(two)
    BY <1>1, <1>9
  <2>. QED
    BY <1>2, <1>3, <1>9, <2>1 DEF Acked, Going
<1>10. CASE c.state = "Closing" /\ FinAcked(c)
  <2>1. AfterAck(c) = Going(wait)
    BY <1>1, <1>10
  <2>. QED
    BY <1>4, <2>1 DEF Acked, Going
<1>11. CASE c.state = "LastAck" /\ FinAcked(c)
  <2>1. AfterAck(c) = Stopped(over)
    BY <1>1, <1>11
  <2>. QED
    BY <1>5, <2>1 DEF Acked, Stopped
<1>12. CASE c.state = "TimeWait"
  <2>1. AfterAck(c) = Stopped(again)
    BY <1>1, <1>12
  <2>. QED
    BY <1>8, <2>1 DEF Acked, Stopped
<1>13. CASE ~(c.state \in {"FinWait1", "Closing", "LastAck"} /\ FinAcked(c)) /\ c.state # "TimeWait"
  <2>1. AfterAck(c) = Going(c)
    BY <1>1, <1>13
  <2>. QED
    BY <2>1 DEF Acked, Going
<1>. QED
  BY <1>9, <1>10, <1>11, <1>12, <1>13

LEMMA TakeAckOpenKeeps ==
  ASSUME NEW c, Fit(c), Begun(c), Kept(c), NEW s \in Segment
  PROVE  Acked(c, TakeAckOpen(c, s))
<1>. DEFINE v == Advance(c, s.ack)
            u == DuplicateAck(c)
            moved == IF Before(c.una, s.ack) THEN v
                     ELSE IF s.ack = c.una /\ s.data = <<>> /\ c.outgoing # <<>> THEN u ELSE c
            w == UpdateWindow(moved, s)
            a == Acknowledge(c)
<1>0. c \in Connection /\ s.ack \in Number
  BY DEF Fit, Segment
<1>1. TakeAckOpen(c, s) = IF Before(c.nxt, s.ack) THEN Stopped(a) ELSE AfterAck(w)
  BY DEF TakeAckOpen
<1>2. Fit(v) /\ Seen(v) = Seen(c) /\ v.state = c.state /\ Armed(v)
  BY <1>0, AdvanceKeeps DEF Begun
<1>3. Fit(u) /\ Seen(u) = Seen(c) /\ u.state = c.state /\ Armed(u)
  BY DuplicateAckKeeps
<1>. HIDE DEF v, u
<1>4. Fit(moved) /\ Seen(moved) = Seen(c) /\ moved.state = c.state /\ Armed(moved)
  BY <1>2, <1>3, KeptArmed
<1>. HIDE DEF moved
<1>5. Fit(w) /\ Seen(w) = Seen(c) /\ w.state = c.state /\ Armed(w)
  BY <1>4, UpdateWindowKeeps
<1>6. a \in Connection /\ Clock(a) = Clock(c) /\ Seen(a) = Seen(c)
  BY <1>0, AcknowledgeKeeps
<1>. HIDE DEF w, a
<1>7. Fit(a) /\ Kept(a) /\ a.state = c.state
  BY <1>6, FitAlike DEF Clock
<1>8. Acked(w, AfterAck(w))
  BY <1>5, AfterAckKeeps DEF Begun
<1>9. CASE Before(c.nxt, s.ack)
  <2>1. TakeAckOpen(c, s) = Stopped(a)
    BY <1>1, <1>9
  <2>. QED
    BY <1>6, <1>7, <2>1 DEF Acked, Stopped, Begun
<1>10. CASE ~Before(c.nxt, s.ack)
  <2>1. TakeAckOpen(c, s) = AfterAck(w)
    BY <1>1, <1>10
  <2>. QED
    BY <1>5, <1>8, <2>1 DEF Acked
<1>. QED
  BY <1>9, <1>10

LEMMA TakeAcknowledgmentKeeps ==
  ASSUME NEW c, Fit(c), Begun(c), Kept(c), NEW s \in Segment
  PROVE  Acked(c, TakeAcknowledgment(c, s))
<1>. DEFINE e == Establish(c)
            m == Blank(c, {"RST"}, s.ack, 0)
            t == Say(c, m)
<1>0. c \in Connection /\ s.ack \in Number
  BY DEF Fit, Segment
<1>1. TakeAcknowledgment(c, s) =
        IF c.state # "SynReceived" THEN TakeAckOpen(c, s)
        ELSE IF Before(c.una, s.ack) /\ ~Before(c.nxt, s.ack) THEN TakeAckOpen(e, s)
        ELSE Stopped(t)
  BY DEF TakeAcknowledgment
<1>2. /\ Fit(e) /\ Seen(e) = Seen(c) /\ e.state = "Established"
      /\ e.una = c.una /\ e.nxt = c.nxt /\ e.retransmit_at = c.retransmit_at
      /\ e.wnd = c.wnd /\ e.outgoing = c.outgoing
  <2>1. Firm(c)
    BY DEF Fit, Firm
  <2>. QED
    BY <2>1, EstablishKeeps
<1>3. m \in Segment
  BY <1>0, BlankType, ZeroNumber DEF Flag
<1>4. t \in Connection /\ Clock(t) = Clock(c) /\ Seen(t) = Seen(c)
  BY <1>0, <1>3, SayKeeps
<1>. HIDE DEF e, t
<1>5. Fit(t) /\ Kept(t) /\ t.state = c.state
  BY <1>4, FitAlike DEF Clock
<1>6. CASE c.state # "SynReceived"
  BY <1>1, <1>6, TakeAckOpenKeeps
<1>7. CASE c.state = "SynReceived" /\ Before(c.una, s.ack) /\ ~Before(c.nxt, s.ack)
  <2>1. TakeAcknowledgment(c, s) = TakeAckOpen(e, s)
    BY <1>1, <1>7
  <2>2. Kept(e) /\ Begun(e)
    BY <1>2, <1>7 DEF Kept, Over, Outstanding, Begun
  <2>3. Acked(e, TakeAckOpen(e, s))
    BY <1>2, <2>2, TakeAckOpenKeeps
  <2>. QED
    BY <1>2, <2>1, <2>3 DEF Acked
<1>8. CASE c.state = "SynReceived" /\ ~(Before(c.una, s.ack) /\ ~Before(c.nxt, s.ack))
  <2>1. TakeAcknowledgment(c, s) = Stopped(t)
    BY <1>1, <1>8
  <2>. QED
    BY <1>4, <1>5, <2>1 DEF Acked, Stopped, Begun
<1>. QED
  BY <1>6, <1>7, <1>8

-----------------------------------------------------------------------------
\* The text of a segment.

Held == [seq : Number, data : Seq(Octet)]

\* What d has taken into the buffer that c had not: t octets.
Poured(c, d) ==
  /\ d \in Connection /\ d.rwnd = c.rwnd
  /\ \E t \in 0 .. Room(c) : /\ d.rcv = Add(c.rcv, t)
                            /\ Len(d.incoming) = Len(c.incoming) + t

LEMMA PouredRoom ==
  ASSUME NEW c, c \in Connection, Len(c.incoming) <= Buffer, NEW d, Poured(c, d)
  PROVE  Len(d.incoming) <= Buffer
<1>1. Len(c.incoming) \in Nat /\ Room(c) = Buffer - Len(c.incoming)
  BY RoomType
<1>. QED
  BY <1>1, TcpConstants DEF Poured

LEMMA PouredTwice ==
  ASSUME NEW c, c \in Connection, Len(c.incoming) <= Buffer, NEW d, Poured(c, d), NEW e, Poured(d, e)
  PROVE  Poured(c, e)
<1>1. d \in Connection /\ Len(d.incoming) <= Buffer /\ c.rcv \in Number
  BY PouredRoom DEF Poured, Connection
<1>2. PICK t \in 0 .. Room(c) : d.rcv = Add(c.rcv, t) /\ Len(d.incoming) = Len(c.incoming) + t
  BY DEF Poured
<1>3. PICK u \in 0 .. Room(d) : e.rcv = Add(d.rcv, u) /\ Len(e.incoming) = Len(d.incoming) + u
  BY DEF Poured
<1>4. Room(c) = Buffer - Len(c.incoming) /\ Room(d) = Buffer - Len(d.incoming)
      /\ Len(c.incoming) \in Nat /\ Len(d.incoming) \in Nat
  BY <1>1, RoomType
<1>5. t + u \in 0 .. Room(c) /\ t + u < SeqSpace /\ t \in Nat /\ u \in Nat
  BY <1>2, <1>3, <1>4, TcpConstants
<1>6. e.rcv = Add(c.rcv, t + u)
  BY <1>1, <1>2, <1>3, <1>5, AddAdd
<1>7. Len(e.incoming) = Len(c.incoming) + (t + u)
  <2>1. \A a \in Nat : (a + t) + u = a + (t + u)
    BY <1>5
  <2>. QED
    BY <1>2, <1>3, <1>4, <2>1
<1>. QED
  BY <1>5, <1>6, <1>7 DEF Poured

LEMMA TakeInKeeps ==
  ASSUME NEW c, c \in Connection, Len(c.incoming) <= Buffer,
         NEW seq \in Number, NEW data \in Seq(Octet), Dist(seq, c.rcv) <= Len(data)
  PROVE  Poured(c, TakeIn(c, seq, data)) /\ TakeIn(c, seq, data).held = c.held
<1>. DEFINE already == Dist(seq, c.rcv)
            take == Least(Len(data) - already, Room(c))
            piece == SubSeq(data, already + 1, already + take)
            more == c.incoming \o piece
            next == Add(c.rcv, take)
            d == [c EXCEPT !.incoming = more, !.rcv = next]
<1>0. c.rcv \in Number /\ c.incoming \in Seq(Octet) /\ c.rwnd \in Nat
  BY DEF Connection
<1>1. already \in Nat /\ Len(data) \in Nat /\ Room(c) \in Nat
  <2>1. already \in Number
    BY <1>0, DistType
  <2>. QED
    BY <2>1, RoomType, TcpConstants DEF Number
<1>2. take \in 0 .. Room(c) /\ take \in Nat /\ already + take <= Len(data)
  BY <1>1 DEF Least
<1>3. TakeIn(c, seq, data) = d
  BY DEF TakeIn, Room
<1>. HIDE DEF already, take
<1>4. piece \in Seq(Octet) /\ Len(piece) = take
  <2>1. \A i \in already + 1 .. already + take : data[i] \in Octet
    BY <1>1, <1>2, ElementOfSeq
  <2>2. piece \in Seq(Octet)
        /\ Len(piece) = IF already + 1 <= already + take THEN already + take - (already + 1) + 1 ELSE 0
    BY <1>1, <1>2, <2>1, SubSeqProperties
  <2>. QED
    BY <1>1, <1>2, <2>2
<1>. HIDE DEF piece
<1>5. more \in Seq(Octet) /\ Len(more) = Len(c.incoming) + take
  BY <1>0, <1>4, ConcatProperties
<1>6. next \in Number
  BY <1>0, <1>2, AddType
<1>. HIDE DEF more
<1>7. d \in Connection /\ d.rwnd = c.rwnd /\ d.rcv = next /\ d.incoming = more /\ d.held = c.held
  <2>. HIDE DEF next
  <2>. QED
    BY <1>5, <1>6 DEF Connection
<1>. HIDE DEF d
<1>. QED
  BY <1>2, <1>3, <1>5, <1>7 DEF Poured

LEMMA RemoveAtType ==
  ASSUME NEW S, NEW s \in Seq(S), NEW i \in 1 .. Len(s)
  PROVE  RemoveAt(s, i) \in Seq(S)
<1>0. Len(s) \in Nat /\ i \in Nat
  BY LenProperties
<1>1. \A j \in 1 .. i - 1 : s[j] \in S
  BY <1>0, ElementOfSeq
<1>2. \A j \in i + 1 .. Len(s) : s[j] \in S
  BY <1>0, ElementOfSeq
<1>3. SubSeq(s, 1, i - 1) \in Seq(S)
  BY <1>0, <1>1, SubSeqProperties
<1>4. SubSeq(s, i + 1, Len(s)) \in Seq(S)
  BY <1>0, <1>2, SubSeqProperties
<1>. QED
  BY <1>3, <1>4, ConcatProperties DEF RemoveAt

LEMMA TakeHeldKeeps ==
  ASSUME NEW c, c \in Connection, Len(c.incoming) <= Buffer
  PROVE  Poured(c, TakeHeld(c))
<1>. DEFINE at == {i \in DOMAIN c.held : Reaches(c, c.held[i])}
            first == Min(at)
            piece == c.held[first]
            d == TakeIn(c, piece.seq, piece.data)
            left == RemoveAt(d.held, first)
            e == [d EXCEPT !.held = left]
<1>0. c.held \in Seq(Held) /\ c.rcv \in Number
  BY DEF Connection, Held
<1>1. TakeHeld(c) = IF at = {} THEN c ELSE e
  BY DEF TakeHeld
<1>2. CASE at = {}
  <2>1. c.rcv = Add(c.rcv, 0) /\ 0 \in 0 .. Room(c) /\ Len(c.incoming) = Len(c.incoming) + 0
    BY <1>0, AddZero, RoomType
  <2>. HIDE DEF at
  <2>. QED
    BY <1>1, <1>2, <2>1 DEF Poured
<1>3. CASE at # {}
  <2>1. first \in at
    <3>1. at \subseteq Nat
      BY <1>0, LenProperties
    <3>2. PICK least \in at : \A m \in at : least <= m
      BY <1>3, <3>1, LeastMember
    <3>. HIDE DEF at
    <3>3. \E n \in at : \A m \in at : n <= m
      BY <3>2
    <3>. QED
      BY <3>3 DEF Min
  <2>. HIDE DEF first
  <2>2. first \in 1 .. Len(c.held) /\ Reaches(c, piece)
    BY <1>0, <2>1, LenProperties
  <2>3. piece \in Held
    BY <1>0, <2>2, ElementOfSeq
  <2>. HIDE DEF piece
  <2>4. piece.seq \in Number /\ piece.data \in Seq(Octet)
    BY <2>3 DEF Held
  <2>5. Len(piece.data) \in Nat
    BY <2>4
  <2>6. Dist(piece.seq, c.rcv) < Len(piece.data)
    BY <1>0, <2>2, <2>4, <2>5, ReachesLonger DEF Reaches
  <2>7. Dist(piece.seq, c.rcv) <= Len(piece.data)
    <3>1. Dist(piece.seq, c.rcv) \in Number
      BY <1>0, <2>4, DistType
    <3>2. Dist(piece.seq, c.rcv) \in Nat
      BY <3>1, TcpConstants DEF Number
    <3>. QED
      BY <2>5, <2>6, <3>2
  <2>8. Poured(c, d) /\ d.held = c.held
    BY <2>4, <2>7, TakeInKeeps
  <2>. HIDE DEF d
  <2>9. left \in Seq(Held)
    BY <1>0, <2>2, <2>8, RemoveAtType
  <2>. HIDE DEF left
  <2>10. e \in Connection /\ e.rwnd = d.rwnd /\ e.rcv = d.rcv /\ e.incoming = d.incoming
    BY <2>8, <2>9 DEF Poured, Connection, Held
  <2>11. TakeHeld(c) = e
    BY <1>1, <1>3
  <2>. HIDE DEF e
  <2>. QED
    BY <2>8, <2>10, <2>11 DEF Poured
<1>. QED
  BY <1>2, <1>3

LEMMA RetainType ==
  ASSUME NEW S, NEW held \in Seq(S), NEW kept
  PROVE  Retain(held, kept) \in Seq(S)
<1>. DEFINE N == Len(held)
            body(f) == [n \in 0 .. N |->
                          IF n = 0 THEN <<>>
                          ELSE IF held[n] \in kept THEN Append(f[n - 1], held[n]) ELSE f[n - 1]]
            step == [p \in (1 .. N) \X Seq(S) |->
                       IF held[p[1]] \in kept THEN Append(p[2], held[p[1]]) ELSE p[2]]
            Part == CHOOSE f : f = body(f)
<1>1. N \in Nat /\ <<>> \in Seq(S)
  BY LenProperties
<1>2. step \in [(1 .. N) \X Seq(S) -> Seq(S)]
  <2>1. ASSUME NEW p \in (1 .. N) \X Seq(S)
        PROVE  p[2] \in Seq(S) /\ Append(p[2], held[p[1]]) \in Seq(S)
    <3>1. p[1] \in 1 .. N /\ p[2] \in Seq(S)
      OBVIOUS
    <3>2. held[p[1]] \in S
      BY <3>1, ElementOfSeq
    <3>. QED
      BY <3>1, <3>2
  <2>. QED
    BY <2>1
<1>. HIDE DEF N
<1>3. PICK f : Iterates(f, N, Seq(S), <<>>, step)
  <2>. HIDE DEF step
  <2>. QED
    BY <1>1, <1>2, Iterate
<1>4. ASSUME NEW n \in 1 .. N
      PROVE  f[n] = IF held[n] \in kept THEN Append(f[n - 1], held[n]) ELSE f[n - 1]
  <2>1. n - 1 \in 0 .. N
    BY <1>1
  <2>2. f[n - 1] \in Seq(S)
    BY <1>3, <2>1 DEF Iterates
  <2>3. <<n, f[n - 1]>> \in (1 .. N) \X Seq(S)
    BY <2>2
  <2>4. f[n] = step[<<n, f[n - 1]>>]
    BY <1>3 DEF Iterates
  <2>. QED
    BY <2>3, <2>4
<1>. HIDE DEF step
<1>5. f = body(f)
  <2>1. f = [n \in 0 .. N |-> f[n]] /\ f[0] = <<>>
    BY <1>3 DEF Iterates
  <2>2. ASSUME NEW n \in 0 .. N, n # 0 PROVE n \in 1 .. N
    BY <1>1, <2>2
  <2>. QED
    BY <2>1, <2>2, <1>4
<1>. HIDE DEF body
<1>6. Part = body(Part)
  BY <1>5
<1>. HIDE DEF Part
<1>. DEFINE T == {n \in 0 .. N : Part[n] \in Seq(S)}
<1>7. 0 \in T
  BY <1>1, <1>6 DEF body
<1>8. ASSUME NEW n \in 0 .. N - 1, n \in T PROVE n + 1 \in T
  <2>1. n + 1 \in 1 .. N /\ n + 1 \in 0 .. N /\ n + 1 # 0 /\ (n + 1) - 1 = n
    BY <1>1
  <2>2. Part[n + 1] = IF held[n + 1] \in kept THEN Append(Part[n], held[n + 1]) ELSE Part[n]
    BY <1>6, <2>1 DEF body
  <2>3. held[n + 1] \in S
    BY <2>1, ElementOfSeq DEF N
  <2>4. Part[n] \in Seq(S)
    BY <1>8
  <2>5. Append(Part[n], held[n + 1]) \in Seq(S)
    BY <2>3, <2>4
  <2>. QED
    BY <2>1, <2>2, <2>4, <2>5
<1>. HIDE DEF T
<1>9. N \in T
  <2>1. \A n \in 0 .. N : n \in T
    BY <1>1, <1>7, <1>8, UpTo
  <2>. QED
    BY <1>1, <2>1
<1>10. Retain(held, kept) = Part[N]
  BY DEF Retain, Part, body, N
<1>. QED
  BY <1>9, <1>10 DEF T

\* deliver takes in what there is room for, from where the stream has got to.
LEMMA DeliverKeeps ==
  ASSUME NEW c, Fit(c), NEW seq \in Number, NEW data \in Seq(Octet), Dist(seq, c.rcv) <= Len(data)
  PROVE  LET d == Deliver(c, seq, data)
         IN  Fit(d) /\ Clock(d) = Clock(c) /\ Onward(c, d, Buffer)
<1>. DEFINE N == Len(c.held)
            S == {d \in Connection : Poured(c, d)}
            first == TakeIn(c, seq, data)
            body(f) == [n \in 0 .. N |->
                          IF n = 0 THEN first
                          ELSE IF Room(f[n - 1]) > 0 THEN TakeHeld(f[n - 1]) ELSE f[n - 1]]
            step == [p \in (1 .. N) \X S |-> IF Room(p[2]) > 0 THEN TakeHeld(p[2]) ELSE p[2]]
            Taken == CHOOSE f : f = body(f)
            all == TakeHeld(Taken[N])
            ahead == {piece \in Range(all.held) : Before(all.rcv, Add(piece.seq, Len(piece.data)))}
            left == Retain(all.held, ahead)
            e == [c EXCEPT !.incoming = all.incoming, !.rcv = all.rcv, !.held = left]
            d == Advertise(e)
<1>0. c \in Connection /\ Len(c.incoming) <= Buffer /\ c.rcv \in Number /\ c.rwnd \in Nat /\ Filled(c)
  <2>1. c \in Connection /\ Len(c.incoming) <= Buffer /\ Filled(c)
    BY FitFilled DEF Fit
  <2>. QED
    BY <2>1 DEF Connection
<1>1. N \in Nat
  <2>1. c.held \in Seq(Held)
    BY <1>0 DEF Connection, Held
  <2>. QED
    BY <2>1, LenProperties
<1>2. first \in S
  BY <1>0, TakeInKeeps DEF Poured
<1>3. ASSUME NEW p \in S PROVE TakeHeld(p) \in S
  <2>1. p \in Connection /\ Poured(c, p)
    OBVIOUS
  <2>2. Len(p.incoming) <= Buffer
    BY <1>0, <2>1, PouredRoom
  <2>3. Poured(p, TakeHeld(p))
    BY <2>1, <2>2, TakeHeldKeeps
  <2>4. Poured(c, TakeHeld(p))
    BY <1>0, <2>1, <2>3, PouredTwice
  <2>. QED
    BY <2>3, <2>4 DEF Poured
<1>. HIDE DEF S, first, N
<1>4. step \in [(1 .. N) \X S -> S]
  BY <1>3
<1>5. PICK f : Iterates(f, N, S, first, step)
  <2>. HIDE DEF step
  <2>. QED
    BY <1>1, <1>2, <1>4, Iterate
<1>6. ASSUME NEW n \in 1 .. N
      PROVE  f[n] = IF Room(f[n - 1]) > 0 THEN TakeHeld(f[n - 1]) ELSE f[n - 1]
  <2>1. n - 1 \in 0 .. N
    BY <1>1
  <2>2. f[n - 1] \in S
    BY <1>5, <2>1 DEF Iterates
  <2>3. <<n, f[n - 1]>> \in (1 .. N) \X S
    BY <2>2
  <2>4. f[n] = step[<<n, f[n - 1]>>]
    BY <1>5 DEF Iterates
  <2>. QED
    BY <2>3, <2>4
<1>. HIDE DEF step
<1>7. f = body(f)
  <2>1. f = [n \in 0 .. N |-> f[n]] /\ f[0] = first
    BY <1>5 DEF Iterates
  <2>2. ASSUME NEW n \in 0 .. N, n # 0 PROVE n \in 1 .. N
    BY <1>1, <2>2
  <2>. QED
    BY <2>1, <2>2, <1>6
<1>. HIDE DEF body
<1>8. Taken = body(Taken)
  BY <1>7
<1>. HIDE DEF Taken
<1>. DEFINE T == {n \in 0 .. N : Taken[n] \in S}
<1>9. 0 \in T
  BY <1>1, <1>2, <1>8 DEF body
<1>10. ASSUME NEW n \in 0 .. N - 1, n \in T PROVE n + 1 \in T
  <2>1. n + 1 \in 1 .. N /\ n + 1 \in 0 .. N /\ n + 1 # 0 /\ (n + 1) - 1 = n
    BY <1>1
  <2>2. Taken[n + 1] = IF Room(Taken[n]) > 0 THEN TakeHeld(Taken[n]) ELSE Taken[n]
    BY <1>8, <2>1 DEF body
  <2>3. Taken[n] \in S
    BY <1>10
  <2>. QED
    BY <1>3, <2>1, <2>2, <2>3
<1>11. Taken[N] \in S
  <2>. HIDE DEF T
  <2>1. \A n \in 0 .. N : n \in T
    BY <1>1, <1>9, <1>10, UpTo
  <2>. QED
    BY <1>1, <2>1 DEF T
<1>12. all \in Connection /\ Poured(c, all)
  BY <1>3, <1>11 DEF S
<1>13. Deliver(c, seq, data) = d
  BY DEF Deliver, Taken, body, N, first
<1>. HIDE DEF all
<1>14. left \in Seq(Held)
  <2>1. all.held \in Seq(Held)
    BY <1>12 DEF Connection, Held
  <2>. QED
    BY <2>1, RetainType
<1>. HIDE DEF left
<1>15. Len(all.incoming) <= Buffer /\ all.incoming \in Seq(Octet) /\ all.rcv \in Number
  <2>1. Len(all.incoming) <= Buffer
    BY <1>0, <1>12, PouredRoom
  <2>. QED
    BY <1>12, <2>1 DEF Connection
<1>16. e \in Connection /\ Clock(e) = Clock(c) /\ e.rcv = all.rcv /\ e.incoming = all.incoming /\ e.rwnd = c.rwnd
       /\ e.outgoing = c.outgoing /\ e.state = c.state /\ e.una = c.una /\ e.nxt = c.nxt
  BY <1>0, <1>14, <1>15 DEF Connection, Clock, Held
<1>. HIDE DEF e
<1>17. Filled(e)
  BY <1>0, <1>15, <1>16 DEF Filled
<1>18. /\ Fit(d) /\ Clock(d) = Clock(e) /\ d.rcv = e.rcv
       /\ \/ d.rwnd = Room(e) /\ (Room(e) >= e.rwnd \/ Room(e) >= Worth)
          \/ d.rwnd = e.rwnd /\ Room(e) < e.rwnd /\ Room(e) < Worth
  BY <1>17, AdvertiseKeeps
<1>. HIDE DEF d
<1>19. PICK t \in 0 .. Room(c) : all.rcv = Add(c.rcv, t) /\ Len(all.incoming) = Len(c.incoming) + t
  BY <1>12 DEF Poured
<1>20. Room(c) = Buffer - Len(c.incoming) /\ Room(e) = Buffer - Len(e.incoming)
       /\ Len(c.incoming) \in Nat /\ Len(e.incoming) \in Nat /\ Room(c) \in Nat /\ Room(e) \in Nat
  BY <1>0, <1>15, <1>16, RoomType
<1>21. t \in 0 .. Buffer /\ t \in Nat /\ Room(e) + t = Room(c) /\ Room(c) <= Buffer
  <2>1. Len(e.incoming) = Len(c.incoming) + t
    BY <1>16, <1>19
  <2>. QED
    BY <1>20, <2>1, Sizes
<1>22. c.rwnd <= Buffer
  BY <1>0 DEF Filled
<1>23. CASE d.rwnd = c.rwnd
  <2>1. Edge(d) = Add(Add(c.rcv, t), c.rwnd)
    BY <1>16, <1>18, <1>19, <1>23 DEF Edge
  <2>2. c.rwnd + t < SeqSpace /\ t + c.rwnd = c.rwnd + t
    BY <1>0, <1>21, <1>22, Sizes
  <2>3. Edge(d) = Add(Edge(c), t)
    BY <1>0, <1>21, <2>1, <2>2, AddAdd DEF Edge
  <2>. QED
    BY <1>13, <1>16, <1>18, <1>21, <2>3 DEF Onward
<1>24. CASE d.rwnd = Room(e) /\ (Room(e) >= c.rwnd \/ Room(e) >= Worth)
  <2>1. c.rwnd <= Room(c)
    <3>1. Worth \in Nat
      BY Sizes DEF Worth, Least
    <3>2. c.rwnd <= Room(c) \/ (c.rwnd <= Buffer /\ Room(c) < Worth)
      BY DEF Fit
    <3>. QED
      BY <1>0, <1>20, <1>21, <1>24, <3>1, <3>2
  <2>. DEFINE g == Room(c) - c.rwnd
  <2>2. g \in 0 .. Buffer /\ g \in Nat /\ t + Room(e) = c.rwnd + g /\ c.rwnd + g < SeqSpace
    <3>1. Room(c) \in Nat /\ Room(e) \in Nat /\ c.rwnd \in Nat
      BY <1>0, <1>20
    <3>2. \A x \in Nat, y \in Nat, z \in Nat, u \in Nat :
             y + u = x /\ z <= x => x - z \in Nat /\ x - z <= x /\ u + y = z + (x - z)
      OBVIOUS
    <3>3. g \in Nat /\ g <= Room(c) /\ t + Room(e) = c.rwnd + g
      BY <1>21, <2>1, <3>1, <3>2
    <3>. HIDE DEF g
    <3>4. g \in 0 .. Buffer /\ c.rwnd + g < SeqSpace
      BY <1>0, <1>21, <1>22, <3>1, <3>3, Sizes
    <3>. QED
      BY <3>3, <3>4
  <2>. HIDE DEF g
  <2>3. Edge(d) = Add(Add(c.rcv, t), Room(e))
    BY <1>16, <1>18, <1>19, <1>24 DEF Edge
  <2>4. Add(Add(c.rcv, t), Room(e)) = Add(c.rcv, c.rwnd + g)
    BY <1>0, <1>20, <1>21, <2>2, AddAdd
  <2>5. Add(Edge(c), g) = Add(c.rcv, c.rwnd + g)
    BY <1>0, <2>2, AddAdd DEF Edge
  <2>. QED
    BY <1>13, <1>16, <1>18, <2>2, <2>3, <2>4, <2>5 DEF Onward
<1>. QED
  BY <1>16, <1>18, <1>23, <1>24

LEMMA OnwardTwice ==
  ASSUME NEW c, c \in Connection, NEW d, NEW e, NEW j \in Nat, NEW k \in Nat, j + k < SeqSpace,
         Onward(c, d, j), Onward(d, e, k)
  PROVE  Onward(c, e, j + k)
<1>1. c.rcv \in Number /\ c.rwnd \in Nat
  BY DEF Connection
<1>2. Edge(c) \in Number
  BY <1>1, AddType DEF Edge
<1>3. PICK g \in 0 .. j : Edge(d) = Add(Edge(c), g)
  BY DEF Onward
<1>4. PICK h \in 0 .. k : Edge(e) = Add(Edge(d), h)
  BY DEF Onward
<1>5. g + h \in 0 .. j + k /\ g \in Nat /\ h \in Nat /\ g + h < SeqSpace
  BY <1>3, <1>4, Sizes
<1>6. Edge(e) = Add(Edge(c), g + h)
  BY <1>2, <1>3, <1>4, <1>5, AddAdd
<1>. QED
  BY <1>5, <1>6 DEF Onward

\* What the text of a segment leaves of a connection.
Heeds(c, d, k) ==
  /\ Fit(d) /\ Onward(c, d, k)
  /\ Begun(c) => Begun(d)
  /\ Begun(c) /\ Armed(c) => Armed(d)

LEMMA HeedsAlike ==
  ASSUME NEW c, Fit(c), NEW d \in Connection, Clock(d) = Clock(c), Seen(d) = Seen(c), NEW k \in Nat
  PROVE  Heeds(c, d, k)
<1>1. Fit(d) /\ (Armed(c) => Armed(d)) /\ d.state = c.state
  BY FitAlike DEF Clock
<1>2. Onward(c, d, k)
  BY OnwardAlike DEF Fit
<1>. QED
  BY <1>1, <1>2 DEF Heeds, Begun

LEMMA HeedsFollowed ==
  ASSUME NEW c, NEW d, NEW k, Heeds(c, d, k), NEW e \in Connection, Clock(e) = Clock(d), Seen(e) = Seen(d)
  PROVE  Heeds(c, e, k)
<1>1. Fit(e) /\ (Armed(d) => Armed(e)) /\ e.state = d.state
  BY FitAlike DEF Heeds, Clock
<1>2. Onward(c, e, k)
  BY DEF Heeds, Onward, Edge, Seen
<1>. QED
  BY <1>1, <1>2 DEF Heeds, Begun

LEMMA HoldKeeps ==
  ASSUME NEW c \in Connection, NEW seq \in Number, NEW data \in Seq(Octet)
  PROVE  LET d == Hold(c, seq, data)
         IN  d \in Connection /\ Clock(d) = Clock(c) /\ Seen(d) = Seen(c)
<1>. DEFINE more == Append(c.held, [seq |-> seq, data |-> data])
            d == [c EXCEPT !.held = more]
<1>1. more \in Seq([seq : Number, data : Seq(Octet)])
  <2>1. c.held \in Seq([seq : Number, data : Seq(Octet)])
    BY DEF Connection
  <2>2. [seq |-> seq, data |-> data] \in [seq : Number, data : Seq(Octet)]
    OBVIOUS
  <2>. QED
    BY <2>1, <2>2, AppendProperties
<1>. HIDE DEF more
<1>2. d \in Connection /\ Clock(d) = Clock(c) /\ Seen(d) = Seen(c)
  BY <1>1 DEF Connection, Clock, Seen
<1>3. Hold(c, seq, data) = d \/ Hold(c, seq, data) = c
  BY DEF Hold, more
<1>. HIDE DEF d
<1>. QED
  BY <1>2, <1>3

LEMMA HearFinKeeps ==
  ASSUME NEW c, Fit(c)
  PROVE  Heeds(c, HearFin(c), 1)
<1>. DEFINE next == Add(c.rcv, 1)
            notes == c.reports \cup {"Closing"}
            heard == [c EXCEPT !.rcv = next, !.reports = notes]
            waiting == [heard EXCEPT !.state = "CloseWait"]
            closing == [heard EXCEPT !.state = "Closing"]
            wait == EnterTimeWait(heard)
<1>0. c \in Connection /\ c.rcv \in Number /\ c.rwnd \in Nat /\ c.rwnd <= Buffer
  <2>1. c \in Connection /\ c.rwnd <= Buffer
    BY FitFilled DEF Fit
  <2>. QED
    BY <2>1 DEF Connection
<1>1. next \in Number /\ notes \in SUBSET Report
  BY <1>0, AddType DEF Connection, Report
<1>2. HearFin(c) =
        CASE c.state \in {"SynReceived", "Established"} -> waiting
          [] c.state = "FinWait1" /\ ~FinAcked(c)       -> closing
          [] c.state = "FinWait1" /\ FinAcked(c)        -> wait
          [] c.state \in {"FinWait2", "TimeWait"}       -> wait
          [] OTHER -> heard
  BY DEF HearFin
<1>. HIDE DEF notes
<1>3. heard \in Connection /\ Clock(heard) = Clock(c) /\ heard.rcv = next
      /\ heard.rwnd = c.rwnd /\ heard.incoming = c.incoming
  <2>. HIDE DEF next
  <2>. QED
    BY <1>0, <1>1 DEF Connection, Clock
<1>. HIDE DEF heard
<1>4. Fit(heard) /\ (Armed(c) => Armed(heard)) /\ heard.state = c.state
  BY <1>3 DEF Fit, Clock, Room, Armed, Over
<1>5. \A d : Seen(d) = Seen(heard) => Onward(c, d, 1)
  <2>1. c.rwnd + 1 < SeqSpace /\ c.rwnd + 1 = 1 + c.rwnd
    BY <1>0, Sizes
  <2>2. Add(next, c.rwnd) = Add(Edge(c), 1)
    BY <1>0, <2>1, AddAdd DEF Edge
  <2>3. ASSUME NEW d, Seen(d) = Seen(heard) PROVE Edge(d) = Add(Edge(c), 1)
    BY <1>3, <2>2, <2>3 DEF Edge, Seen
  <2>. QED
    BY <2>3 DEF Onward
<1>6. waiting \in Connection /\ Seen(waiting) = Seen(heard) /\ waiting.state = "CloseWait" /\ waiting.una = heard.una
      /\ waiting.nxt = heard.nxt /\ waiting.retransmit_at = heard.retransmit_at /\ waiting.outgoing = heard.outgoing
  BY <1>3 DEF Connection, Seen, TcpState
<1>7. closing \in Connection /\ Seen(closing) = Seen(heard) /\ closing.state = "Closing" /\ closing.una = heard.una
      /\ closing.nxt = heard.nxt /\ closing.retransmit_at = heard.retransmit_at /\ closing.outgoing = heard.outgoing
  BY <1>3 DEF Connection, Seen, TcpState
<1>8. Fit(wait) /\ Seen(wait) = Seen(heard) /\ wait.state = "TimeWait"
  BY <1>4, EnterTimeWaitKeeps
<1>. HIDE DEF waiting, closing, wait
<1>9. Fit(waiting) /\ Fit(closing)
  BY <1>4, <1>6, <1>7 DEF Fit, Seen, Room
<1>10. CASE c.state \in {"SynReceived", "Established"}
  <2>1. HearFin(c) = waiting
    BY <1>2, <1>10
  <2>2. Armed(c) => Armed(waiting)
    BY <1>4, <1>6, <1>10 DEF Armed, Over
  <2>. QED
    BY <1>5, <1>6, <1>9, <2>1, <2>2 DEF Heeds, Begun
<1>11. CASE c.state = "FinWait1" /\ ~FinAcked(c)
  <2>1. HearFin(c) = closing
    BY <1>2, <1>11
  <2>2. Armed(c) => Armed(closing)
    BY <1>4, <1>7, <1>11 DEF Armed, Over
  <2>. QED
    BY <1>5, <1>7, <1>9, <2>1, <2>2 DEF Heeds, Begun
<1>12. CASE (c.state = "FinWait1" /\ FinAcked(c)) \/ c.state \in {"FinWait2", "TimeWait"}
  <2>1. HearFin(c) = wait
    BY <1>2, <1>12
  <2>. QED
    BY <1>5, <1>8, <2>1 DEF Heeds, Begun, Armed, Over
<1>13. CASE c.state \notin {"SynReceived", "Established", "FinWait1", "FinWait2", "TimeWait"}
  <2>1. HearFin(c) = heard
    BY <1>2, <1>13
  <2>. QED
    BY <1>4, <1>5, <2>1 DEF Heeds, Begun
<1>. QED
  BY <1>10, <1>11, <1>12, <1>13

LEMMA AcknowledgeSoonKeeps ==
  ASSUME NEW c \in Connection
  PROVE  LET d == AcknowledgeSoon(c)
         IN  d \in Connection /\ Clock(d) = Clock(c) /\ Seen(d) = Seen(c)
<1>. DEFINE notes == c.reports \cup {"Data"}
            n == c.since_ack + 1
            d == [c EXCEPT !.reports = notes, !.since_ack = n]
            a == Acknowledge(d)
            soon == [d EXCEPT !.ack_at = TRUE]
<1>1. notes \in SUBSET Report /\ n \in Nat
  BY DEF Connection, Report
<1>2. AcknowledgeSoon(c) = a \/ AcknowledgeSoon(c) = soon
  BY DEF AcknowledgeSoon
<1>. HIDE DEF notes, n
<1>3. d \in Connection /\ Clock(d) = Clock(c) /\ Seen(d) = Seen(c)
  BY <1>1 DEF Connection, Clock, Seen
<1>. HIDE DEF d
<1>4. soon \in Connection /\ Clock(soon) = Clock(c) /\ Seen(soon) = Seen(c)
  BY <1>3 DEF Connection, Clock, Seen
<1>5. a \in Connection /\ Clock(a) = Clock(c) /\ Seen(a) = Seen(c)
  BY <1>3, AcknowledgeKeeps
<1>. HIDE DEF a, soon
<1>. QED
  BY <1>2, <1>4, <1>5

LEMMA TakeTextAndFinKeeps ==
  ASSUME NEW c, Fit(c), NEW s \in Segment
  PROVE  Heeds(c, TakeTextAndFin(c, s), Buffer + 1)
<1>. DEFINE seq == Add(s.seq, IF "SYN" \in s.flags THEN 1 ELSE 0)
            text == s.data # <<>> /\ ~Finished(c)
            next == seq = c.rcv \/ (Before(seq, c.rcv) /\ Dist(seq, c.rcv) < Len(s.data))
            delivered == text /\ next /\ Room(c) > 0
            d == IF delivered THEN Deliver(c, seq, s.data) ELSE c
            fin == Acknowledge(HearFin(d))
            soon == AcknowledgeSoon(d)
            held == Acknowledge(Hold(c, seq, s.data))
<1>0. c \in Connection /\ c.rcv \in Number /\ s.data \in Seq(Octet) /\ Len(s.data) \in Nat /\ seq \in Number
  <2>1. s.seq \in Number /\ s.data \in Seq(Octet) /\ c \in Connection
    BY DEF Segment, Fit
  <2>2. Len(s.data) \in Nat /\ c.rcv \in Number
    BY <2>1 DEF Connection
  <2>3. Add(s.seq, 1) \in Number /\ Add(s.seq, 0) \in Number
    BY <2>1, AddType
  <2>. QED
    BY <2>1, <2>2, <2>3
<1>1. \/ TakeTextAndFin(c, s) = held
      \/ TakeTextAndFin(c, s) = fin
      \/ TakeTextAndFin(c, s) = c
      \/ TakeTextAndFin(c, s) = soon
  BY DEF TakeTextAndFin
<1>. HIDE DEF seq
<1>2. Heeds(c, d, Buffer) /\ (Fit(d) /\ d \in Connection)
  <2>1. CASE delivered
    <3>. DEFINE e == Deliver(c, seq, s.data)
    <3>1. Dist(seq, c.rcv) <= Len(s.data)
      <4>1. Dist(seq, c.rcv) \in Nat /\ (seq = c.rcv => Dist(seq, c.rcv) = 0)
        <5>1. Dist(seq, c.rcv) \in Number /\ (Dist(seq, c.rcv) = 0 <=> seq = c.rcv)
          BY <1>0, DistType
        <5>. QED
          BY <5>1, Sizes DEF Number
      <4>. QED
        BY <1>0, <2>1, <4>1
    <3>2. Fit(e) /\ Clock(e) = Clock(c) /\ Onward(c, e, Buffer)
      BY <1>0, <3>1, DeliverKeeps
    <3>3. d = e
      BY <2>1
    <3>. HIDE DEF e, d
    <3>. QED
      BY <3>2, <3>3 DEF Heeds, Begun, Armed, Over, Clock, Fit
  <2>2. CASE ~delivered
    <3>1. d = c
      BY <2>2
    <3>. HIDE DEF d
    <3>. QED
      BY <1>0, <3>1, HeedsAlike, Sizes
  <2>. QED
    BY <2>1, <2>2
<1>. HIDE DEF d
<1>3. Heeds(c, d, Buffer + 1)
  <2>1. Onward(c, d, Buffer + 1)
    BY <1>2, Sizes DEF Heeds, Onward
  <2>. QED
    BY <1>2, <2>1 DEF Heeds
<1>4. Heeds(c, soon, Buffer + 1)
  <2>1. soon \in Connection /\ Clock(soon) = Clock(d) /\ Seen(soon) = Seen(d)
    BY <1>2, AcknowledgeSoonKeeps
  <2>. HIDE DEF soon
  <2>. QED
    BY <1>2, <1>3, <2>1, HeedsFollowed
<1>5. Heeds(c, fin, Buffer + 1)
  <2>. DEFINE h == HearFin(d)
  <2>1. Heeds(d, h, 1)
    BY <1>2, HearFinKeeps
  <2>. HIDE DEF h
  <2>2. Onward(c, h, Buffer + 1)
    BY <1>0, <1>2, <2>1, OnwardTwice, Sizes DEF Heeds
  <2>3. Heeds(c, h, Buffer + 1) /\ Fit(h)
    BY <1>2, <2>1, <2>2 DEF Heeds
  <2>. DEFINE f == Acknowledge(h)
  <2>4. f \in Connection /\ Clock(f) = Clock(h) /\ Seen(f) = Seen(h)
    BY <2>3, AcknowledgeKeeps DEF Fit
  <2>5. f = fin
    BY DEF h
  <2>. HIDE DEF f, fin
  <2>. QED
    BY <2>3, <2>4, <2>5, HeedsFollowed
<1>6. Heeds(c, held, Buffer + 1)
  <2>. DEFINE h == Hold(c, seq, s.data)
              f == Acknowledge(h)
  <2>1. h \in Connection /\ Clock(h) = Clock(c) /\ Seen(h) = Seen(c)
    BY <1>0, HoldKeeps
  <2>. HIDE DEF h
  <2>2. f \in Connection /\ Clock(f) = Clock(h) /\ Seen(f) = Seen(h)
    BY <2>1, AcknowledgeKeeps
  <2>3. f = held
    BY DEF h
  <2>. HIDE DEF f, held
  <2>. QED
    BY <2>1, <2>2, <2>3, HeedsAlike, Sizes
<1>. HIDE DEF held, fin, soon
<1>. QED
  BY <1>0, <1>1, <1>4, <1>5, <1>6, HeedsAlike, Sizes

-----------------------------------------------------------------------------
\* A segment arrives.

LEMMA SegLenType ==
  ASSUME NEW s \in Segment
  PROVE  SegLen(s) \in Nat
<1>1. s.data \in Seq(Octet)
  BY DEF Segment
<1>. DEFINE n == Len(s.data)
<1>2. n \in Nat
  BY <1>1
<1>3. SegLen(s) = n + (IF "SYN" \in s.flags THEN 1 ELSE 0) + (IF "FIN" \in s.flags THEN 1 ELSE 0)
  BY DEF SegLen
<1>. HIDE DEF n
<1>4. (IF "SYN" \in s.flags THEN 1 ELSE 0) \in Nat /\ (IF "FIN" \in s.flags THEN 1 ELSE 0) \in Nat
  OBVIOUS
<1>. QED
  BY <1>2, <1>3, <1>4

LEMMA ResetForType ==
  ASSUME NEW s \in Segment
  PROVE  ResetFor(s) \in Segment
<1>1. s.ack \in Number /\ s.seq \in Number
  BY DEF Segment
<1>2. Add(s.seq, SegLen(s)) \in Number /\ 0 \in Number /\ <<>> \in Seq(Octet)
  BY <1>1, SegLenType, AddType, ZeroNumber
<1>. QED
  BY <1>1, <1>2 DEF ResetFor, Segment, Flag

\* What is left of a connection once a segment has been seen to.
Ready(d) == Fit(d) /\ (d.state = "Listen" \/ Kept(d))

LEMMA ArrivedListeningKeeps ==
  ASSUME NEW c, Fit(c), c.state = "Listen", NEW s \in Segment
  PROVE  Ready(ArrivedListening(c, s))
<1>. DEFINE r == Say(c, ResetFor(s))
            rcv == Add(s.seq, 1)
            nxt == Add(c.iss, 1)
            d == [c EXCEPT !.state = "SynReceived", !.rcv = rcv, !.una = c.iss, !.nxt = nxt,
                           !.wnd = s.wnd, !.wl1 = s.seq]
            t == Transmit(d, <<SynAckOf(d)>>)
<1>0. c \in Connection /\ c.iss \in Number /\ s.seq \in Number /\ s.wnd \in Nat
  <2>1. c \in Connection
    BY DEF Fit
  <2>. QED
    BY <2>1 DEF Connection, Segment
<1>1. r \in Connection /\ Clock(r) = Clock(c) /\ Seen(r) = Seen(c)
  BY <1>0, ResetForType, SayKeeps
<1>2. Ready(r)
  BY <1>1, FitAlike DEF Ready, Clock
<1>3. nxt \in Number /\ nxt # c.iss /\ rcv \in Number
  <2>1. nxt \in Number /\ rcv \in Number
    BY <1>0, AddType
  <2>2. Dist(c.iss, nxt) = 1 /\ Dist(c.iss, c.iss) = 0
    BY <1>0, AddDist, DistType, Sizes
  <2>. QED
    BY <2>1, <2>2
<1>4. ArrivedListening(c, s) = c \/ ArrivedListening(c, s) = r \/ ArrivedListening(c, s) = t
  BY DEF ArrivedListening
<1>. HIDE DEF rcv, nxt, r
<1>5. d \in Connection /\ d.state = "SynReceived" /\ d.una # d.nxt /\ d.outgoing = c.outgoing
      /\ d.incoming = c.incoming /\ d.rwnd = c.rwnd
  BY <1>0, <1>3 DEF Connection, TcpState
<1>. HIDE DEF d
<1>6. <<SynAckOf(d)>> \in Seq(Segment)
  <2>1. SynAckOf(d) \in Segment
    BY <1>5, BlankType DEF SynAckOf, Connection, Flag
  <2>. QED
    BY <2>1
<1>7. t \in Connection /\ Seen(t) = Seen(d)
      /\ Clock(t) = <<d.state, d.una, d.nxt, d.wnd, d.outgoing, d.una # d.nxt>>
  BY <1>5, <1>6, TransmitKeeps
<1>. HIDE DEF t
<1>8. t.state = "SynReceived" /\ t.retransmit_at /\ t.outgoing = c.outgoing /\ t.incoming = c.incoming
      /\ t.rwnd = c.rwnd
  BY <1>5, <1>7 DEF Clock, Seen
<1>9. Fit(t)
  BY <1>7, <1>8 DEF Fit, Room
<1>. QED
  BY <1>2, <1>4, <1>8, <1>9 DEF Ready, Kept

LEMMA ArrivedSynSentKeeps ==
  ASSUME NEW c, Fit(c), Kept(c), c.state = "SynSent", NEW s \in Segment
  PROVE  Ready(ArrivedSynSent(c, s))
<1>. DEFINE ack   == "ACK" \in s.flags
            wrong == ack /\ (~Before(c.iss, s.ack) \/ Before(c.nxt, s.ack))
            rcv == Add(s.seq, 1)
            una == IF ack THEN s.ack ELSE c.una
            heard == [c EXCEPT !.rcv = rcv, !.una = una, !.wnd = s.wnd, !.wl1 = s.seq, !.wl2 = s.ack]
            e == Establish(heard)
            open  == Acknowledge(e)
            text  == IF SegLen(s) > 1 \/ "FIN" \in s.flags THEN TakeTextAndFin(open, s) ELSE open
            both  == [heard EXCEPT !.state = "SynReceived"]
            reset == Blank(c, {"RST"}, s.ack, 0)
            refused == GiveUp(c, "Refused")
            known == Emit(text)
            again == Transmit(both, <<SynAckOf(both)>>)
<1>0. c \in Connection /\ c.una \in Number /\ s.seq \in Number /\ s.ack \in Number /\ s.wnd \in Nat
      /\ c.una # c.nxt /\ c.retransmit_at
  <2>1. c \in Connection /\ c.una # c.nxt /\ c.retransmit_at
    BY DEF Fit, Kept, Over, Outstanding
  <2>. QED
    BY <2>1 DEF Connection, Segment
<1>1. rcv \in Number /\ una \in Number
  BY <1>0, AddType
<1>2. \/ ArrivedSynSent(c, s) = c
      \/ ArrivedSynSent(c, s) = Say(c, reset)
      \/ ArrivedSynSent(c, s) = refused
      \/ ArrivedSynSent(c, s) = known
      \/ ArrivedSynSent(c, s) = again /\ ~wrong /\ ~Before(c.iss, heard.una)
  BY DEF ArrivedSynSent
<1>3. heard.una = una
  BY <1>0 DEF Connection
<1>4. ~wrong /\ ~Before(c.iss, una) => una = c.una
  OBVIOUS
<1>. HIDE DEF wrong, rcv, una
<1>5. heard \in Connection /\ heard.state = "SynSent" /\ heard.nxt = c.nxt /\ heard.retransmit_at
      /\ heard.outgoing = c.outgoing /\ heard.incoming = c.incoming /\ heard.rwnd = c.rwnd
  BY <1>0, <1>1 DEF Connection
<1>. HIDE DEF heard
<1>6. Firm(heard)
  BY <1>5 DEF Fit, Firm, Room
<1>7. Ready(Say(c, reset))
  <2>. DEFINE r == Say(c, reset)
  <2>1. reset \in Segment
    BY <1>0, BlankType, ZeroNumber DEF Flag
  <2>. HIDE DEF reset
  <2>2. r \in Connection /\ Clock(r) = Clock(c) /\ Seen(r) = Seen(c)
    BY <1>0, <2>1, SayKeeps
  <2>. HIDE DEF r
  <2>3. Ready(r)
    BY <2>2, FitAlike DEF Ready
  <2>. QED
    BY <2>3 DEF r
<1>8. Ready(refused)
  BY GiveUpKeeps DEF Ready, Kept, Over, Report
<1>9. Ready(known)
  <2>1. Fit(e) /\ e.state = "Established" /\ e.retransmit_at
    BY <1>5, <1>6, EstablishKeeps
  <2>. HIDE DEF e
  <2>2. open \in Connection /\ Clock(open) = Clock(e) /\ Seen(open) = Seen(e)
    BY <2>1, AcknowledgeKeeps DEF Fit
  <2>. HIDE DEF open
  <2>3. Fit(open) /\ Begun(open) /\ Armed(open)
    BY <2>1, <2>2, FitAlike DEF Begun, Armed, Clock
  <2>4. Fit(text) /\ Begun(text) /\ Armed(text)
    BY <2>3, TakeTextAndFinKeeps DEF Heeds
  <2>. HIDE DEF text
  <2>. QED
    BY <2>4, EmitKeeps DEF Ready, Begun
<1>10. ASSUME ~wrong, ~Before(c.iss, heard.una) PROVE Ready(again)
  <2>1. heard.una # heard.nxt
    BY <1>0, <1>3, <1>4, <1>5, <1>10
  <2>2. both \in Connection /\ Seen(both) = Seen(heard) /\ both.state = "SynReceived" /\ both.una # both.nxt
        /\ both.outgoing = heard.outgoing
    BY <1>5, <2>1 DEF Connection, Seen, TcpState
  <2>. HIDE DEF both
  <2>3. <<SynAckOf(both)>> \in Seq(Segment)
    <3>1. SynAckOf(both) \in Segment
      BY <2>2, BlankType DEF SynAckOf, Connection, Flag
    <3>. QED
      BY <3>1
  <2>4. again \in Connection /\ Seen(again) = Seen(both)
        /\ Clock(again) = <<both.state, both.una, both.nxt, both.wnd, both.outgoing, both.una # both.nxt>>
    BY <2>2, <2>3, TransmitKeeps
  <2>. HIDE DEF again
  <2>5. again.state = "SynReceived" /\ again.retransmit_at /\ again.outgoing = heard.outgoing
    BY <2>2, <2>4 DEF Clock
  <2>6. Fit(again)
    BY <1>6, <2>2, <2>4, <2>5 DEF Fit, Firm, Seen, Room
  <2>. QED
    BY <2>5, <2>6 DEF Ready, Kept
<1>. HIDE DEF known, again, refused
<1>11. Ready(c)
  BY DEF Ready
<1>. QED
  BY <1>2, <1>7, <1>8, <1>9, <1>10, <1>11

LEMMA ResetByKeeps ==
  ASSUME NEW c, Fit(c)
  PROVE  LET d == ResetBy(c)
         IN  Ready(d) /\ (d.state = "Listen" \/ Seen(d) = Seen(c))
<1>. DEFINE l == Relisten(c)
            g(why) == GiveUp(c, why)
<1>1. Ready(l) /\ l.state = "Listen"
  BY RelistenKeeps DEF Ready
<1>2. \A why \in Report : Ready(g(why)) /\ Seen(g(why)) = Seen(c)
  BY GiveUpKeeps DEF Ready, Kept, Over
<1>3. ResetBy(c) = l \/ \E why \in Report : ResetBy(c) = g(why)
  BY DEF ResetBy, Report
<1>. HIDE DEF l, g
<1>. QED
  BY <1>1, <1>2, <1>3

LEMMA ArrivedSynchronizedKeeps ==
  ASSUME NEW c, Fit(c), Kept(c), Begun(c), NEW s \in Segment
  PROVE  LET d == ArrivedSynchronized(c, s)
         IN  Ready(d) /\ (d.state = "Listen" \/ Onward(c, d, Buffer + 1))
<1>. DEFINE t == TakeAcknowledgment(c, s)
            text == TakeTextAndFin(t.c, s)
            full == Emit(text)
            a == Acknowledge(c)
            r == ResetBy(c)
            l == Relisten(c)
<1>0. c \in Connection
  BY DEF Fit
<1>1. \/ ArrivedSynchronized(c, s) = c
      \/ ArrivedSynchronized(c, s) = a
      \/ ArrivedSynchronized(c, s) = r
      \/ ArrivedSynchronized(c, s) = l
      \/ ArrivedSynchronized(c, s) = full /\ t.on
      \/ ArrivedSynchronized(c, s) = t.c /\ ~t.on
  BY DEF ArrivedSynchronized
<1>2. \A d : Fit(d) /\ Kept(d) /\ Seen(d) = Seen(c) => Ready(d) /\ Onward(c, d, Buffer + 1)
  BY <1>0, OnwardAlike, Sizes DEF Ready
<1>3. a \in Connection /\ Clock(a) = Clock(c) /\ Seen(a) = Seen(c)
  BY <1>0, AcknowledgeKeeps
<1>. HIDE DEF a
<1>4. Fit(a) /\ Kept(a)
  BY <1>3, FitAlike
<1>5. Ready(r) /\ (r.state = "Listen" \/ Seen(r) = Seen(c))
  BY ResetByKeeps
<1>6. Ready(l) /\ l.state = "Listen"
  BY RelistenKeeps DEF Ready
<1>7. Acked(c, t)
  BY TakeAcknowledgmentKeeps
<1>. HIDE DEF t, r, l
<1>8. ASSUME t.on PROVE Ready(full) /\ Onward(c, full, Buffer + 1)
  <2>1. Fit(t.c) /\ Seen(t.c) = Seen(c) /\ Begun(t.c) /\ Armed(t.c)
    BY <1>7, <1>8 DEF Acked
  <2>2. Heeds(t.c, text, Buffer + 1)
    BY <2>1, TakeTextAndFinKeeps
  <2>3. Fit(text) /\ Begun(text) /\ Armed(text) /\ Onward(t.c, text, Buffer + 1)
    BY <2>1, <2>2 DEF Heeds
  <2>. HIDE DEF text
  <2>4. Fit(full) /\ Seen(full) = Seen(text) /\ Kept(full)
    BY <2>3, EmitKeeps DEF Begun
  <2>. HIDE DEF full
  <2>5. Onward(c, full, Buffer + 1)
    BY <2>1, <2>3, <2>4 DEF Onward, Edge, Seen
  <2>. QED
    BY <2>4, <2>5 DEF Ready
<1>9. ASSUME ~t.on PROVE Fit(t.c) /\ Kept(t.c) /\ Seen(t.c) = Seen(c)
  BY <1>7, <1>9 DEF Acked
<1>10. r.state = "Listen" \/ Onward(c, r, Buffer + 1)
  BY <1>0, <1>5, OnwardAlike, Sizes
<1>. HIDE DEF full
<1>. QED
  BY <1>1, <1>2, <1>3, <1>4, <1>5, <1>6, <1>8, <1>9, <1>10

LEMMA ReceiveKeeps ==
  ASSUME NEW c, Fit(c), c.state = "Listen" \/ Kept(c), NEW s \in Segment
  PROVE  LET d == Receive(c, s)
         IN  Ready(d) /\ (Begun(c) /\ d.state # "Listen" => Onward(c, d, Buffer + 1))
<1>. DEFINE r == Say(c, ResetFor(s))
<1>0. c \in Connection /\ c.state \in TcpState
  <2>1. c \in Connection
    BY DEF Fit
  <2>. QED
    BY <2>1 DEF Connection
<1>1. CASE c.state = "Closed"
  <2>1. r \in Connection /\ Clock(r) = Clock(c) /\ Seen(r) = Seen(c)
    BY <1>0, ResetForType, SayKeeps
  <2>2. Receive(c, s) = c \/ Receive(c, s) = r
    BY <1>1 DEF Receive
  <2>. HIDE DEF r
  <2>3. Ready(c) /\ Ready(r)
    BY <1>1, <2>1, FitAlike DEF Ready
  <2>4. Onward(c, c, Buffer + 1) /\ Onward(c, r, Buffer + 1)
    BY <1>0, <2>1, OnwardAlike, Sizes
  <2>. QED
    BY <2>2, <2>3, <2>4
<1>2. CASE c.state = "Listen"
  <2>1. Receive(c, s) = ArrivedListening(c, s)
    BY <1>2 DEF Receive
  <2>. QED
    BY <1>2, <2>1, ArrivedListeningKeeps DEF Begun
<1>3. CASE c.state = "SynSent"
  <2>1. Receive(c, s) = ArrivedSynSent(c, s)
    BY <1>3 DEF Receive
  <2>. QED
    BY <1>3, <2>1, ArrivedSynSentKeeps DEF Begun
<1>4. CASE c.state \notin {"Closed", "Listen", "SynSent"}
  <2>1. Receive(c, s) = ArrivedSynchronized(c, s)
    BY <1>4 DEF Receive
  <2>. QED
    BY <1>4, <2>1, ArrivedSynchronizedKeeps DEF Begun
<1>. QED
  BY <1>1, <1>2, <1>3, <1>4

-----------------------------------------------------------------------------
(* The stacks and the network between them.                                *)

Standing(e) == Open(e) => /\ Fit(table[e]) /\ Kept(table[e])
                          /\ table[e].state # "Listen"

IInv == TypeOK /\ \A e \in Ends : Standing(e)

\* The window of a connection that lives on has not been taken back.
Went(e) == Open(e) /\ (Open(e))' /\ table[e].state \notin {"SynSent", "Listen"} =>
             Onward(table[e], table'[e], Buffer + 1)

Stays == table' = table /\ UNCHANGED <<orphans, told>> /\ net' \in [Ends -> Seq(Segment)]

Collected ==
  /\ table' \in [Ends -> Connection \cup {None}]
  /\ orphans' \in [Ends -> Nat] /\ net' \in [Ends -> Seq(Segment)]
  /\ told' \in [Ends -> SUBSET Report]
  /\ \A e \in Ends : (Standing(e))' /\ Went(e)

LEMMA PeerType ==
  ASSUME NEW e \in Ends
  PROVE  Peer(e) \in Ends /\ Peer(e) # e
BY DEF Ends, Peer

LEMMA StaysCollected ==
  ASSUME IInv, Stays
  PROVE  Collected
<1>1. \A e \in Ends : (Standing(e))'
  BY DEF IInv, Standing, Stays, Open
<1>2. ASSUME NEW e \in Ends, Open(e) PROVE Onward(table[e], table'[e], Buffer + 1)
  <2>1. table[e] \in Connection
    BY <1>2 DEF IInv, TypeOK, Open
  <2>2. Onward(table[e], table[e], Buffer + 1)
    BY <2>1, OnwardNow
  <2>. QED
    BY <2>2 DEF Stays
<1>. QED
  BY <1>1, <1>2 DEF Collected, IInv, TypeOK, Stays, Went

LEMMA CollectKeeps ==
  ASSUME IInv, NEW e \in Ends, NEW c, Ready(c), NEW arriving \in Seq(Segment), Collect(e, c, arriving),
         Open(e) /\ Begun(table[e]) /\ c.state # "Listen" => Onward(table[e], c, Buffer + 1)
  PROVE  Collected
<1>. DEFINE d == [c EXCEPT !.out = <<>>, !.reports = {}]
            left == IF c.state = "Listen" \/ (c.state = "Closed" /\ c.incoming = <<>>) THEN None ELSE d
            sent == net[Peer(e)] \o c.out
<1>0. c \in Connection /\ c.out \in Seq(Segment) /\ c.reports \in SUBSET Report /\ <<>> \in Seq(Segment)
  <2>1. c \in Connection
    BY DEF Ready, Fit
  <2>. QED
    BY <2>1 DEF Connection
<1>1. d \in Connection /\ Clock(d) = Clock(c) /\ Seen(d) = Seen(c)
  BY <1>0 DEF Connection, Clock, Seen
<1>2. table' = [table EXCEPT ![e] = left]
  BY DEF Collect
<1>. HIDE DEF d
<1>3. left = None \/ (left = d /\ c.state # "Listen" /\ Fit(d) /\ Kept(d) /\ d.state = c.state)
  <2>1. Fit(d) /\ (Kept(c) => Kept(d)) /\ d.state = c.state
    BY <1>1, FitAlike DEF Ready, Clock
  <2>. QED
    BY <2>1 DEF Ready
<1>4. left \in Connection \cup {None}
  BY <1>1, <1>3
<1>. HIDE DEF left
<1>5. table' \in [Ends -> Connection \cup {None}] /\ table'[e] = left
      /\ \A f \in Ends : f # e => table'[f] = table[f]
  BY <1>2, <1>4 DEF IInv, TypeOK
<1>6. orphans' \in [Ends -> Nat]
  <2>1. orphans' = [orphans EXCEPT ![e] = IF c.state = "Listen" THEN @ + 1 ELSE @]
    BY DEF Collect
  <2>. QED
    BY <2>1 DEF IInv, TypeOK
<1>7. net' \in [Ends -> Seq(Segment)]
  <2>1. net[Peer(e)] \in Seq(Segment) /\ Peer(e) \in Ends
    BY PeerType DEF IInv, TypeOK
  <2>2. sent \in Seq(Segment)
    BY <1>0, <2>1, ConcatProperties
  <2>3. net' = [net EXCEPT ![e] = arriving, ![Peer(e)] = sent]
    BY PeerType DEF Collect, IInv, TypeOK
  <2>. HIDE DEF sent
  <2>. QED
    BY <2>2, <2>3 DEF IInv, TypeOK
<1>8. told' \in [Ends -> SUBSET Report]
  <2>1. told[e] \cup c.reports \in SUBSET Report
    BY <1>0 DEF IInv, TypeOK
  <2>2. told' = [told EXCEPT ![e] = told[e] \cup c.reports]
    BY DEF Collect
  <2>. QED
    BY <2>1, <2>2 DEF IInv, TypeOK
<1>9. ASSUME NEW f \in Ends PROVE (Standing(f))' /\ Went(f)
  <2>1. CASE f = e
    <3>1. (Standing(e))'
      BY <1>3, <1>5 DEF Standing, Open
    <3>2. ASSUME Open(e), (Open(e))', Begun(table[e])
          PROVE  Onward(table[e], table'[e], Buffer + 1)
      <4>1. table'[e] = d /\ c.state # "Listen"
        BY <1>3, <1>5, <3>2 DEF Open
      <4>2. Onward(table[e], c, Buffer + 1)
        BY <3>2, <4>1
      <4>. QED
        BY <1>1, <4>1, <4>2 DEF Onward, Edge, Seen
    <3>. QED
      BY <2>1, <3>1, <3>2 DEF Went, Begun
  <2>2. CASE f # e
    <3>1. table'[f] = table[f]
      BY <1>5, <2>2
    <3>2. (Standing(f))'
      BY <3>1 DEF IInv, Standing, Open
    <3>3. ASSUME Open(f) PROVE Onward(table[f], table'[f], Buffer + 1)
      <4>1. table[f] \in Connection
        BY <3>3 DEF IInv, TypeOK, Open
      <4>2. Onward(table[f], table[f], Buffer + 1)
        BY <4>1, OnwardNow
      <4>. QED
        BY <3>1, <4>2
    <3>. QED
      BY <3>2, <3>3 DEF Went
  <2>. QED
    BY <2>1, <2>2
<1>. QED
  BY <1>5, <1>6, <1>7, <1>8, <1>9 DEF Collected

\* One that only tells its window on, and is collected.
LEMMA CollectSeen ==
  ASSUME IInv, NEW e \in Ends, Open(e), NEW d, Ready(d), NEW arriving \in Seq(Segment),
         Seen(d) = Seen(table[e]), Collect(e, d, arriving)
  PROVE  Collected
<1>1. table[e] \in Connection
  BY DEF IInv, TypeOK, Open
<1>2. Onward(table[e], d, Buffer + 1)
  BY <1>1, OnwardAlike, Sizes
<1>. QED
  BY <1>2, CollectKeeps

LEMMA OpenFit ==
  ASSUME IInv, NEW e \in Ends, Open(e)
  PROVE  table[e] \in Connection /\ Fit(table[e]) /\ Kept(table[e]) /\ net[e] \in Seq(Segment)
BY DEF IInv, TypeOK, Open, Standing

LEMMA TakeKeeps ==
  ASSUME IInv, NEW e \in Ends, NEW s \in Segment, NEW arriving \in Seq(Segment), Take(e, s, arriving)
  PROVE  Collected
<1>1. CASE Open(e)
  <2>1. Collect(e, Receive(table[e], s), arriving)
    BY <1>1 DEF Take
  <2>2. Fit(table[e]) /\ Kept(table[e])
    BY <1>1, OpenFit
  <2>. DEFINE d == Receive(table[e], s)
  <2>3. Ready(d) /\ (Begun(table[e]) /\ d.state # "Listen" => Onward(table[e], d, Buffer + 1))
    BY <2>2, ReceiveKeeps
  <2>. HIDE DEF d
  <2>4. Collect(e, d, arriving)
    BY <2>1 DEF d
  <2>. QED
    BY <2>3, <2>4, CollectKeeps
<1>2. CASE ~Open(e) /\ "SYN" \in s.flags /\ "RST" \notin s.flags /\ e \notin callers
  <2>1. PICK iss \in Isns : Collect(e, Receive(New(iss, "Listen", TRUE), s), arriving)
    BY <1>2 DEF Take
  <2>. DEFINE c == New(iss, "Listen", TRUE)
              d == Receive(c, s)
  <2>2. iss \in Number
    BY TcpBounds
  <2>3. c \in Connection
    BY <2>2, NewType DEF TcpState
  <2>4. c.state = "Listen" /\ c.outgoing = <<>> /\ c.incoming = <<>> /\ c.rwnd = Buffer
    BY DEF New
  <2>. HIDE DEF c
  <2>5. Fit(c)
    <3>1. Room(c) = Buffer /\ Len(c.incoming) = 0 /\ Len(c.outgoing) = 0
      BY <2>4, RoomOfNone
    <3>. QED
      BY <2>3, <2>4, <3>1, Sizes DEF Fit
  <2>6. Ready(d)
    BY <2>4, <2>5, ReceiveKeeps
  <2>7. Collect(e, d, arriving)
    BY <2>1 DEF c
  <2>. HIDE DEF d
  <2>. QED
    BY <1>2, <2>6, <2>7, CollectKeeps
<1>3. CASE ~Open(e) /\ ~("SYN" \in s.flags /\ "RST" \notin s.flags /\ e \notin callers)
  <2>. DEFINE reply == IF "RST" \in s.flags THEN net[Peer(e)] ELSE Append(net[Peer(e)], ResetFor(s))
  <2>1. net' = [net EXCEPT ![e] = arriving, ![Peer(e)] = reply] /\ UNCHANGED <<table, orphans, told>>
    BY <1>3, PeerType DEF Take, IInv, TypeOK
  <2>2. net[Peer(e)] \in Seq(Segment) /\ net \in [Ends -> Seq(Segment)]
    BY PeerType DEF IInv, TypeOK
  <2>3. reply \in Seq(Segment)
    <3>1. Append(net[Peer(e)], ResetFor(s)) \in Seq(Segment)
      BY <2>2, ResetForType, AppendProperties
    <3>. QED
      BY <2>2, <3>1
  <2>. HIDE DEF reply
  <2>4. Stays
    BY <2>1, <2>2, <2>3 DEF Stays
  <2>. QED
    BY <2>4, StaysCollected
<1>. QED
  BY <1>1, <1>2, <1>3

LEMMA ExpireKeeps ==
  ASSUME IInv, NEW e \in Ends, NEW due, Expire(e, due)
  PROVE  Collected
<1>. DEFINE d == Tick(table[e], due)
<1>1. Open(e) /\ Collect(e, d, net[e])
  BY DEF Expire
<1>2. Fit(table[e]) /\ Kept(table[e]) /\ net[e] \in Seq(Segment)
  BY <1>1, OpenFit
<1>3. Fit(d) /\ Seen(d) = Seen(table[e]) /\ Kept(d)
  BY <1>2, TickKeeps
<1>. HIDE DEF d
<1>. QED
  BY <1>1, <1>2, <1>3, CollectSeen DEF Ready

LEMMA StepKeeps ==
  ASSUME IInv, Next
  PROVE  Collected /\ TypeOK'
<1>0. PICK e \in Ends : ProgramStep(e) \/ Arrive(e) \/ Disturb(e) \/ Passes(e) \/ PassesEarly(e)
  BY DEF Next
<1>1. /\ callers \in Openings /\ dialled \subseteq Ends
      /\ ended \in [Ends -> {"no", "closed", "aborted"}] /\ written \in [Ends -> Nat]
      /\ got \in [Ends -> Seq(Octet)] /\ faults \in 0 .. MaxFaults /\ net \in [Ends -> Seq(Segment)]
      /\ net[e] \in Seq(Segment) /\ MaxFaults \in Nat
  BY TcpBounds DEF IInv, TypeOK
<1>2. Collected /\ UNCHANGED <<program, faults>> => TypeOK'
  BY <1>1 DEF Collected, TypeOK, program
<1>3. ASSUME NEW kind, Fault(kind) PROVE faults' \in 0 .. MaxFaults
  BY <1>1, <1>3 DEF Fault
<1>4. CASE Connect(e)
  <2>1. PICK iss \in Isns : Collect(e, ConnectSized(iss), net[e])
    BY <1>4 DEF Connect
  <2>2. iss \in Number
    BY TcpBounds
  <2>. DEFINE d == ConnectSized(iss)
  <2>3. Ready(d) /\ d.state = "SynSent"
    BY <2>2, ConnectKeeps DEF Ready
  <2>. HIDE DEF d
  <2>4. Collect(e, d, net[e]) /\ ~Open(e)
    BY <1>4, <2>1 DEF d, Connect
  <2>5. Collected
    BY <1>1, <2>3, <2>4, CollectKeeps
  <2>. QED
    BY <1>1, <1>4, <2>5 DEF Connect, Collected, TypeOK
<1>5. CASE Write(e)
  <2>1. PICK n \in 1 .. Least(MaxWrite[e] - written[e], SendRoom(table[e])) :
          /\ Collect(e, SendCall(table[e], [i \in 1 .. n |-> written[e] + i]), net[e])
          /\ written' = [written EXCEPT ![e] = @ + n]
    BY <1>5 DEF Write
  <2>. DEFINE text == [i \in 1 .. n |-> written[e] + i]
              d == SendCall(table[e], text)
  <2>2. Open(e) /\ Fit(table[e]) /\ Kept(table[e]) /\ written[e] \in Nat /\ MaxWrite[e] \in Nat
    BY <1>1, <1>5, OpenFit, TcpBounds DEF Write
  <2>3. SendRoom(table[e]) \in Int
    <3>1. table[e].outgoing \in Seq(Octet)
      BY <2>2 DEF Fit, Connection
    <3>2. Len(table[e].outgoing) \in Nat
      BY <3>1
    <3>. QED
      BY <3>2, Sizes DEF SendRoom
  <2>4. n \in Nat /\ n <= SendRoom(table[e])
    BY <2>2, <2>3 DEF Least
  <2>5. text \in Seq(Octet) /\ Len(text) = n
    <3>1. \A i \in 1 .. n : written[e] + i \in Octet
      BY <2>2, <2>4 DEF Octet
    <3>. QED
      BY <2>4, <3>1
  <2>. HIDE DEF text
  <2>6. Fit(d) /\ Seen(d) = Seen(table[e]) /\ Kept(d)
    BY <2>2, <2>4, <2>5, SendCallKeeps
  <2>. HIDE DEF d
  <2>7. Collect(e, d, net[e])
    BY <2>1 DEF d, text
  <2>8. Collected
    BY <1>1, <2>2, <2>6, <2>7, CollectSeen DEF Ready
  <2>9. written' \in [Ends -> Nat]
    BY <1>1, <2>1, <2>4
  <2>. QED
    BY <1>1, <1>5, <2>8, <2>9 DEF Write, Collected, TypeOK
<1>6. CASE Read(e)
  <2>. DEFINE d == TakeReceived(table[e])
              more == got[e] \o table[e].incoming
  <2>1. Open(e) /\ Fit(table[e]) /\ Kept(table[e]) /\ table[e] \in Connection
    BY <1>6, OpenFit DEF Read
  <2>2. Fit(d) /\ Clock(d) = Clock(table[e]) /\ Onward(table[e], d, Buffer)
    BY <2>1, TakeReceivedKeeps
  <2>. HIDE DEF d
  <2>3. Kept(d) /\ Onward(table[e], d, Buffer + 1)
    <3>1. Kept(d)
      BY <2>1, <2>2 DEF Clock, Kept, Over, Outstanding
    <3>. QED
      BY <2>2, <3>1, Sizes DEF Onward
  <2>4. Collect(e, d, net[e])
    BY <1>6 DEF Read, d
  <2>5. Collected
    BY <1>1, <2>2, <2>3, <2>4, CollectKeeps DEF Ready
  <2>6. more \in Seq(Octet)
    <3>1. got[e] \in Seq(Octet) /\ table[e].incoming \in Seq(Octet)
      BY <1>1, <2>1 DEF Connection
    <3>. QED
      BY <3>1, ConcatProperties
  <2>7. got' = [got EXCEPT ![e] = more]
    BY <1>6 DEF Read
  <2>. HIDE DEF more
  <2>8. got' \in [Ends -> Seq(Octet)]
    BY <1>1, <2>6, <2>7
  <2>. QED
    BY <1>1, <1>6, <2>5, <2>8 DEF Read, Collected, TypeOK
<1>7. CASE Close(e)
  <2>. DEFINE d == CloseCall(table[e])
  <2>1. Open(e) /\ Fit(table[e]) /\ Kept(table[e])
    BY <1>7, OpenFit DEF Close
  <2>2. Fit(d) /\ Seen(d) = Seen(table[e]) /\ Kept(d)
    BY <2>1, CloseCallKeeps
  <2>. HIDE DEF d
  <2>3. Collect(e, d, net[e])
    BY <1>7 DEF Close, d
  <2>4. Collected
    BY <1>1, <2>1, <2>2, <2>3, CollectSeen DEF Ready
  <2>5. ended' \in [Ends -> {"no", "closed", "aborted"}]
    BY <1>1, <1>7 DEF Close
  <2>. QED
    BY <1>1, <1>7, <2>4, <2>5 DEF Close, Collected, TypeOK
<1>8. CASE AbortOpen(e)
  <2>. DEFINE d == Abort(table[e])
  <2>1. Open(e) /\ Fit(table[e])
    BY <1>8, OpenFit DEF AbortOpen
  <2>2. Fit(d) /\ Seen(d) = Seen(table[e]) /\ Kept(d)
    BY <2>1, AbortKeeps DEF Kept, Over
  <2>. HIDE DEF d
  <2>3. Collect(e, d, net[e])
    BY <1>8 DEF AbortOpen, d
  <2>4. Collected
    BY <1>1, <2>1, <2>2, <2>3, CollectSeen DEF Ready
  <2>5. ended' \in [Ends -> {"no", "closed", "aborted"}]
    BY <1>1, <1>8 DEF AbortOpen
  <2>. QED
    BY <1>1, <1>8, <2>4, <2>5 DEF AbortOpen, Collected, TypeOK
<1>9. CASE Arrive(e)
  <2>1. Head(net[e]) \in Segment /\ Tail(net[e]) \in Seq(Segment)
    BY <1>1, <1>9, HeadTailProperties DEF Arrive
  <2>2. Collected
    BY <1>9, <2>1, TakeKeeps DEF Arrive
  <2>. QED
    BY <1>2, <1>9, <2>2 DEF Arrive
<1>10. CASE Disturb(e)
  <2>0. net[e] # <<>> /\ Head(net[e]) \in Segment /\ Tail(net[e]) \in Seq(Segment)
    BY <1>1, <1>10, HeadTailProperties DEF Disturb
  <2>1. faults' \in 0 .. MaxFaults
    BY <1>3, <1>10 DEF Disturb
  <2>2. net' \in [Ends -> Seq(Segment)]
    <3>1. CASE net' = [net EXCEPT ![e] = Tail(@)]
      BY <1>1, <2>0, <3>1
    <3>2. CASE net' = [net EXCEPT ![e] = Append(@, Head(@))]
      <4>1. Append(net[e], Head(net[e])) \in Seq(Segment)
        BY <1>1, <2>0, AppendProperties
      <4>. QED
        BY <1>1, <3>2, <4>1
    <3>3. CASE Len(net[e]) > 1 /\ net' = [net EXCEPT ![e] = <<@[2], @[1]>> \o SubSeq(@, 3, Len(@))]
      <4>. DEFINE rest == SubSeq(net[e], 3, Len(net[e]))
                  front == <<net[e][2], net[e][1]>>
                  swapped == front \o rest
      <4>0. Len(net[e]) \in Nat
        BY <1>1
      <4>1. net[e][1] \in Segment /\ net[e][2] \in Segment
        BY <1>1, <3>3, <4>0, ElementOfSeq
      <4>2. front \in Seq(Segment)
        BY <4>1
      <4>3. \A j \in 3 .. Len(net[e]) : net[e][j] \in Segment
        BY <1>1, <4>0, ElementOfSeq
      <4>4. rest \in Seq(Segment)
        BY <4>0, <4>3, SubSeqProperties
      <4>. HIDE DEF rest, front
      <4>5. swapped \in Seq(Segment)
        BY <4>2, <4>4, ConcatProperties
      <4>6. net' = [net EXCEPT ![e] = swapped]
        BY <1>1, <3>3 DEF rest, front
      <4>. HIDE DEF swapped
      <4>. QED
        BY <1>1, <4>5, <4>6
    <3>. QED
      BY <1>10, <3>1, <3>2, <3>3 DEF Disturb
  <2>3. Stays
    BY <1>10, <2>2 DEF Disturb, Stays
  <2>4. Collected
    BY <2>3, StaysCollected
  <2>. QED
    BY <1>1, <1>10, <2>1, <2>4 DEF Disturb, Collected, TypeOK, program
<1>11. CASE Passes(e)
  <2>1. Collected
    BY <1>11, ExpireKeeps DEF Passes
  <2>. QED
    BY <1>2, <1>11, <2>1 DEF Passes
<1>12. CASE PassesEarly(e)
  <2>1. faults' \in 0 .. MaxFaults
    BY <1>3, <1>12 DEF PassesEarly
  <2>2. Collected
    BY <1>12, ExpireKeeps DEF PassesEarly
  <2>. QED
    BY <1>1, <1>12, <2>1, <2>2 DEF PassesEarly, Collected, TypeOK, program
<1>. QED
  BY <1>0, <1>4, <1>5, <1>6, <1>7, <1>8, <1>9, <1>10, <1>11, <1>12 DEF ProgramStep

LEMMA InitIInv ==
  ASSUME Init
  PROVE  IInv
<1>1. <<>> \in Seq(Segment) /\ <<>> \in Seq(Octet)
  OBVIOUS
<1>2. TypeOK
  BY <1>1, TcpBounds DEF Init, TypeOK
<1>. QED
  BY <1>2 DEF Init, IInv, Standing, Open

LEMMA NextIInv ==
  ASSUME IInv, [Next]_vars
  PROVE  IInv'
<1>1. CASE Next
  BY <1>1, StepKeeps DEF IInv, Collected
<1>2. CASE UNCHANGED vars
  BY <1>2 DEF IInv, TypeOK, Standing, Open, vars
<1>. QED
  BY <1>1, <1>2

LEMMA Invariant == Spec => []IInv
BY InitIInv, NextIInv, PTL DEF Spec

\* Whatever arrives, in whatever order and however often, every field of both
\* connections and every segment stays within its type.
THEOREM Typed == Spec => []TypeOK
<1>1. IInv => TypeOK
  BY DEF IInv
<1>. QED
  BY Invariant, <1>1, PTL

\* Whatever a connection waits for, a timer brings the wait to an end.
THEOREM NeverStuck == Spec => []TimerRuns
<1>1. IInv => TimerRuns
  BY DEF IInv, TimerRuns, Standing, Kept, Over
<1>. QED
  BY Invariant, <1>1, PTL

\* No step of a connection that both ends know moves the right edge of its
\* window to the left.
THEOREM WindowStands == Spec => WindowNeverTakenBack
<1>1. ASSUME IInv, Next
      PROVE  \A e \in Ends :
               Open(e) /\ (Open(e))' /\ table[e].state \notin {"SynSent", "Listen"} =>
                 ~Before((Edge(table[e]))', Edge(table[e]))
  <2>. SUFFICES ASSUME NEW e \in Ends, Open(e), (Open(e))', table[e].state \notin {"SynSent", "Listen"}
                PROVE  ~Before((Edge(table[e]))', Edge(table[e]))
    OBVIOUS
  <2>1. Onward(table[e], table'[e], Buffer + 1)
    BY <1>1, StepKeeps DEF Collected, Went
  <2>2. table[e] \in Connection
    BY <1>1, OpenFit
  <2>3. ~Before(Edge(table'[e]), Edge(table[e]))
    BY <2>1, <2>2, NotTakenBack
  <2>. QED
    BY <2>3 DEF Edge
<1>. QED
  BY Invariant, <1>1, PTL DEF Spec, WindowNeverTakenBack

=============================================================================
