----------------------------- MODULE LapmProofs -----------------------------
(***************************************************************************)
(* What holds of the LAPM entities of Lapm for every Modulus, K, N400 and  *)
(* environment: their types, and the inductive invariant IInv behind       *)
(* WindowInv and NoSilentWait.                                             *)
(***************************************************************************)
EXTENDS Lapm, SequenceTheorems, FiniteSetTheorems, TLAPS

-----------------------------------------------------------------------------
(* Arithmetic modulo Modulus, frames and events.                           *)

\* Plus stays in range, for a step of at most one turn.
LEMMA PlusType ==
  ASSUME NEW n \in SeqNo, NEW i \in 0 .. Modulus
  PROVE  Plus(n, i) \in SeqNo
BY LapmParams DEF Plus, SeqNo

\* Ahead is a distance of less than one turn.
LEMMA AheadType ==
  ASSUME NEW from \in SeqNo, NEW to \in SeqNo
  PROVE  Ahead(from, to) \in 0 .. Modulus - 1
BY LapmParams DEF Ahead, SeqNo

\* A point on the way divides the distance.
LEMMA AheadSplit ==
  ASSUME NEW a \in SeqNo, NEW b \in SeqNo, NEW c \in SeqNo, Ahead(a, b) <= Ahead(a, c)
  PROVE  Ahead(b, c) = Ahead(a, c) - Ahead(a, b)
BY LapmParams DEF Ahead, SeqNo

\* Going on from b is going on from a past b.
LEMMA PlusShift ==
  ASSUME NEW a \in SeqNo, NEW b \in SeqNo, NEW j \in Nat, Ahead(a, b) + j < Modulus
  PROVE  Plus(a, Ahead(a, b) + j) = Plus(b, j)
BY LapmParams DEF Ahead, Plus, SeqNo

\* A step on from b lengthens the distance from a by as much.
LEMMA AheadPlus ==
  ASSUME NEW a \in SeqNo, NEW b \in SeqNo, NEW j \in Nat, Ahead(a, b) + j < Modulus
  PROVE  Ahead(a, Plus(b, j)) = Ahead(a, b) + j
BY LapmParams DEF Ahead, Plus, SeqNo

\* Every frame an entity builds is a frame.
LEMMA FrameTypes ==
  /\ \A ns \in SeqNo, nr \in SeqNo, info \in Info : I(ns, nr, info) \in Frame
  /\ \A nr \in SeqNo, pf \in BOOLEAN, kind \in {"Command", "Response"} :
       RR(nr, pf, kind) \in Frame
  /\ \A nr \in SeqNo : REJ(nr) \in Frame /\ SREJ(nr) \in Frame
  /\ \A type \in SetMode, pf \in BOOLEAN : Unnumbered(type, pf) \in Frame
BY DEF Frame, I, RR, REJ, SREJ, Unnumbered, SetMode

\* Every event an entity reports is an event.
LEMMA EventTypes ==
  /\ Report("Connected") \in Event /\ Report("Reset") \in Event
  /\ \A cause \in Cause : Released(cause) \in Event
  /\ \A info \in Info : DataEvent(info) \in Event
BY DEF Event, Report, Released, DataEvent

-----------------------------------------------------------------------------
(* Each method keeps an entity an entity.                                  *)

\* The fields of an entity.
LEMMA EntityFields ==
  ASSUME NEW l \in Entity
  PROVE  /\ l.state \in State /\ l.vs \in SeqNo /\ l.va \in SeqNo /\ l.vr \in SeqNo
         /\ l.pending \in Seq(Info) /\ l.unacked \in Seq(Unacked)
         /\ l.out \in Seq(Frame) /\ l.events \in Seq(Event)
         /\ l.held \in [SeqNo -> Info \cup {Nothing}]
         /\ l.retries \in Nat
         /\ l.peer_busy \in BOOLEAN /\ l.reject_sent \in BOOLEAN
         /\ l.ack_pending \in BOOLEAN /\ l.timer_recovery \in BOOLEAN
         /\ l.timer \in BOOLEAN
BY DEF Entity

\* The values the resets assign.
LEMMA Constants ==
  /\ 0 \in SeqNo /\ NoneHeld \in [SeqNo -> Info \cup {Nothing}]
  /\ <<>> \in Seq(Unacked) /\ <<>> \in Seq(Info)
  /\ <<>> \in Seq(Frame) /\ <<>> \in Seq(Event)
BY LapmParams DEF NoneHeld, SeqNo, Nothing

\* Lapm::new builds an entity.
LEMMA NewEntityType == NewEntity \in Entity
BY Constants DEF NewEntity, Entity, State

\* send() appends to "out" and to nothing else.
LEMMA SendType ==
  ASSUME NEW l \in Entity, NEW frame \in Frame
  PROVE  Send(l, frame) \in Entity
<1>1. Append(l.out, frame) \in Seq(Frame) BY EntityFields, AppendProperties
<1>2. QED BY <1>1 DEF Send, Entity

\* events.push_back.
LEMMA TellType ==
  ASSUME NEW l \in Entity, NEW event \in Event
  PROVE  Tell(l, event) \in Entity
<1>1. Append(l.events, event) \in Seq(Event) BY EntityFields, AppendProperties
<1>2. QED BY <1>1 DEF Tell, Entity

\* start_timer and stop_timer.
LEMMA TimerType ==
  ASSUME NEW l \in Entity
  PROVE  StartTimer(l) \in Entity /\ StopTimer(l) \in Entity
BY DEF StartTimer, StopTimer, Entity

\* reset_variables.
LEMMA ResetVariablesType ==
  ASSUME NEW l \in Entity
  PROVE  ResetVariables(l) \in Entity
BY Constants DEF ResetVariables, Entity

\* enter_disconnected.
LEMMA EnterDisconnectedType ==
  ASSUME NEW l \in Entity, NEW cause \in Cause
  PROVE  EnterDisconnected(l, cause) \in Entity
<1> DEFINE m == [StopTimer(l) EXCEPT !.state = "Disconnected",
                            !.pending = <<>>, !.unacked = <<>>]
<1>1. StopTimer(l) \in Entity BY TimerType
<1>2. m \in Entity BY <1>1, Constants DEF Entity, State
<1>3. QED BY <1>2, TellType, EventTypes DEF EnterDisconnected

\* establish.
LEMMA EstablishType ==
  ASSUME NEW l \in Entity
  PROVE  Establish(l) \in Entity
<1> DEFINE m == [StopTimer(l) EXCEPT !.vs = 0, !.va = 0, !.vr = 0, !.state = "Connected"]
<1>1. StopTimer(l) \in Entity BY TimerType
<1>2. m \in Entity BY <1>1, Constants DEF Entity, State
<1>3. QED BY <1>2, TellType, EventTypes DEF Establish

\* acknowledge: V(A) becomes N(R), the buffer loses its head.
LEMMA AcknowledgeType ==
  ASSUME NEW l \in Entity, NEW nr \in SeqNo
  PROVE  Acknowledge(l, nr) \in Entity
<1> DEFINE tail == SubSeq(l.unacked, Ahead(l.va, nr) + 1, Len(l.unacked))
           retired == [l EXCEPT !.va = nr, !.unacked = tail]
<1>1. tail \in Seq(Unacked)
  BY EntityFields, AheadType, LapmParams, SubSeqProperties, LenProperties
<1>2. retired \in Entity BY <1>1 DEF Entity
<1>3. [StopTimer(retired) EXCEPT !.retries = 0] \in Entity
  <2>1. StopTimer(retired) \in Entity BY <1>2, TimerType
  <2>2. QED BY <2>1 DEF Entity
<1>4. StartTimer(retired) \in Entity BY <1>2, TimerType
<1>5. QED BY <1>3, <1>4 DEF Acknowledge


\* What pump is about to send: no more than the window takes, each typed.
LEMMA FreshFrames ==
  ASSUME NEW l \in Entity
  PROVE  LET n == Allowed(l)
             fresh == [i \in 1 .. n |-> [ns |-> Plus(l.vs, i - 1), info |-> l.pending[i]]]
         IN  /\ n \in 0 .. K /\ n <= Len(l.pending) /\ n \in Nat
             /\ fresh \in Seq(Unacked)
             /\ \A i \in 1 .. n : fresh[i] \in Unacked
<1> DEFINE n == Allowed(l)
           entry(i) == [ns |-> Plus(l.vs, i - 1), info |-> l.pending[i]]
           fresh == [i \in 1 .. n |-> entry(i)]
<1>1. n \in 0 .. K /\ n <= Len(l.pending) /\ n \in Nat
  BY EntityFields, AheadType, LapmParams, LenProperties
  DEF Allowed, Least, Outstanding
<1>2. \A i \in 1 .. n : entry(i) \in Unacked
  <2>1. TAKE i \in 1 .. n
  <2>2. l.pending[i] \in Info BY <1>1, EntityFields, ElementOfSeq
  <2>3. Plus(l.vs, i - 1) \in SeqNo BY <1>1, EntityFields, PlusType, LapmParams
  <2>4. QED BY <2>2, <2>3 DEF Unacked
<1>3. fresh \in Seq(Unacked) /\ \A i \in 1 .. n : fresh[i] \in Unacked
  <2> HIDE DEF entry
  <2> QED BY <1>1, <1>2, IsASeq
<1>4. QED BY <1>1, <1>3

\* The loop of pump.
LEMMA SendWindowType ==
  ASSUME NEW l \in Entity
  PROVE  SendWindow(l) \in Entity
<1> DEFINE n == Allowed(l)
           fresh == [i \in 1 .. n |-> [ns |-> Plus(l.vs, i - 1), info |-> l.pending[i]]]
           copy(i) == I(fresh[i].ns, l.vr, fresh[i].info)
           sent == [i \in 1 .. n |-> copy(i)]
<1>1. n \in 0 .. K /\ n <= Len(l.pending) /\ n \in Nat BY FreshFrames
<1>3. fresh \in Seq(Unacked) /\ \A i \in 1 .. n : fresh[i] \in Unacked
  BY FreshFrames
<1>4. sent \in Seq(Frame)
  <2>1. \A i \in 1 .. n : copy(i) \in Frame
    <3> HIDE DEF fresh, n
    <3> QED BY <1>3, FrameTypes, EntityFields DEF Unacked
  <2> HIDE DEF copy
  <2>2. QED BY <2>1, <1>1, IsASeq
<1>5. /\ SubSeq(l.pending, n + 1, Len(l.pending)) \in Seq(Info)
      /\ l.unacked \o fresh \in Seq(Unacked)
      /\ Plus(l.vs, n) \in SeqNo
      /\ l.out \o sent \in Seq(Frame)
  <2> HIDE DEF n, fresh, sent
  <2>1. SubSeq(l.pending, n + 1, Len(l.pending)) \in Seq(Info)
    <3>1. l.pending \in Seq(Info) /\ Len(l.pending) \in Nat
      BY EntityFields, LenProperties
    <3>2. n + 1 \in 1 .. Len(l.pending) + 1 BY <1>1, <3>1
    <3>3. QED BY <3>1, <3>2, SubSeqProperties
  <2>2. l.unacked \o fresh \in Seq(Unacked) BY <1>3, EntityFields, ConcatProperties
  <2>3. Plus(l.vs, n) \in SeqNo
    <3>1. n \in 0 .. Modulus BY <1>1, LapmParams
    <3>2. QED BY <3>1, EntityFields, PlusType
  <2>4. l.out \o sent \in Seq(Frame) BY <1>4, EntityFields, ConcatProperties
  <2>5. QED BY <2>1, <2>2, <2>3, <2>4
<1> DEFINE m == [l EXCEPT !.pending = SubSeq(@, n + 1, Len(@)),
                          !.unacked = @ \o fresh, !.vs = Plus(@, n),
                          !.out = @ \o sent, !.ack_pending = FALSE]
<1>6. m \in Entity
  <2> HIDE DEF n, fresh, sent
  <2> QED BY <1>5 DEF Entity
<1>7. QED BY <1>6, TimerType DEF SendWindow

\* retransmit_from builds its copies from the buffer.
LEMMA RetransmitFromType ==
  ASSUME NEW l \in Entity, NEW nr \in SeqNo
  PROVE  RetransmitFrom(l, nr) \in Entity
<1> DEFINE again == SubSeq(l.unacked, Ahead(l.va, nr) + 1, Len(l.unacked))
           copy(i) == I(again[i].ns, l.vr, again[i].info)
           copies == [i \in 1 .. Len(again) |-> copy(i)]
<1>1. again \in Seq(Unacked)
  BY EntityFields, AheadType, LapmParams, SubSeqProperties, LenProperties
<1>2. copies \in Seq(Frame)
  <2> HIDE DEF again
  <2>1. Len(again) \in Nat BY <1>1, LenProperties
  <2>2. \A i \in 1 .. Len(again) : copy(i) \in Frame
    <3>1. TAKE i \in 1 .. Len(again)
    <3>2. again[i] \in Unacked BY <1>1, ElementOfSeq
    <3>3. again[i].ns \in SeqNo /\ again[i].info \in Info BY <3>2 DEF Unacked
    <3>4. QED BY <3>3, FrameTypes, EntityFields
  <2> HIDE DEF copy
  <2>3. QED BY <2>1, <2>2, IsASeq
<1>3. [l EXCEPT !.out = @ \o copies, !.ack_pending = FALSE] \in Entity
  <2>1. l.out \o copies \in Seq(Frame) BY <1>2, EntityFields, ConcatProperties
  <2> HIDE DEF copies
  <2>2. QED BY <2>1 DEF Entity
<1>4. QED BY <1>3, TimerType DEF RetransmitFrom

\* The run that "held" frees is at most one turn, and every slot of it is full.
LEMMA HeldRunBound ==
  ASSUME NEW held \in [SeqNo -> Info \cup {Nothing}], NEW n \in SeqNo
  PROVE  /\ HeldRun(held, n) \in 0 .. Modulus
         /\ \A k \in 0 .. Modulus - 1 : k < HeldRun(held, n) => held[Plus(n, k)] \in Info
<1> DEFINE S == {i \in 0 .. Modulus - 1 : \A j \in 0 .. i : held[Plus(n, j)] # Nothing}
<1>1. IsFiniteSet(0 .. Modulus - 1) /\ Cardinality(0 .. Modulus - 1) = Modulus
  BY FS_Interval, LapmParams
<1>2. IsFiniteSet(S) /\ Cardinality(S) \in Nat /\ Cardinality(S) <= Modulus
  BY <1>1, FS_Subset, FS_CardinalityType
<1>3. ASSUME NEW k \in 0 .. Modulus - 1, k < Cardinality(S)
      PROVE  k \in S
  <2>1. SUFFICES ASSUME k \notin S PROVE FALSE OBVIOUS
  <2>2. S \subseteq 0 .. k - 1 BY <2>1, LapmParams
  <2>3. IsFiniteSet(0 .. k - 1) /\ Cardinality(0 .. k - 1) = k
    BY FS_Interval, LapmParams
  <2>4. Cardinality(S) <= k BY <2>2, <2>3, FS_Subset
  <2>5. QED BY <2>4, <1>3, <1>2
<1>4. \A k \in S : held[Plus(n, k)] \in Info
  BY PlusType, LapmParams DEF Nothing, Info
<1>5. QED BY <1>2, <1>3, <1>4, LapmParams DEF HeldRun

\* What a frame of each type carries.
LEMMA FrameFields ==
  ASSUME NEW frame \in Frame
  PROVE  /\ frame.type \in {"I", "RR", "REJ"} =>
              frame.nr \in SeqNo /\ frame.pf \in BOOLEAN
         /\ frame.type = "SREJ" => frame.nr \in SeqNo
         /\ frame.type = "I" => frame.ns \in SeqNo /\ frame.info \in Info
         /\ frame.type \in SetMode => frame.pf \in BOOLEAN
BY DEF Frame, SetMode

\* connect.
LEMMA ConnectType ==
  ASSUME NEW l \in Entity
  PROVE  Connect(l) \in Entity
<1> DEFINE m == [ResetVariables(l) EXCEPT !.state = "AwaitingEstablishment", !.retries = 0]
<1>1. ResetVariables(l) \in Entity BY ResetVariablesType
<1>2. m \in Entity BY <1>1 DEF Entity, State
<1>3. Unnumbered("SABME", TRUE) \in Frame BY FrameTypes DEF SetMode
<1>4. QED BY <1>2, <1>3, SendType, TimerType DEF Connect

\* disconnect.
LEMMA DisconnectType ==
  ASSUME NEW l \in Entity
  PROVE  Disconnect(l) \in Entity
<1> DEFINE m == [l EXCEPT !.pending = <<>>, !.unacked = <<>>,
                          !.state = "AwaitingRelease", !.retries = 0]
<1>1. m \in Entity BY Constants DEF Entity, State
<1>2. Unnumbered("DISC", TRUE) \in Frame BY FrameTypes DEF SetMode
<1>3. QED BY <1>1, <1>2, SendType, TimerType DEF Disconnect

\* send_data.
LEMMA SendDataType ==
  ASSUME NEW l \in Entity, NEW info \in Info
  PROVE  SendData(l, info) \in Entity
<1>1. Append(l.pending, info) \in Seq(Info) BY EntityFields, AppendProperties
<1>2. QED BY <1>1 DEF SendData, Entity

\* Sending a frame that carries V(R) settles the acknowledgement due.
LEMMA SendAnswerType ==
  ASSUME NEW l \in Entity, NEW frame \in Frame
  PROVE  [Send(l, frame) EXCEPT !.ack_pending = FALSE] \in Entity
<1>1. Send(l, frame) \in Entity BY SendType
<1>2. QED BY <1>1 DEF Entity

\* answer_poll.
LEMMA AnswerPollType ==
  ASSUME NEW l \in Entity, NEW frame
  PROVE  AnswerPoll(l, frame) \in Entity
<1>1. RR(l.vr, TRUE, "Response") \in Frame BY FrameTypes, EntityFields
<1>2. QED BY <1>1, SendAnswerType DEF AnswerPoll

\* resolve_timer_recovery.
LEMMA ResolveTimerRecoveryType ==
  ASSUME NEW l \in Entity, NEW frame
  PROVE  ResolveTimerRecovery(l, frame) \in Entity
<1> DEFINE m == [l EXCEPT !.timer_recovery = FALSE, !.retries = 0]
<1>1. m \in Entity BY DEF Entity
<1>2. QED BY <1>1, EntityFields, RetransmitFromType DEF ResolveTimerRecovery

\* deliver: V(R), the events and what is still held.
LEMMA DeliverType ==
  ASSUME NEW l \in Entity, NEW info \in Info
  PROVE  Deliver(l, info) \in Entity
<1> DEFINE next == Plus(l.vr, 1)
           run  == HeldRun(l.held, next)
           freed(n) == Ahead(next, n) < run
           event(i) == DataEvent(l.held[Plus(next, i - 1)])
           more == [i \in 1 .. run |-> event(i)]
           left == [n \in SeqNo |-> IF freed(n) THEN Nothing ELSE l.held[n]]
<1>1. next \in SeqNo BY EntityFields, PlusType, LapmParams
<1>2. run \in 0 .. Modulus /\ run \in Nat
  <2>1. l.held \in [SeqNo -> Info \cup {Nothing}] BY EntityFields
  <2> HIDE DEF next
  <2>2. run \in 0 .. Modulus BY <1>1, <2>1, HeldRunBound
  <2>3. QED BY <2>2, LapmParams
<1>3. Plus(next, run) \in SeqNo BY <1>1, <1>2, PlusType
<1>4. more \in Seq(Event)
  <2>1. \A i \in 1 .. run : event(i) \in Event
    <3>1. TAKE i \in 1 .. run
    <3>2. i - 1 \in 0 .. Modulus - 1 /\ i - 1 < run BY <1>2, LapmParams
    <3> HIDE DEF next, run
    <3>3. l.held[Plus(next, i - 1)] \in Info
      BY <1>1, <3>2, EntityFields, HeldRunBound DEF run
    <3>4. QED BY <3>3, EventTypes
  <2> HIDE DEF event, run
  <2>2. QED BY <2>1, <1>2, IsASeq
<1>5. Append(l.events, DataEvent(info)) \o more \in Seq(Event)
  <2>1. DataEvent(info) \in Event BY EventTypes
  <2> HIDE DEF more
  <2>2. QED BY <2>1, <1>4, EntityFields, AppendProperties, ConcatProperties
<1>6. left \in [SeqNo -> Info \cup {Nothing}]
  <2> HIDE DEF freed
  <2> QED BY EntityFields
<1>7. QED
  <2> DEFINE m == [l EXCEPT !.vr = Plus(next, run), !.reject_sent = FALSE,
                            !.ack_pending = TRUE,
                            !.events = Append(@, DataEvent(info)) \o more,
                            !.held = left]
  <2>1. m \in Entity
    <3> HIDE DEF next, run, more, left
    <3> QED BY <1>3, <1>5, <1>6 DEF Entity
  <2>2. QED BY <2>1 DEF Deliver

\* The branches of on_i on N(S).
LEMMA TakeIType ==
  ASSUME NEW l \in Entity, NEW frame \in Frame, frame.type = "I"
  PROVE  TakeI(l, frame) \in Entity
<1>1. frame.ns \in SeqNo /\ frame.info \in Info BY FrameFields
<1>2. Hold(l, frame) \in Entity
  <2>1. [l.held EXCEPT ![frame.ns] = frame.info] \in [SeqNo -> Info \cup {Nothing}]
    BY <1>1, EntityFields
  <2>2. QED BY <2>1 DEF Hold, Entity
<1>3. \A m \in Entity, f \in Frame : RejectOnce(m, f) \in Entity
  <2>1. TAKE m \in Entity, f \in Frame
  <2>2. Send(m, f) \in Entity BY SendType
  <2>3. [Send(m, f) EXCEPT !.reject_sent = TRUE] \in Entity BY <2>2 DEF Entity
  <2>4. QED BY <2>3 DEF RejectOnce
<1>4. SREJ(l.vr) \in Frame /\ REJ(l.vr) \in Frame BY FrameTypes, EntityFields
<1>5. QED BY <1>1, <1>2, <1>3, <1>4, DeliverType DEF TakeI

\* on_i.
LEMMA OnIType ==
  ASSUME NEW l \in Entity, NEW frame \in Frame, frame.type = "I"
  PROVE  OnI(l, frame) \in Entity
<1> DEFINE taken == TakeI(Acknowledge(l, frame.nr), frame)
<1>1. taken \in Entity BY FrameFields, AcknowledgeType, TakeIType
<1>2. RR(taken.vr, TRUE, "Response") \in Frame
  <2> HIDE DEF taken
  <2> QED BY <1>1, FrameTypes, EntityFields
<1>3. QED BY <1>1, <1>2, SendAnswerType DEF OnI

\* peer_busy cleared.
LEMMA NotBusyType ==
  ASSUME NEW l \in Entity
  PROVE  [l EXCEPT !.peer_busy = FALSE] \in Entity
BY DEF Entity

\* on_rr.
LEMMA OnRrType ==
  ASSUME NEW l \in Entity, NEW frame \in Frame, frame.type = "RR"
  PROVE  OnRr(l, frame) \in Entity
BY FrameFields, NotBusyType, AcknowledgeType, ResolveTimerRecoveryType,
   AnswerPollType DEF OnRr

\* on_rej.
LEMMA OnRejType ==
  ASSUME NEW l \in Entity, NEW frame \in Frame, frame.type = "REJ"
  PROVE  OnRej(l, frame) \in Entity
BY FrameFields, NotBusyType, AcknowledgeType, RetransmitFromType,
   AnswerPollType DEF OnRej

\* on_srej.
LEMMA OnSrejType ==
  ASSUME NEW l \in Entity, NEW frame \in Frame, frame.type = "SREJ"
  PROVE  OnSrej(l, frame) \in Entity
<1> DEFINE ready == [l EXCEPT !.peer_busy = FALSE]
           asked == {i \in 1 .. Len(l.unacked) : l.unacked[i].ns = frame.nr}
           again == l.unacked[CHOOSE i \in asked : TRUE]
<1>1. ready \in Entity BY NotBusyType
<1>2. asked # {} => I(again.ns, l.vr, again.info) \in Frame
  <2>1. SUFFICES ASSUME asked # {} PROVE I(again.ns, l.vr, again.info) \in Frame
    OBVIOUS
  <2>2. again \in Unacked BY <2>1, EntityFields, ElementOfSeq
  <2> HIDE DEF again
  <2>3. again.ns \in SeqNo /\ again.info \in Info BY <2>2 DEF Unacked
  <2>4. QED BY <2>3, FrameTypes, EntityFields
<1>3. QED BY <1>1, <1>2, SendAnswerType, TimerType DEF OnSrej

\* on_sabme.
LEMMA OnSabmeType ==
  ASSUME NEW l \in Entity, NEW frame \in Frame, frame.type = "SABME"
  PROVE  OnSabme(l, frame) \in Entity
<1> DEFINE said == Send(ResetVariables(l), Unnumbered("UA", frame.pf))
           up == [said EXCEPT !.state = "Connected"]
<1>1. Unnumbered("UA", frame.pf) \in Frame BY FrameFields, FrameTypes DEF SetMode
<1>2. said \in Entity BY <1>1, ResetVariablesType, SendType
<1>3. up \in Entity
  <2> HIDE DEF said
  <2> QED BY <1>2 DEF Entity, State
<1>4. QED BY <1>3, TimerType, TellType, EventTypes DEF OnSabme

\* on_disc.
LEMMA OnDiscType ==
  ASSUME NEW l \in Entity, NEW frame \in Frame, frame.type = "DISC"
  PROVE  OnDisc(l, frame) \in Entity
<1>1. /\ Unnumbered("UA", frame.pf) \in Frame
      /\ Unnumbered("DM", frame.pf) \in Frame
  BY FrameFields, FrameTypes DEF SetMode
<1>2. QED BY <1>1, SendType, EnterDisconnectedType DEF OnDisc, Cause

\* on_ua.
LEMMA OnUaType ==
  ASSUME NEW l \in Entity, NEW frame
  PROVE  OnUa(l, frame) \in Entity
BY EstablishType, EnterDisconnectedType DEF OnUa, Cause

\* on_dm.
LEMMA OnDmType ==
  ASSUME NEW l \in Entity, NEW frame
  PROVE  OnDm(l, frame) \in Entity
BY EnterDisconnectedType DEF OnDm, Cause

\* pump.
LEMMA PumpType ==
  ASSUME NEW l \in Entity
  PROVE  Pump(l) \in Entity
<1>1. SendWindow(l) \in Entity BY SendWindowType
<1>2. ASSUME NEW m \in Entity PROVE SendAck(m) \in Entity
  <2>1. RR(m.vr, FALSE, "Response") \in Frame BY FrameTypes, EntityFields
  <2>2. QED BY <2>1, SendAnswerType DEF SendAck
<1>3. QED BY <1>1, <1>2 DEF Pump

\* The branches of tick when T401 has run out.
LEMMA ExpiryType ==
  ASSUME NEW l \in Entity
  PROVE  /\ Expired(l) \in Entity /\ Fail(l) \in Entity
         /\ ResendSabme(l) \in Entity /\ ResendDisc(l) \in Entity
         /\ PollPeer(l) \in Entity
<1>1. Expired(l) \in Entity
  <2>1. StopTimer(l) \in Entity BY TimerType
  <2>2. StopTimer(l).retries + 1 \in Nat BY <2>1, EntityFields
  <2>3. QED BY <2>1, <2>2 DEF Expired, Entity
<1>2. Fail(l) \in Entity BY EnterDisconnectedType DEF Fail, Cause
<1>3. ResendSabme(l) \in Entity /\ ResendDisc(l) \in Entity
  BY FrameTypes, SendType, TimerType DEF ResendSabme, ResendDisc, SetMode
<1>4. PollPeer(l) \in Entity
  <2>1. [l EXCEPT !.timer_recovery = TRUE] \in Entity BY DEF Entity
  <2>2. RR(l.vr, TRUE, "Command") \in Frame BY FrameTypes, EntityFields
  <2>3. QED BY <2>1, <2>2, SendAnswerType, TimerType DEF PollPeer
<1>5. QED BY <1>1, <1>2, <1>3, <1>4

-----------------------------------------------------------------------------
(* The system keeps its types.                                             *)

\* What TypeOK says of one end and of the frame about to reach it.
LEMMA WireFields ==
  ASSUME TypeOK, NEW e \in Ends
  PROVE  /\ Peer(e) \in Ends /\ ent[e] \in Entity /\ wire[e] \in Seq(Frame)
         /\ wire[Peer(e)] # <<>> =>
              Arriving(e) \in Frame /\ Tail(wire[Peer(e)]) \in Seq(Frame)
BY HeadTailProperties DEF TypeOK, Ends, Peer, Arriving

\* The entity as a numbered frame meets it.
LEMMA NowOpenType ==
  ASSUME TypeOK, NEW e \in Ends
  PROVE  NowOpen(e) \in Entity
BY WireFields, EstablishType DEF NowOpen, StandInForUa

\* Hearing one frame keeps the types, if the new entity is one.
LEMMA HeardType ==
  ASSUME TypeOK, NEW e \in Ends, NEW l \in Entity,
         wire[Peer(e)] # <<>>, undecodable' \in [Ends -> Nat], Heard(e, l)
  PROVE  TypeOK'
<1>1. Tail(wire[Peer(e)]) \in Seq(Frame) BY WireFields
<1>2. QED BY <1>1 DEF TypeOK, Heard, environment

\* receive keeps the types, whatever arrives.
LEMMA ReceiveType ==
  ASSUME TypeOK, NEW e \in Ends, Receive(e)
  PROVE  TypeOK'
<1> DEFINE frame == Arriving(e)
<1>1. wire[Peer(e)] # <<>>
  BY DEF Receive, RecvSabme, RecvDisc, RecvUa, RecvDm, RecvRr, RecvRej, RecvSrej,
         RecvI, Undecodable, Discard, Arrives
<1>2. frame \in Frame /\ ent[e] \in Entity /\ NowOpen(e) \in Entity
  BY <1>1, WireFields, NowOpenType
<1>3. undecodable \in [Ends -> Nat] BY DEF TypeOK
<1>4. ASSUME NEW l \in Entity, Heard(e, l), UNCHANGED undecodable
      PROVE  TypeOK'
  BY <1>1, <1>3, <1>4, HeardType
<1>5. CASE RecvSabme(e)
  BY <1>2, <1>4, <1>5, OnSabmeType DEF RecvSabme, Arrives, Arriving
<1>6. CASE RecvDisc(e)
  BY <1>2, <1>4, <1>6, OnDiscType DEF RecvDisc, Arrives, Arriving
<1>7. CASE RecvUa(e)
  BY <1>2, <1>4, <1>7, OnUaType DEF RecvUa
<1>8. CASE RecvDm(e)
  BY <1>2, <1>4, <1>8, OnDmType DEF RecvDm
<1>9. CASE RecvRr(e)
  BY <1>2, <1>4, <1>9, OnRrType DEF RecvRr, Arrives, Arriving
<1>10. CASE RecvRej(e)
  BY <1>2, <1>4, <1>10, OnRejType DEF RecvRej, Arrives, Arriving
<1>11. CASE RecvSrej(e)
  BY <1>2, <1>4, <1>11, OnSrejType DEF RecvSrej, Arrives, Arriving
<1>12. CASE RecvI(e)
  BY <1>2, <1>4, <1>12, OnIType DEF RecvI, Arrives, Arriving
<1>13. CASE Undecodable(e)
  <2> DEFINE took == OnI(NowOpen(e), frame)
  <2>1. took \in Entity BY <1>2, <1>13, OnIType DEF Undecodable, Arrives, Arriving
  <2>2. Connect(took) \in Entity /\ Disconnect(took) \in Entity
    BY <2>1, ConnectType, DisconnectType
  <2>3. undecodable' \in [Ends -> Nat] BY <1>3, <1>13 DEF Undecodable
  <2>4. QED BY <1>1, <1>13, <2>2, <2>3, HeardType DEF Undecodable
<1>14. CASE Discard(e)
  BY <1>2, <1>4, <1>14 DEF Discard
<1>15. QED
  BY <1>5, <1>6, <1>7, <1>8, <1>9, <1>10, <1>11, <1>12, <1>13, <1>14 DEF Receive

\* tick keeps the types.
LEMMA ExpireType ==
  ASSUME TypeOK, NEW e \in Ends, Expire(e)
  PROVE  TypeOK'
<1>1. Expired(ent[e]) \in Entity BY WireFields, ExpiryType
<1>2. \E l \in Entity : Expires(e, l)
  BY <1>1, ExpiryType DEF Expire, GiveUp, AskAgain, ReleaseAgain, Poll
<1>3. PICK l \in Entity : Expires(e, l) BY <1>2
<1>4. early' \in Nat BY <1>3 DEF Expires, Due, TypeOK
<1>5. QED BY <1>3, <1>4 DEF Expires, TypeOK

\* The call starts typed.
LEMMA InitType == Init => TypeOK
<1>1. SUFFICES ASSUME Init PROVE TypeOK OBVIOUS
<1>2. ent \in [Ends -> Entity] BY <1>1, NewEntityType DEF Init
<1>3. wire \in [Ends -> Seq(Frame)] BY <1>1 DEF Init
<1>4. QED BY <1>1, <1>2, <1>3 DEF Init, TypeOK

\* Every step keeps the types.
LEMMA StepType == TypeOK /\ [Next]_vars => TypeOK'
<1>1. SUFFICES ASSUME TypeOK, [Next]_vars PROVE TypeOK' OBVIOUS
<1>2. CASE BeginProtocol
  <2>1. "Originator" \in Ends BY DEF Ends
  <2>2. Connect(ent["Originator"]) \in Entity BY <1>1, <2>1, WireFields, ConnectType
  <2>3. QED BY <1>1, <1>2, <2>1, <2>2 DEF BeginProtocol, TypeOK, environment
<1>3. ASSUME NEW e \in Ends, UserSends(e) PROVE TypeOK'
  <2>1. accepted[e] + 1 \in Info BY <1>1 DEF TypeOK, Info
  <2>2. SendData(ent[e], accepted[e] + 1) \in Entity
    BY <1>1, <2>1, WireFields, SendDataType
  <2>3. QED BY <1>1, <1>3, <2>1, <2>2 DEF UserSends, TypeOK, environment, Info
<1>4. ASSUME NEW e \in Ends, UserReleases(e) PROVE TypeOK'
  <2>1. Disconnect(ent[e]) \in Entity BY <1>1, WireFields, DisconnectType
  <2>2. QED BY <1>1, <1>4, <2>1 DEF UserReleases, TypeOK
<1>5. ASSUME NEW e \in Ends, Transmit(e) PROVE TypeOK'
  <2> DEFINE pumped == Pump(ent[e])
             sent == [pumped EXCEPT !.out = <<>>]
  <2>1. pumped \in Entity BY <1>1, WireFields, PumpType
  <2> HIDE DEF pumped
  <2>2. wire[e] \o pumped.out \in Seq(Frame)
    BY <1>1, <2>1, WireFields, EntityFields, ConcatProperties
  <2>3. sent \in Entity BY <2>1, Constants DEF Entity
  <2>4. /\ wire' = [wire EXCEPT ![e] = @ \o pumped.out]
        /\ ent' = [ent EXCEPT ![e] = sent]
        /\ UNCHANGED <<begun, accepted, undecodable, environment>>
    BY <1>5 DEF Transmit, pumped
  <2> HIDE DEF sent
  <2>5. QED BY <1>1, <2>2, <2>3, <2>4 DEF TypeOK, environment
<1>6. ASSUME NEW e \in Ends, Lose(e) PROVE TypeOK'
  <2>1. Tail(wire[e]) \in Seq(Frame)
    BY <1>1, <1>6, WireFields, HeadTailProperties DEF Lose
  <2>2. QED BY <1>1, <1>6, <2>1 DEF Lose, TypeOK
<1>7. CASE UNCHANGED vars BY <1>1, <1>7 DEF vars, TypeOK, environment
<1>8. QED
  BY <1>1, <1>2, <1>3, <1>4, <1>5, <1>6, <1>7, ReceiveType, ExpireType DEF Next

\* Every state the two entities, the line and the users can reach is typed.
THEOREM Typed == Spec => []TypeOK
BY InitType, StepType, PTL DEF Spec

-----------------------------------------------------------------------------
(* The window and the timer of one end.                                    *)

Timed(l) == Waiting(l) => l.timer

Sound(l) == WindowOf(l) /\ Timed(l)

\* A step that leaves the state, V(A), V(S) and the buffer alone and does not
\* stop the timer keeps both.
LEMMA Kept ==
  ASSUME NEW l, NEW m, Sound(l),
         m.state = l.state, m.va = l.va, m.vs = l.vs, m.unacked = l.unacked,
         l.timer => m.timer
  PROVE  Sound(m)
BY DEF Sound, WindowOf, Timed, Waiting

\* Queueing a frame touches neither the window nor the timer.
LEMMA SendSound ==
  ASSUME NEW l \in Entity, NEW frame \in Frame, Sound(l)
  PROVE  Sound(Send(l, frame)) /\ Sound([Send(l, frame) EXCEPT !.ack_pending = FALSE])
<1> DEFINE m == Send(l, frame)
           k == [m EXCEPT !.ack_pending = FALSE]
<1>1. /\ m.state = l.state /\ m.va = l.va /\ m.vs = l.vs
      /\ m.unacked = l.unacked /\ m.timer = l.timer
  BY DEF Send, Entity
<1>2. m \in Entity BY SendType
<1>3. /\ k.state = l.state /\ k.va = l.va /\ k.vs = l.vs
      /\ k.unacked = l.unacked /\ k.timer = l.timer
  <2> HIDE DEF m
  <2> QED BY <1>1, <1>2 DEF Entity
<1>4. Sound(m) BY <1>1, Kept
<1>5. Sound(k) BY <1>3, Kept
<1>6. QED BY <1>4, <1>5

\* Whatever the entity was doing, it is consistent once disconnected.
LEMMA EnterDisconnectedSound ==
  ASSUME NEW l \in Entity, NEW cause
  PROVE  Sound(EnterDisconnected(l, cause))
<1>1. /\ EnterDisconnected(l, cause).state = "Disconnected"
      /\ EnterDisconnected(l, cause).unacked = <<>>
  BY DEF EnterDisconnected, Tell, StopTimer, Entity
<1>2. QED BY <1>1 DEF Sound, WindowOf, Timed, Waiting

\* connect leaves an empty buffer and a running timer.
LEMMA ConnectSound ==
  ASSUME NEW l \in Entity
  PROVE  Sound(Connect(l))
<1>1. /\ Connect(l).state = "AwaitingEstablishment"
      /\ Connect(l).unacked = <<>> /\ Connect(l).timer
  BY DEF Connect, ResetVariables, Send, StartTimer, Entity
<1>2. QED BY <1>1 DEF Sound, WindowOf, Timed, Waiting

\* disconnect leaves an empty buffer and a running timer.
LEMMA DisconnectSound ==
  ASSUME NEW l \in Entity
  PROVE  Sound(Disconnect(l))
<1>1. /\ Disconnect(l).state = "AwaitingRelease"
      /\ Disconnect(l).unacked = <<>> /\ Disconnect(l).timer
  BY DEF Disconnect, Send, StartTimer, Entity
<1>2. QED BY <1>1 DEF Sound, WindowOf, Timed, Waiting

\* An empty window: V(A) = V(S) and nothing in the buffer.
LEMMA EmptyWindow ==
  ASSUME NEW l, l.va = 0, l.vs = 0, l.unacked = <<>>, l.state = "Connected"
  PROVE  Sound(l)
<1>1. Outstanding(l.va, l.vs) = 0 BY DEF Outstanding, Ahead
<1>2. Len(l.unacked) = 0 OBVIOUS
<1>3. QED BY <1>1, <1>2, LapmParams DEF Sound, WindowOf, Timed, Waiting

\* establish opens an empty window: the SABME had cleared the buffer.
LEMMA EstablishSound ==
  ASSUME NEW l \in Entity, l.unacked = <<>>
  PROVE  Sound(Establish(l))
<1> DEFINE m == Establish(l)
<1>1. m.va = 0 /\ m.vs = 0 /\ m.unacked = <<>> /\ m.state = "Connected"
  BY DEF Establish, Tell, StopTimer, Entity
<1> HIDE DEF m
<1>2. Sound(m) BY <1>1, EmptyWindow
<1>3. QED BY <1>2 DEF m

\* on_sabme opens an empty window.
LEMMA OnSabmeSound ==
  ASSUME NEW l \in Entity, NEW frame
  PROVE  Sound(OnSabme(l, frame))
<1> DEFINE m == OnSabme(l, frame)
<1>1. m.va = 0 /\ m.vs = 0 /\ m.unacked = <<>> /\ m.state = "Connected"
  BY DEF OnSabme, ResetVariables, Send, Tell, StopTimer, Entity
<1> HIDE DEF m
<1>2. Sound(m) BY <1>1, EmptyWindow
<1>3. QED BY <1>2 DEF m

\* on_disc answers, and disconnects if there was a link.
LEMMA OnDiscSound ==
  ASSUME NEW l \in Entity, NEW frame \in Frame, frame.type = "DISC", Sound(l)
  PROVE  Sound(OnDisc(l, frame))
<1>1. /\ Unnumbered("UA", frame.pf) \in Frame
      /\ Unnumbered("DM", frame.pf) \in Frame
  BY FrameFields, FrameTypes DEF SetMode
<1>2. QED BY <1>1, SendType, SendSound, EnterDisconnectedSound DEF OnDisc

\* on_ua opens the window or disconnects.
LEMMA OnUaSound ==
  ASSUME NEW l \in Entity, NEW frame, Sound(l)
  PROVE  Sound(OnUa(l, frame))
<1>1. l.state = "AwaitingEstablishment" => l.unacked = <<>> BY DEF Sound, WindowOf
<1>2. QED BY <1>1, EstablishSound, EnterDisconnectedSound DEF OnUa

\* on_dm disconnects.
LEMMA OnDmSound ==
  ASSUME NEW l \in Entity, NEW frame, Sound(l)
  PROVE  Sound(OnDm(l, frame))
BY EnterDisconnectedSound DEF OnDm

\* Retiring the frames before N(R) moves V(A) and the head of the buffer on
\* together, and the timer runs on while anything is left.
LEMMA AcknowledgeSound ==
  ASSUME NEW l \in Entity, NEW nr \in SeqNo, l.state = "Connected", Sound(l)
  PROVE  Sound(Acknowledge(l, nr)) /\ Acknowledge(l, nr).state = "Connected"
<1> DEFINE d == Ahead(l.va, nr)
           tail == SubSeq(l.unacked, d + 1, Len(l.unacked))
           retired == [l EXCEPT !.va = nr, !.unacked = tail]
           m == Acknowledge(l, nr)
<1>1. CASE ~ InWindow(l.va, nr, l.vs) BY <1>1 DEF Acknowledge
<1>2. CASE InWindow(l.va, nr, l.vs)
  <2>1. /\ l.va \in SeqNo /\ l.vs \in SeqNo /\ l.unacked \in Seq(Unacked)
        /\ Len(l.unacked) \in Nat
    BY EntityFields, LenProperties
  <2>2. /\ Len(l.unacked) = Ahead(l.va, l.vs) /\ Len(l.unacked) <= K
        /\ \A i \in 1 .. Len(l.unacked) : l.unacked[i].ns = Plus(l.va, i - 1)
    BY DEF Sound, WindowOf, Outstanding
  <2>3. d \in 0 .. Modulus - 1 BY <2>1, AheadType
  <2>4. d \in Nat /\ d <= Len(l.unacked) BY <1>2, <2>2, <2>3, LapmParams DEF InWindow
  <2>5. /\ tail \in Seq(Unacked) /\ Len(tail) = Len(l.unacked) - d
        /\ \A i \in 1 .. Len(tail) : tail[i] = l.unacked[i + d]
    <3> HIDE DEF d
    <3>1. d + 1 \in 1 .. Len(l.unacked) + 1 BY <2>1, <2>4
    <3>2. QED BY <2>1, <2>4, <3>1, SubSeqProperties
  <2>6. /\ m.state = "Connected" /\ m.va = nr /\ m.vs = l.vs /\ m.unacked = tail
        /\ nr # l.vs => m.timer
    BY <1>2 DEF Acknowledge, StartTimer, StopTimer, Entity
  <2>7. Len(tail) = Ahead(nr, l.vs)
    <3> HIDE DEF tail
    <3> QED BY <2>1, <2>2, <2>4, <2>5, AheadSplit DEF d
  <2>8. \A i \in 1 .. Len(tail) : tail[i].ns = Plus(nr, i - 1)
    <3> HIDE DEF tail, d
    <3>1. TAKE i \in 1 .. Len(tail)
    <3>2. i - 1 \in Nat /\ d + (i - 1) < K /\ i + d \in 1 .. Len(l.unacked)
      BY <2>1, <2>2, <2>4, <2>5, LapmParams
    <3>3. tail[i].ns = Plus(l.va, (i + d) - 1) BY <3>2, <2>2, <2>5
    <3>4. (i + d) - 1 = d + (i - 1) BY <3>2, <2>4
    <3>5. d + (i - 1) < Modulus BY <3>2, <2>4, LapmParams
    <3>6. Plus(l.va, d + (i - 1)) = Plus(nr, i - 1)
      BY <2>1, <3>2, <3>5, PlusShift DEF d
    <3>7. QED BY <3>3, <3>4, <3>6
  <2>9. tail # <<>> => nr # l.vs
    <3> HIDE DEF tail
    <3> QED BY <2>1, <2>5, <2>7 DEF Ahead, SeqNo
  <2>10. Sound(m)
    <3> HIDE DEF m, tail, d
    <3> QED BY <2>1, <2>2, <2>4, <2>5, <2>6, <2>7, <2>8, <2>9, LapmParams
        DEF Sound, WindowOf, Timed, Waiting, Outstanding
  <2>11. QED BY <2>6, <2>10
<1>3. QED BY <1>1, <1>2

\* retransmit_from copies the buffer and restarts the timer.
LEMMA RetransmitFromSound ==
  ASSUME NEW l \in Entity, NEW nr, Sound(l)
  PROVE  Sound(RetransmitFrom(l, nr))
<1> DEFINE m == RetransmitFrom(l, nr)
<1>1. /\ m.state = l.state /\ m.va = l.va /\ m.vs = l.vs
      /\ m.unacked = l.unacked /\ (l.timer => m.timer)
  BY DEF RetransmitFrom, StartTimer, Entity
<1> HIDE DEF m
<1>2. Sound(m) BY <1>1, Kept
<1>3. QED BY <1>2 DEF m

\* answer_poll only queues a frame.
LEMMA AnswerPollSound ==
  ASSUME NEW l \in Entity, NEW frame, Sound(l)
  PROVE  Sound(AnswerPoll(l, frame))
<1>1. RR(l.vr, TRUE, "Response") \in Frame BY FrameTypes, EntityFields
<1>2. QED BY <1>1, SendSound DEF AnswerPoll

\* resolve_timer_recovery only retransmits.
LEMMA ResolveTimerRecoverySound ==
  ASSUME NEW l \in Entity, NEW frame, Sound(l)
  PROVE  Sound(ResolveTimerRecovery(l, frame))
<1> DEFINE m == [l EXCEPT !.timer_recovery = FALSE, !.retries = 0]
<1>1. /\ m \in Entity
      /\ m.state = l.state /\ m.va = l.va /\ m.vs = l.vs
      /\ m.unacked = l.unacked /\ m.timer = l.timer
  BY DEF Entity
<1>2. Sound(m) BY <1>1, Kept
<1>3. QED BY <1>1, <1>2, RetransmitFromSound DEF ResolveTimerRecovery

\* Receiving data leaves the sending side alone.
LEMMA TakeISound ==
  ASSUME NEW l \in Entity, NEW frame \in Frame, frame.type = "I", Sound(l)
  PROVE  Sound(TakeI(l, frame))
<1> DEFINE Same(m) == /\ m.state = l.state /\ m.va = l.va /\ m.vs = l.vs
                      /\ m.unacked = l.unacked /\ m.timer = l.timer
<1>1. \A info : Same(Deliver(l, info)) BY DEF Deliver, Entity
<1>2. Same(Hold(l, frame)) BY DEF Hold, Entity
<1>3. \A f : Same(RejectOnce(l, f)) BY DEF RejectOnce, Send, Entity
<1>4. \A f : Same(RejectOnce(Hold(l, frame), f))
  BY DEF RejectOnce, Send, Hold, Entity
<1>5. Same(TakeI(l, frame)) BY <1>1, <1>3, <1>4 DEF TakeI
<1>6. QED BY <1>5, Kept

\* on_i: the acknowledgement, then the data.
LEMMA OnISound ==
  ASSUME NEW l \in Entity, NEW frame \in Frame, frame.type = "I",
         l.state = "Connected", Sound(l)
  PROVE  Sound(OnI(l, frame))
<1> DEFINE acked == Acknowledge(l, frame.nr)
           taken == TakeI(acked, frame)
<1>1. frame.nr \in SeqNo BY FrameFields
<1>2. acked \in Entity /\ Sound(acked) BY <1>1, AcknowledgeType, AcknowledgeSound
<1>3. taken \in Entity /\ Sound(taken) BY <1>2, TakeIType, TakeISound
<1> HIDE DEF taken
<1>4. RR(taken.vr, TRUE, "Response") \in Frame BY <1>3, FrameTypes, EntityFields
<1>5. QED BY <1>3, <1>4, SendSound DEF OnI, taken

\* peer_busy is no part of the window.
LEMMA NotBusySound ==
  ASSUME NEW l \in Entity, Sound(l)
  PROVE  /\ Sound([l EXCEPT !.peer_busy = FALSE])
         /\ [l EXCEPT !.peer_busy = FALSE].state = l.state
<1> DEFINE m == [l EXCEPT !.peer_busy = FALSE]
<1>1. /\ m.state = l.state /\ m.va = l.va /\ m.vs = l.vs
      /\ m.unacked = l.unacked /\ m.timer = l.timer
  BY DEF Entity
<1>2. QED BY <1>1, Kept

\* on_rr.
LEMMA OnRrSound ==
  ASSUME NEW l \in Entity, NEW frame \in Frame, frame.type = "RR",
         l.state = "Connected", Sound(l)
  PROVE  Sound(OnRr(l, frame))
<1> DEFINE ready == [l EXCEPT !.peer_busy = FALSE]
           acked == Acknowledge(ready, frame.nr)
<1>1. frame.nr \in SeqNo BY FrameFields
<1>2. ready \in Entity /\ Sound(ready) /\ ready.state = "Connected"
  BY NotBusyType, NotBusySound
<1>3. acked \in Entity /\ Sound(acked)
  BY <1>1, <1>2, AcknowledgeType, AcknowledgeSound
<1>4. /\ ResolveTimerRecovery(acked, frame) \in Entity
      /\ Sound(ResolveTimerRecovery(acked, frame))
  BY <1>3, ResolveTimerRecoveryType, ResolveTimerRecoverySound
<1>5. QED BY <1>4, AnswerPollSound DEF OnRr

\* on_rej.
LEMMA OnRejSound ==
  ASSUME NEW l \in Entity, NEW frame \in Frame, frame.type = "REJ",
         l.state = "Connected", Sound(l)
  PROVE  Sound(OnRej(l, frame))
<1> DEFINE ready == [l EXCEPT !.peer_busy = FALSE]
           acked == Acknowledge(ready, frame.nr)
<1>1. frame.nr \in SeqNo BY FrameFields
<1>2. ready \in Entity /\ Sound(ready) /\ ready.state = "Connected"
  BY NotBusyType, NotBusySound
<1>3. acked \in Entity /\ Sound(acked)
  BY <1>1, <1>2, AcknowledgeType, AcknowledgeSound
<1>4. /\ RetransmitFrom(acked, frame.nr) \in Entity
      /\ Sound(RetransmitFrom(acked, frame.nr))
  BY <1>1, <1>3, RetransmitFromType, RetransmitFromSound
<1>5. QED BY <1>4, AnswerPollSound DEF OnRej

\* on_srej sends one frame again and restarts the timer.
LEMMA OnSrejSound ==
  ASSUME NEW l \in Entity, NEW frame \in Frame, frame.type = "SREJ", Sound(l)
  PROVE  Sound(OnSrej(l, frame))
<1> DEFINE m == OnSrej(l, frame)
<1>1. /\ m.state = l.state /\ m.va = l.va /\ m.vs = l.vs
      /\ m.unacked = l.unacked /\ (l.timer => m.timer)
  BY DEF OnSrej, Send, StartTimer, Entity
<1> HIDE DEF m
<1>2. Sound(m) BY <1>1, Kept
<1>3. QED BY <1>2 DEF m

\* What pump sends is numbered on from V(S), fits the window and is timed.
LEMMA SendWindowSound ==
  ASSUME NEW l \in Entity, l.state = "Connected", Sound(l)
  PROVE  Sound(SendWindow(l))
<1> DEFINE n == Allowed(l)
           fresh == [i \in 1 .. n |-> [ns |-> Plus(l.vs, i - 1), info |-> l.pending[i]]]
           m == SendWindow(l)
           old == Len(l.unacked)
<1>1. /\ l.va \in SeqNo /\ l.vs \in SeqNo /\ l.unacked \in Seq(Unacked)
      /\ old \in Nat /\ Len(l.pending) \in Nat
  BY EntityFields, LenProperties
<1>2. /\ old = Ahead(l.va, l.vs) /\ old <= K
      /\ \A i \in 1 .. old : l.unacked[i].ns = Plus(l.va, i - 1)
  BY DEF Sound, WindowOf, Outstanding
<1>3. n \in Nat /\ old + n <= K
  <2> HIDE DEF old
  <2> QED BY <1>1, <1>2, LapmParams DEF Allowed, Least, Outstanding
<1>4. CASE n = 0 BY <1>4 DEF SendWindow
<1>5. CASE n # 0
  <2>1. /\ m.state = "Connected" /\ m.va = l.va /\ m.vs = Plus(l.vs, n)
        /\ m.unacked = l.unacked \o fresh /\ m.timer
    BY <1>5 DEF SendWindow, StartTimer, Entity
  <2>2. Len(fresh) = n /\ \A i \in 1 .. n : fresh[i].ns = Plus(l.vs, i - 1)
    <3> HIDE DEF n
    <3> QED BY <1>3
  <2>3. fresh \in Seq(Unacked) BY FreshFrames
  <2>4. /\ Len(m.unacked) = old + n
        /\ \A i \in 1 .. old + n :
             m.unacked[i] = IF i <= old THEN l.unacked[i] ELSE fresh[i - old]
    <3> HIDE DEF n, fresh, m, old
    <3>1. /\ Len(l.unacked \o fresh) = Len(l.unacked) + Len(fresh)
          /\ \A i \in 1 .. Len(l.unacked) + Len(fresh) :
               (l.unacked \o fresh)[i] =
                 IF i <= Len(l.unacked) THEN l.unacked[i] ELSE fresh[i - Len(l.unacked)]
      BY <1>1, <2>3, ConcatProperties
    <3>2. QED BY <2>1, <2>2, <3>1 DEF old
  <2>5. \A i \in 1 .. old + n : m.unacked[i].ns = Plus(l.va, i - 1)
    <3> HIDE DEF n, fresh, m
    <3>1. TAKE i \in 1 .. old + n
    <3>2. CASE i <= old BY <1>1, <1>2, <1>3, <2>4, <3>2, SMTT(20)
    <3>3. CASE i > old
      <4>1. i - old \in 1 .. n /\ (i - old) - 1 \in Nat BY <1>1, <1>3, <3>3
      <4>2. m.unacked[i].ns = Plus(l.vs, (i - old) - 1)
        <5>1. m.unacked[i] = fresh[i - old] BY <1>1, <2>4, <3>3
        <5>2. QED BY <2>2, <4>1, <5>1
      <4>3. old + ((i - old) - 1) = i - 1 /\ i - 1 < Modulus
        BY <1>1, <1>3, LapmParams
      <4>4. Plus(l.va, old + ((i - old) - 1)) = Plus(l.vs, (i - old) - 1)
        BY <1>1, <1>2, <4>1, <4>3, PlusShift, SMTT(20)
      <4>5. QED BY <4>2, <4>3, <4>4
    <3>4. QED BY <1>1, <3>2, <3>3
  <2>6. Ahead(l.va, Plus(l.vs, n)) = old + n
    <3> HIDE DEF n, old
    <3>1. Ahead(l.va, l.vs) + n < Modulus BY <1>1, <1>2, <1>3, LapmParams
    <3>2. QED BY <1>1, <1>2, <1>3, <3>1, AheadPlus
  <2>7. QED
    <3> HIDE DEF n, fresh, m
    <3>1. Sound(m) BY <1>1, <1>3, <2>1, <2>4, <2>5, <2>6
          DEF Sound, WindowOf, Timed, Waiting, Outstanding
    <3>2. QED BY <3>1 DEF m
<1>6. QED BY <1>4, <1>5

\* pump, and the hand-over of what it queued.
LEMMA PumpSound ==
  ASSUME NEW l \in Entity, Sound(l)
  PROVE  Sound([Pump(l) EXCEPT !.out = <<>>])
<1>1. ASSUME NEW m \in Entity, Sound(m) PROVE Sound(SendAck(m))
  <2>1. RR(m.vr, FALSE, "Response") \in Frame BY FrameTypes, EntityFields
  <2>2. QED BY <1>1, <2>1, SendSound DEF SendAck
<1>2. Sound(Pump(l))
  BY <1>1, SendWindowType, SendWindowSound DEF Pump
<1> DEFINE p == Pump(l)
           m == [p EXCEPT !.out = <<>>]
<1>3. p \in Entity BY PumpType
<1> HIDE DEF p
<1>4. /\ m.state = p.state /\ m.va = p.va /\ m.vs = p.vs
      /\ m.unacked = p.unacked /\ m.timer = p.timer
  BY <1>3 DEF Entity
<1>5. Sound(m) BY <1>2, <1>4, Kept DEF p
<1>6. QED BY <1>5 DEF p

\* Every answer to an expiry runs the timer again, or disconnects.
LEMMA ExpirySound ==
  ASSUME NEW l \in Entity, Sound(l)
  PROVE  /\ Sound(Fail(Expired(l))) /\ Sound(PollPeer(Expired(l)))
         /\ Sound(ResendSabme(Expired(l))) /\ Sound(ResendDisc(Expired(l)))
<1>1. Expired(l) \in Entity BY ExpiryType
<1>2. /\ Expired(l).state = l.state /\ Expired(l).va = l.va
      /\ Expired(l).vs = l.vs /\ Expired(l).unacked = l.unacked
  BY DEF Expired, StopTimer, Entity
<1>3. Sound(Fail(Expired(l))) BY <1>1, EnterDisconnectedSound DEF Fail
<1>4. ASSUME NEW m, m.state = l.state, m.va = l.va, m.vs = l.vs,
             m.unacked = l.unacked, m.timer
      PROVE  Sound(m)
  BY <1>4, Kept
<1> DEFINE x == Expired(l)
<1>5. Sound(PollPeer(x))
  <2> DEFINE m == PollPeer(x)
  <2> HIDE DEF x
  <2>1. /\ m.state = x.state /\ m.va = x.va /\ m.vs = x.vs
        /\ m.unacked = x.unacked /\ m.timer
    BY <1>1 DEF PollPeer, Send, StartTimer, Entity, x
  <2> HIDE DEF m
  <2>2. Sound(m) BY <1>2, <1>4, <2>1 DEF x
  <2>3. QED BY <2>2 DEF m, x
<1>6. Sound(ResendSabme(x))
  <2> DEFINE m == ResendSabme(x)
  <2> HIDE DEF x
  <2>1. /\ m.state = x.state /\ m.va = x.va /\ m.vs = x.vs
        /\ m.unacked = x.unacked /\ m.timer
    BY <1>1 DEF ResendSabme, Send, StartTimer, Entity, x
  <2> HIDE DEF m
  <2>2. Sound(m) BY <1>2, <1>4, <2>1 DEF x
  <2>3. QED BY <2>2 DEF m, x
<1>7. Sound(ResendDisc(x))
  <2> DEFINE m == ResendDisc(x)
  <2> HIDE DEF x
  <2>1. /\ m.state = x.state /\ m.va = x.va /\ m.vs = x.vs
        /\ m.unacked = x.unacked /\ m.timer
    BY <1>1 DEF ResendDisc, Send, StartTimer, Entity, x
  <2> HIDE DEF m
  <2>2. Sound(m) BY <1>2, <1>4, <2>1 DEF x
  <2>3. QED BY <2>2 DEF m, x
<1>8. QED BY <1>3, <1>5, <1>6, <1>7

-----------------------------------------------------------------------------
(* The inductive invariant and the theorems that follow from it.           *)

IInv == TypeOK /\ \A e \in Ends : Sound(ent[e])

\* Replacing one end by a sound one keeps both ends sound.
LEMMA OneEnd ==
  ASSUME IInv, NEW e \in Ends, NEW l, Sound(l), ent' = [ent EXCEPT ![e] = l]
  PROVE  \A x \in Ends : Sound(ent'[x])
BY DEF IInv, TypeOK

\* A numbered frame that is not discarded meets a connected entity.
LEMMA OpenConnected ==
  ASSUME IInv, NEW e \in Ends, Open(e)
  PROVE  Sound(NowOpen(e)) /\ NowOpen(e).state = "Connected" /\ NowOpen(e) \in Entity
<1>1. ent[e] \in Entity /\ Sound(ent[e]) /\ NowOpen(e) \in Entity
  BY WireFields, NowOpenType DEF IInv
<1>2. CASE ent[e].state = "AwaitingEstablishment"
  <2>1. ent[e].unacked = <<>> BY <1>1, <1>2 DEF Sound, WindowOf
  <2>2. Sound(Establish(ent[e])) BY <1>1, <2>1, EstablishSound
  <2>3. Establish(ent[e]).state = "Connected"
    BY <1>1 DEF Establish, Tell, StopTimer, Entity
  <2>4. QED BY <1>1, <1>2, <2>2, <2>3 DEF NowOpen, StandInForUa
<1>3. CASE ent[e].state = "Connected"
  BY <1>1, <1>3 DEF NowOpen, StandInForUa
<1>4. QED BY <1>2, <1>3 DEF Open

\* receive keeps both ends sound.
LEMMA ReceiveSound ==
  ASSUME IInv, NEW e \in Ends, Receive(e)
  PROVE  \A x \in Ends : Sound(ent'[x])
<1> DEFINE frame == Arriving(e)
<1>1. wire[Peer(e)] # <<>>
  BY DEF Receive, RecvSabme, RecvDisc, RecvUa, RecvDm, RecvRr, RecvRej, RecvSrej,
         RecvI, Undecodable, Discard, Arrives
<1>2. frame \in Frame /\ ent[e] \in Entity /\ Sound(ent[e])
  BY <1>1, WireFields DEF IInv
<1>3. Open(e) => /\ NowOpen(e) \in Entity /\ Sound(NowOpen(e))
                 /\ NowOpen(e).state = "Connected"
  BY OpenConnected
<1>4. ASSUME NEW l, Sound(l), Heard(e, l) PROVE \A x \in Ends : Sound(ent'[x])
  BY <1>4, OneEnd DEF Heard
<1>5. CASE RecvSabme(e) BY <1>2, <1>4, <1>5, OnSabmeSound DEF RecvSabme
<1>6. CASE RecvDisc(e)
  BY <1>2, <1>4, <1>6, OnDiscSound DEF RecvDisc, Arrives, Arriving
<1>7. CASE RecvUa(e) BY <1>2, <1>4, <1>7, OnUaSound DEF RecvUa
<1>8. CASE RecvDm(e) BY <1>2, <1>4, <1>8, OnDmSound DEF RecvDm
<1>9. CASE RecvRr(e)
  BY <1>2, <1>3, <1>4, <1>9, OnRrSound DEF RecvRr, Arrives, Arriving
<1>10. CASE RecvRej(e)
  BY <1>2, <1>3, <1>4, <1>10, OnRejSound DEF RecvRej, Arrives, Arriving
<1>11. CASE RecvSrej(e)
  BY <1>2, <1>3, <1>4, <1>11, OnSrejSound DEF RecvSrej, Arrives, Arriving
<1>12. CASE RecvI(e)
  BY <1>2, <1>3, <1>4, <1>12, OnISound DEF RecvI, Arrives, Arriving
<1>13. CASE Undecodable(e)
  <2> DEFINE took == OnI(NowOpen(e), frame)
  <2>1. took \in Entity
    BY <1>2, <1>3, <1>13, OnIType DEF Undecodable, Arrives, Arriving
  <2>2. Sound(Connect(took)) /\ Sound(Disconnect(took))
    BY <2>1, ConnectSound, DisconnectSound
  <2>3. QED BY <1>4, <1>13, <2>2 DEF Undecodable
<1>14. CASE Discard(e) BY <1>2, <1>4, <1>14 DEF Discard
<1>15. QED
  BY <1>5, <1>6, <1>7, <1>8, <1>9, <1>10, <1>11, <1>12, <1>13, <1>14 DEF Receive

\* tick keeps both ends sound.
LEMMA ExpireSound ==
  ASSUME IInv, NEW e \in Ends, Expire(e)
  PROVE  \A x \in Ends : Sound(ent'[x])
<1>1. ent[e] \in Entity /\ Sound(ent[e]) BY WireFields DEF IInv
<1>2. \E l : Sound(l) /\ Expires(e, l)
  BY <1>1, ExpirySound DEF Expire, GiveUp, AskAgain, ReleaseAgain, Poll
<1>3. QED BY <1>2, OneEnd DEF Expires

\* The inductive invariant: the types, and at each end the window and the timer.
THEOREM Inductive == Spec => []IInv
<1>1. Init => IInv
  <2>1. SUFFICES ASSUME Init PROVE IInv OBVIOUS
  <2>2. TypeOK
    BY <2>1, InitType
  <2>3. Sound(NewEntity)
    BY DEF NewEntity, Sound, WindowOf, Timed, Waiting
  <2>4. QED BY <2>1, <2>2, <2>3 DEF Init, IInv
<1>2. IInv /\ [Next]_vars => IInv'
  <2>1. SUFFICES ASSUME IInv, [Next]_vars PROVE IInv' OBVIOUS
  <2>2. TypeOK' BY <2>1, StepType DEF IInv
  <2>3. \A x \in Ends : ent[x] \in Entity /\ Sound(ent[x])
    BY <2>1, WireFields DEF IInv
  <2>4. CASE BeginProtocol
    <3>1. "Originator" \in Ends BY DEF Ends
    <3>2. /\ Sound(ent["Originator"])
          /\ Sound(Connect(ent["Originator"]))
      BY <2>3, <3>1, ConnectSound
    <3>3. QED BY <2>1, <2>2, <2>4, <3>1, <3>2, OneEnd DEF BeginProtocol, IInv
  <2>5. ASSUME NEW e \in Ends, UserSends(e) PROVE IInv'
    <3> DEFINE l == ent[e]
               m == SendData(l, accepted[e] + 1)
    <3>1. /\ m.state = l.state /\ m.va = l.va /\ m.vs = l.vs
          /\ m.unacked = l.unacked /\ m.timer = l.timer
      BY <2>3 DEF SendData, Entity
    <3>2. Sound(m) BY <2>3, <3>1, Kept
    <3>3. QED BY <2>1, <2>2, <2>5, <3>2, OneEnd DEF UserSends, IInv
  <2>6. ASSUME NEW e \in Ends, UserReleases(e) PROVE IInv'
    BY <2>1, <2>2, <2>3, <2>6, DisconnectSound, OneEnd DEF UserReleases, IInv
  <2>7. ASSUME NEW e \in Ends, Transmit(e) PROVE IInv'
    <3>1. Sound([Pump(ent[e]) EXCEPT !.out = <<>>]) BY <2>3, PumpSound
    <3>2. QED BY <2>1, <2>2, <2>7, <3>1, OneEnd DEF Transmit, IInv
  <2>8. ASSUME NEW e \in Ends, Lose(e) PROVE IInv'
    BY <2>2, <2>3, <2>8 DEF Lose, IInv
  <2>9. ASSUME NEW e \in Ends, Receive(e) PROVE IInv'
    BY <2>1, <2>2, <2>9, ReceiveSound DEF IInv
  <2>10. ASSUME NEW e \in Ends, Expire(e) PROVE IInv'
    BY <2>1, <2>2, <2>10, ExpireSound DEF IInv
  <2>11. CASE UNCHANGED vars BY <2>2, <2>3, <2>11 DEF vars, IInv
  <2>12. QED
    BY <2>1, <2>4, <2>5, <2>6, <2>7, <2>8, <2>9, <2>10, <2>11 DEF Next
<1>3. QED BY <1>1, <1>2, PTL DEF Spec

\* The retransmission buffer is exactly the open window, in order, and never
\* holds more than K frames.
THEOREM WindowKept == Spec => []WindowInv
<1>1. IInv => WindowInv BY DEF IInv, Sound, WindowInv
<1>2. QED BY <1>1, Inductive, PTL

\* No end waits on the far end with its timer stopped.
THEOREM NeverWaitsInSilence == Spec => []NoSilentWait
<1>1. IInv => NoSilentWait BY DEF IInv, Sound, Timed, NoSilentWait
<1>2. QED BY <1>1, Inductive, PTL

=============================================================================
