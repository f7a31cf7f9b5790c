----------------------------- MODULE LapmEntity -----------------------------
(***************************************************************************)
(* One LAPM entity (struct Lapm of crates/ec/src/lapm.rs) as a record, and *)
(* each method of its impl as an operator from the record before the call  *)
(* to the record after it.  The operators keep the order of the calls the  *)
(* method makes, so a handler is the composition the source writes.        *)
(*                                                                         *)
(* Payloads are numbers: info n stands for the n-th chunk handed to        *)
(* send_data.  T401 is the Boolean "timer" (armed or not); how long it     *)
(* runs, and how tick learns a longer value, is not kept here.  An RNR has *)
(* no handler here either: this program sends none, so peer_busy is only   *)
(* ever cleared.                                                           *)
(***************************************************************************)
EXTENDS Integers, Sequences, FiniteSets

CONSTANTS Modulus,   \* MODULUS of frame.rs: 128
          K,         \* Params::k, outstanding I frames allowed: 15
          N400,      \* Params::n400, the retransmission limit
          Srej       \* set_selective_reject: was 8.4.5.1 agreed in XID?

\* K < Modulus keeps a full window from looking like an empty one.  With
\* selective reject the receiver also keeps frames K ahead of V(R), and a
\* repeat of a frame K behind must not look like one of those.
ASSUME LapmParams ==
  /\ Modulus \in Nat /\ K \in Nat /\ N400 \in Nat
  /\ 1 <= K /\ K < Modulus /\ 1 <= N400
  /\ Srej \in BOOLEAN /\ (Srej => 2 * K < Modulus)

SeqNo    == 0 .. Modulus - 1
Info     == Nat \ {0}
Nothing  == 0                      \* an empty slot of "held"
NoneHeld == [n \in SeqNo |-> Nothing]

-----------------------------------------------------------------------------
(* Arithmetic modulo Modulus.                                              *)

\* A mutant: the sequence number is not brought back into range.
PlusWithoutWrap(n, i) == n + i

\* n advanced by i, for i in 0 .. Modulus.
Plus(n, i) == IF n + i < Modulus THEN n + i ELSE n + i - Modulus

\* How far "to" lies ahead of "from", going forward.
Ahead(from, to) == IF from <= to THEN to - from ELSE to - from + Modulus

Outstanding(va, vs) == Ahead(va, vs)

InWindow(low, n, high) == Ahead(low, n) <= Ahead(low, high)

-----------------------------------------------------------------------------
(* Frames and events.                                                      *)

Numbered == {"I", "RR", "REJ", "SREJ"}
SetMode  == {"SABME", "DISC", "UA", "DM"}

I(ns, nr, info)  == [type |-> "I", ns |-> ns, nr |-> nr, pf |-> FALSE, info |-> info]
RR(nr, pf, kind) == [type |-> "RR", nr |-> nr, pf |-> pf, kind |-> kind]
REJ(nr)          == [type |-> "REJ", nr |-> nr, pf |-> FALSE, kind |-> "Command"]
SREJ(nr)         == [type |-> "SREJ", nr |-> nr]
Unnumbered(type, pf) == [type |-> type, pf |-> pf]

Frame ==
  [type : {"I"}, ns : SeqNo, nr : SeqNo, pf : BOOLEAN, info : Info]
    \cup [type : {"RR", "REJ"}, nr : SeqNo, pf : BOOLEAN,
          kind : {"Command", "Response"}]
    \cup [type : {"SREJ"}, nr : SeqNo]
    \cup [type : SetMode, pf : BOOLEAN]

State == {"Disconnected", "AwaitingEstablishment", "AwaitingRelease", "Connected"}
Cause == {"Local", "Peer", "NoResponse", "Refused"}

Report(type)    == [type |-> type]
Released(cause) == [type |-> "Released", cause |-> cause]
DataEvent(info) == [type |-> "Data", info |-> info]

Event == [type : {"Connected", "Reset"}]
           \cup [type : {"Released"}, cause : Cause]
           \cup [type : {"Data"}, info : Info]

Unacked == [ns : SeqNo, info : Info]

Entity ==
  [state : State, vs : SeqNo, va : SeqNo, vr : SeqNo,
   pending : Seq(Info), unacked : Seq(Unacked), out : Seq(Frame),
   events : Seq(Event), held : [SeqNo -> Info \cup {Nothing}],
   peer_busy : BOOLEAN, reject_sent : BOOLEAN, ack_pending : BOOLEAN,
   timer_recovery : BOOLEAN, timer : BOOLEAN, retries : Nat]

NewEntity ==
  [state |-> "Disconnected", vs |-> 0, va |-> 0, vr |-> 0,
   pending |-> <<>>, unacked |-> <<>>, out |-> <<>>,
   events |-> <<>>, held |-> NoneHeld,
   peer_busy |-> FALSE, reject_sent |-> FALSE, ack_pending |-> FALSE,
   timer_recovery |-> FALSE, timer |-> FALSE, retries |-> 0]

-----------------------------------------------------------------------------
(* Housekeeping.                                                           *)

Send(l, frame)  == [l EXCEPT !.out = Append(@, frame)]
Tell(l, event)  == [l EXCEPT !.events = Append(@, event)]
StartTimer(l)   == [l EXCEPT !.timer = TRUE]
StopTimer(l)    == [l EXCEPT !.timer = FALSE]

\* A mutant: the retransmission buffer survives the reset.
ResetVariablesOnly(l) ==
  [l EXCEPT !.vs = 0, !.va = 0, !.vr = 0, !.held = NoneHeld,
            !.peer_busy = FALSE, !.reject_sent = FALSE,
            !.ack_pending = FALSE, !.timer_recovery = FALSE]

ResetVariables(l) ==
  [l EXCEPT !.vs = 0, !.va = 0, !.vr = 0, !.held = NoneHeld, !.unacked = <<>>,
            !.peer_busy = FALSE, !.reject_sent = FALSE,
            !.ack_pending = FALSE, !.timer_recovery = FALSE]

\* What "held" and the frames already queued in "out" contain is left alone.
EnterDisconnected(l, cause) ==
  Tell([StopTimer(l) EXCEPT !.state = "Disconnected",
                            !.pending = <<>>, !.unacked = <<>>],
       Released(cause))

\* The originator's list of 8.3.2.1, and no more: "retries" is not cleared.
Establish(l) ==
  Tell([StopTimer(l) EXCEPT !.vs = 0, !.va = 0, !.vr = 0, !.state = "Connected"],
       Report("Connected"))

-----------------------------------------------------------------------------
(* Requests from above.                                                    *)

Connect(l) ==
  StartTimer(Send([ResetVariables(l) EXCEPT !.state = "AwaitingEstablishment",
                                            !.retries = 0],
                  Unnumbered("SABME", TRUE)))

\* A mutant: nothing times the answer to the DISC.
DisconnectUntimed(l) ==
  Send([l EXCEPT !.pending = <<>>, !.unacked = <<>>,
                 !.state = "AwaitingRelease", !.retries = 0],
       Unnumbered("DISC", TRUE))

Disconnect(l) ==
  StartTimer(Send([l EXCEPT !.pending = <<>>, !.unacked = <<>>,
                            !.state = "AwaitingRelease", !.retries = 0],
                  Unnumbered("DISC", TRUE)))

SendData(l, info) == [l EXCEPT !.pending = Append(@, info)]

-----------------------------------------------------------------------------
(* Acknowledgement and retransmission.                                     *)

\* A mutant: any acknowledgement stops the timer, not only the last.
AcknowledgeAndStop(l, nr) ==
  IF ~ InWindow(l.va, nr, l.vs) THEN l ELSE
  [StopTimer(l) EXCEPT !.va = nr, !.retries = 0,
                       !.unacked = SubSeq(@, Ahead(l.va, nr) + 1, Len(@))]

\* An N(R) outside V(A)..V(S) is ignored; a valid one retires the frames
\* before it.  The timer stops only when nothing is left outstanding.
Acknowledge(l, nr) ==
  IF ~ InWindow(l.va, nr, l.vs) THEN l ELSE
  LET retired == [l EXCEPT !.va = nr,
                           !.unacked = SubSeq(@, Ahead(l.va, nr) + 1, Len(@))]
  IN  IF nr = l.vs THEN [StopTimer(retired) EXCEPT !.retries = 0]
                   ELSE StartTimer(retired)

\* Everything unacknowledged from nr on goes out again under its old N(S).
\* The buffer is numbered from V(A) on, so the frames of nr .. V(S) are what
\* follows the first Ahead(V(A), nr).
RetransmitFrom(l, nr) ==
  IF ~ InWindow(l.va, nr, l.vs) THEN l ELSE
  LET again   == SubSeq(l.unacked, Ahead(l.va, nr) + 1, Len(l.unacked))
      copy(i) == I(again[i].ns, l.vr, again[i].info)
  IN  StartTimer([l EXCEPT !.out = @ \o [i \in 1 .. Len(again) |-> copy(i)],
                           !.ack_pending = FALSE])

AnswerPoll(l, frame) ==
  IF frame.pf /\ frame.kind = "Command"
  THEN [Send(l, RR(l.vr, TRUE, "Response")) EXCEPT !.ack_pending = FALSE]
  ELSE l

\* A mutant: the answer ends timer recovery and nothing is sent again.
ResolveWithoutRetransmission(l, frame) ==
  IF ~ (l.timer_recovery /\ frame.pf /\ frame.kind = "Response") THEN l ELSE
  [l EXCEPT !.timer_recovery = FALSE, !.retries = 0]

\* The peer's N(R) has been applied: what is still unacknowledged was lost.
ResolveTimerRecovery(l, frame) ==
  IF ~ (l.timer_recovery /\ frame.pf /\ frame.kind = "Response") THEN l ELSE
  LET resolved == [l EXCEPT !.timer_recovery = FALSE, !.retries = 0]
  IN  IF l.va # l.vs THEN RetransmitFrom(resolved, l.va) ELSE resolved

-----------------------------------------------------------------------------
(* Handlers of numbered frames.                                            *)

\* A mutant: the slot after the run is taken for one of it.
HeldRunOneMore(held, n) ==
  1 + Cardinality({i \in 0 .. Modulus - 1 : \A j \in 0 .. i : held[Plus(n, j)] # Nothing})

\* How many frames in a row from n on are held: the iterations of the loop
\* that empties "held" while its next number is there.
HeldRun(held, n) ==
  Cardinality({i \in 0 .. Modulus - 1 : \A j \in 0 .. i : held[Plus(n, j)] # Nothing})

\* Take the in-sequence frame and every held frame its arrival unblocks.
Deliver(l, info) ==
  LET next == Plus(l.vr, 1)
      run  == HeldRun(l.held, next)
      freed(n) == Ahead(next, n) < run
  IN  [l EXCEPT !.vr = Plus(next, run),
                !.reject_sent = FALSE,
                !.ack_pending = TRUE,
                !.events = Append(@, DataEvent(info)) \o
                             [i \in 1 .. run |-> DataEvent(l.held[Plus(next, i - 1)])],
                !.held = [n \in SeqNo |-> IF freed(n) THEN Nothing ELSE l.held[n]]]

\* One reject exception at a time (8.4.4).
RejectOnce(l, frame) ==
  IF l.reject_sent THEN l ELSE [Send(l, frame) EXCEPT !.reject_sent = TRUE]

\* A mutant: a frame from behind V(R) is kept as well.
HoldAnything(l, frame) == [l EXCEPT !.held[frame.ns] = frame.info]

\* Keep an early frame, if it lies within the window ahead of V(R).
Hold(l, frame) ==
  IF InWindow(l.vr, frame.ns, Plus(l.vr, K))
  THEN [l EXCEPT !.held[frame.ns] = frame.info] ELSE l

\* A mutant: the frame is not checked against V(R).
TakeAnyI(l, frame) == Deliver(l, frame.info)

\* A mutant: the reject names the frame after the missing one.
RejectTooFar(l, frame) ==
  IF frame.ns = l.vr THEN Deliver(l, frame.info)
  ELSE IF Srej THEN RejectOnce(Hold(l, frame), SREJ(l.vr))
  ELSE RejectOnce(l, REJ(Plus(l.vr, 1)))

TakeI(l, frame) ==
  IF frame.ns = l.vr THEN Deliver(l, frame.info)
  ELSE IF Srej THEN RejectOnce(Hold(l, frame), SREJ(l.vr))
  ELSE RejectOnce(l, REJ(l.vr))

OnI(l, frame) ==
  LET taken == TakeI(Acknowledge(l, frame.nr), frame)
  IN  IF frame.pf
      THEN [Send(taken, RR(taken.vr, TRUE, "Response")) EXCEPT !.ack_pending = FALSE]
      ELSE taken

OnRr(l, frame) ==
  AnswerPoll(ResolveTimerRecovery(
               Acknowledge([l EXCEPT !.peer_busy = FALSE], frame.nr), frame), frame)

OnRej(l, frame) ==
  AnswerPoll(RetransmitFrom(
               Acknowledge([l EXCEPT !.peer_busy = FALSE], frame.nr), frame.nr), frame)

\* The N(R) of an SREJ acknowledges nothing; it asks for one frame.
OnSrej(l, frame) ==
  LET ready == [l EXCEPT !.peer_busy = FALSE]
      asked == {i \in 1 .. Len(l.unacked) : l.unacked[i].ns = frame.nr}
      again == l.unacked[CHOOSE i \in asked : TRUE]
  IN  IF asked = {} THEN ready
      ELSE StartTimer([Send(ready, I(again.ns, l.vr, again.info))
                         EXCEPT !.ack_pending = FALSE])

-----------------------------------------------------------------------------
(* Handlers of set-mode frames.                                            *)

OnSabme(l, frame) ==
  LET up == StopTimer([Send(ResetVariables(l), Unnumbered("UA", frame.pf))
                         EXCEPT !.state = "Connected"])
  IN  Tell(up, Report(IF l.state = "Connected" THEN "Reset" ELSE "Connected"))

OnDisc(l, frame) ==
  IF l.state = "Disconnected" THEN Send(l, Unnumbered("DM", frame.pf))
  ELSE EnterDisconnected(Send(l, Unnumbered("UA", frame.pf)), "Peer")

OnUa(l, frame) ==
  CASE l.state = "AwaitingEstablishment" /\ frame.pf -> Establish(l)
    [] l.state = "AwaitingRelease" /\ frame.pf -> EnterDisconnected(l, "Local")
    [] OTHER -> l

OnDm(l, frame) ==
  CASE l.state = "AwaitingEstablishment" /\ frame.pf -> EnterDisconnected(l, "Refused")
    [] l.state = "AwaitingRelease" /\ frame.pf -> EnterDisconnected(l, "Local")
    [] l.state = "Connected" -> EnterDisconnected(l, "Refused")
    [] OTHER -> l

\* 8.3.2.1: an I or supervisory frame stands in for a lost UA.
StandInForUa(l) == IF l.state = "AwaitingEstablishment" THEN Establish(l) ELSE l

-----------------------------------------------------------------------------
(* Transmission.                                                           *)

Least(a, b) == IF a <= b THEN a ELSE b

\* How many pending chunks the window and the peer allow out now.
Allowed(l) ==
  IF l.peer_busy \/ Outstanding(l.va, l.vs) >= K THEN 0
  ELSE Least(Len(l.pending), K - Outstanding(l.va, l.vs))

SendWindow(l) ==
  LET n == Allowed(l)
      fresh == [i \in 1 .. n |-> [ns |-> Plus(l.vs, i - 1), info |-> l.pending[i]]]
  IN  IF n = 0 THEN l ELSE
      StartTimer([l EXCEPT
        !.pending = SubSeq(@, n + 1, Len(@)),
        !.unacked = @ \o fresh,
        !.vs = Plus(@, n),
        !.out = @ \o [i \in 1 .. n |-> I(fresh[i].ns, l.vr, fresh[i].info)],
        !.ack_pending = FALSE])

SendAck(l) ==
  IF l.ack_pending
  THEN [Send(l, RR(l.vr, FALSE, "Response")) EXCEPT !.ack_pending = FALSE] ELSE l

Pump(l) == IF l.state = "Connected" THEN SendAck(SendWindow(l)) ELSE l

-----------------------------------------------------------------------------
(* Expiry of T401.                                                         *)

Fail(l) == EnterDisconnected(l, "NoResponse")

\* "l" with the expiry counted and the timer fired.
Expired(l) == [StopTimer(l) EXCEPT !.retries = @ + 1]

ResendSabme(l) == StartTimer(Send(l, Unnumbered("SABME", TRUE)))

ResendDisc(l) == StartTimer(Send(l, Unnumbered("DISC", TRUE)))

\* 8.5.3: enter timer recovery and poll, rather than blindly resend.
PollPeer(l) ==
  StartTimer([Send([l EXCEPT !.timer_recovery = TRUE], RR(l.vr, TRUE, "Command"))
                EXCEPT !.ack_pending = FALSE])

=============================================================================
