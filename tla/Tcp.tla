-------------------------------- MODULE Tcp ---------------------------------
(***************************************************************************)
(* Two stacks (crates/tcp/src/stack.rs) with one pair of ports between     *)
(* them, and a network that may lose, repeat and reorder a few segments.   *)
(*                                                                         *)
(* Nothing here knows the time.  A retransmission timer expires when       *)
(* nothing it could be waiting for is still to come; an expiry before that *)
(* is one of MaxFaults.  TIME-WAIT outlasts every segment under way.        *)
(***************************************************************************)
EXTENDS TcpEnd

CONSTANTS Openings,     \* which ends call: one, or both at once
          MaxWrite,     \* [Ends -> Nat]: octets each program writes
          Abortive,     \* ends whose program may abort
          Isns,         \* initial sequence numbers a stack may draw
          Faults, MaxFaults   \* what the network and the clock may do, and how often

Ends    == {"Client", "Server"}
Peer(e) == IF e = "Client" THEN "Server" ELSE "Client"
None    == [state |-> "None"]

ASSUME TcpBounds ==
  /\ Openings \subseteq SUBSET Ends /\ Abortive \subseteq Ends
  /\ MaxWrite \in [Ends -> Nat] /\ Isns \subseteq Number
  /\ Faults \subseteq {"loss", "repeat", "overtake", "early"} /\ MaxFaults \in Nat

VARIABLES
  callers,    \* ends whose program opens the connection; the others listen, a
              \* port to call from being one that is not listened on
  table,      \* [Ends -> Connection or None]: the connection the ports name
  orphans,    \* [Ends -> Nat]: connections of the table no segment can name
  net,        \* [Ends -> Seq(Segment)]: segments on their way to each end
  dialled,    \* ends whose program has opened
  ended,      \* [Ends -> {"no", "closed", "aborted"}]: how each program has ended it
  written, got, told,   \* what each program wrote, read and was told
  faults

program     == <<callers, dialled, ended, written, got>>

vars == <<callers, table, orphans, net, dialled, ended, written, got, told,
          faults>>

TypeOK ==
  /\ callers \in Openings
  /\ table \in [Ends -> Connection \cup {None}]
  /\ orphans \in [Ends -> Nat]
  /\ net \in [Ends -> Seq(Segment)]
  /\ dialled \subseteq Ends /\ ended \in [Ends -> {"no", "closed", "aborted"}]
  /\ written \in [Ends -> Nat] /\ got \in [Ends -> Seq(Octet)]
  /\ told \in [Ends -> SUBSET Report]
  /\ faults \in 0 .. MaxFaults

Init ==
  /\ callers \in Openings
  /\ table = [e \in Ends |-> None]
  /\ orphans = [e \in Ends |-> 0]
  /\ net = [e \in Ends |-> <<>>]
  /\ dialled = {} /\ ended = [e \in Ends |-> "no"]
  /\ written = [e \in Ends |-> 0]
  /\ got = [e \in Ends |-> <<>>]
  /\ told = [e \in Ends |-> {}]
  /\ faults = 0

Open(e)   == table[e] # None
Unread(e) == IF Open(e) THEN table[e].incoming ELSE <<>>

-----------------------------------------------------------------------------
(* collect: what a connection wants sent goes out, what it has to tell is  *)
(* told, and one that is over and read out is forgotten.  "arriving" is    *)
(* what else is under way to this end once the step is done.               *)
(* A connection back in LISTEN has given up the far end's address, so that *)
(* find will not match it again.                                           *)
Collect(e, c, arriving) ==
  /\ net' = [net EXCEPT ![e] = arriving, ![Peer(e)] = @ \o c.out]
  /\ told' = [told EXCEPT ![e] = @ \cup c.reports]
  /\ table' = [table EXCEPT ![e] =
       IF c.state = "Listen" \/ (c.state = "Closed" /\ c.incoming = <<>>) THEN None
       ELSE [c EXCEPT !.out = <<>>, !.reports = {}]]
  /\ orphans' = [orphans EXCEPT ![e] = IF c.state = "Listen" THEN @ + 1 ELSE @]

\* Stack::deliver, to the connection the ports name or to a new one.
Take(e, s, arriving) ==
  IF Open(e) THEN Collect(e, Receive(table[e], s), arriving)
  ELSE IF "SYN" \in s.flags /\ "RST" \notin s.flags /\ e \notin callers
  THEN \E iss \in Isns : Collect(e, Receive(New(iss, "Listen", TRUE), s), arriving)
  ELSE /\ net' = [net EXCEPT ![e] = arriving,
                             ![Peer(e)] = IF "RST" \in s.flags THEN @
                                          ELSE Append(@, ResetFor(s))]
       /\ UNCHANGED <<table, orphans, told>>

-----------------------------------------------------------------------------
(* The programs.                                                           *)

Connect(e) ==
  /\ e \in callers \ dialled /\ ~Open(e)
  /\ dialled' = dialled \cup {e}
  /\ \E iss \in Isns : Collect(e, ConnectSized(iss), net[e])
  /\ UNCHANGED <<callers, ended, written, got, faults>>

Write(e) ==
  /\ Open(e) /\ ended[e] = "no"
  /\ table[e].state \in {"Established", "CloseWait"}
  /\ \E n \in 1 .. Least(MaxWrite[e] - written[e], SendRoom(table[e])) :
       /\ Collect(e, SendCall(table[e], [i \in 1 .. n |-> written[e] + i]), net[e])
       /\ written' = [written EXCEPT ![e] = @ + n]
  /\ UNCHANGED <<callers, dialled, ended, got, faults>>

Read(e) ==
  /\ Open(e) /\ table[e].incoming # <<>>
  /\ got' = [got EXCEPT ![e] = @ \o table[e].incoming]
  /\ Collect(e, TakeReceived(table[e]), net[e])
  /\ UNCHANGED <<callers, dialled, ended, written, faults>>

Close(e) ==
  /\ Open(e) /\ ended[e] = "no"
  /\ ended' = [ended EXCEPT ![e] = "closed"]
  /\ Collect(e, CloseCall(table[e]), net[e])
  /\ UNCHANGED <<callers, dialled, written, got, faults>>

AbortOpen(e) ==
  /\ e \in Abortive /\ Open(e) /\ ended[e] = "no"
  /\ ended' = [ended EXCEPT ![e] = "aborted"]
  /\ Collect(e, Abort(table[e]), net[e])
  /\ UNCHANGED <<callers, dialled, written, got, faults>>

-----------------------------------------------------------------------------
(* The network and the clock.                                              *)

Arrive(e) ==
  /\ net[e] # <<>>
  /\ Take(e, Head(net[e]), Tail(net[e]))
  /\ UNCHANGED <<program, faults>>

Fault(kind) == kind \in Faults /\ faults < MaxFaults /\ faults' = faults + 1

Disturb(e) ==
  /\ net[e] # <<>>
  /\ \/ Fault("loss") /\ net' = [net EXCEPT ![e] = Tail(@)]
     \/ Fault("repeat") /\ net' = [net EXCEPT ![e] = Append(@, Head(@))]
     \/ Fault("overtake") /\ Len(net[e]) > 1
        /\ net' = [net EXCEPT ![e] = <<@[2], @[1]>> \o SubSeq(@, 3, Len(@))]
  /\ UNCHANGED <<table, orphans, told, program>>

Deadlines(c) ==
  {d \in {"time_wait", "ack", "retransmit"} :
     CASE d = "time_wait" -> c.time_wait_at
       [] d = "ack" -> c.ack_at
       [] d = "retransmit" -> c.retransmit_at}

Quiet == \A e \in Ends : net[e] = <<>>

\* A segment the end it reaches answers with an acknowledgment and no more.
Fruitless(e, s) ==
  Open(e) /\ SegLen(s) = 0 /\ "RST" \notin s.flags
  /\ Synchronized(table[e]) /\ ~Acceptable(table[e], s)

\* Nothing that would answer what is outstanding is still to come: nothing
\* fruitful is under way, no acknowledgment is put off and no octet waits for a
\* reader.  Every expiry doubles the wait, so the end that has waited fewer
\* times is the first to go on.
Overdue(e) ==
  /\ Open(e)
  /\ \A f \in Ends :
       /\ \A i \in DOMAIN net[f] : Fruitless(f, net[f][i])
       /\ Open(f) => /\ ~table[f].ack_at /\ table[f].incoming = <<>>
                     /\ table[f].retransmit_at =>
                          table[e].retransmits <= table[f].retransmits

Expire(e, due) ==
  /\ Open(e) /\ due # {} /\ due \subseteq Deadlines(table[e])
  /\ Collect(e, Tick(table[e], due), net[e])

Passes(e) ==
  /\ \E due \in SUBSET {"time_wait", "ack", "retransmit"} :
       /\ "time_wait" \in due => Quiet
       /\ "retransmit" \in due => Overdue(e)
       /\ Expire(e, due)
  /\ UNCHANGED <<program, faults>>

PassesEarly(e) ==
  /\ Fault("early")
  /\ Open(e) /\ ~Overdue(e)
  /\ \E due \in {{"retransmit"}, {"ack", "retransmit"}} : Expire(e, due)
  /\ UNCHANGED program

ProgramStep(e) == Connect(e) \/ Write(e) \/ Read(e) \/ Close(e) \/ AbortOpen(e)

Next ==
  \E e \in Ends :
    ProgramStep(e) \/ Arrive(e) \/ Disturb(e) \/ Passes(e) \/ PassesEarly(e)

Spec == Init /\ [][Next]_vars

\* Segments arrive, deadlines pass and programs read.  Each clause is weak
\* fairness of an action that changes the state whenever its guard holds.
Due(e) ==
  Open(e) /\ \/ table[e].ack_at
             \/ table[e].time_wait_at /\ Quiet
             \/ table[e].retransmit_at /\ Overdue(e)

Fairness ==
  \A e \in Ends :
    /\ []<>(net[e] = <<>>) \/ []<><<Arrive(e)>>_vars
    /\ []<>~Due(e) \/ []<><<Passes(e)>>_vars
    /\ []<>(Unread(e) = <<>>) \/ []<><<Read(e)>>_vars

FairSpec == Spec /\ Fairness

-----------------------------------------------------------------------------
(* What must hold.                                                         *)

\* What is outstanding has a timer that will send it again: no segment, SYN,
\* FIN or probe is ever waited for with nothing to bring the wait to an end.
Outstanding(c) == c.una # c.nxt \/ (c.wnd = 0 /\ c.outgoing # <<>>)

TimerRuns ==
  \A e \in Ends : Open(e) /\ Outstanding(table[e])
                    /\ table[e].state \notin {"Closed", "TimeWait"} =>
    table[e].retransmit_at

\* Once both have agreed on numbers, what one end expects next is among the
\* numbers the other has outstanding.
Joined == \A e \in Ends : Open(e) /\ table[e].state \notin
                            {"Closed", "Listen", "SynSent", "SynReceived"}

Agreed ==
  Joined => \A e \in Ends :
    Within(table[Peer(e)].rcv, table[e].una, Flight(table[e]) + 1)

\* A program told that the far end is closing can read all that was written.
ClosingIsTheEnd ==
  \A e \in Ends : "Closing" \in told[e] =>
    /\ ended[Peer(e)] # "no"
    /\ Len(got[e]) + Len(Unread(e)) = written[Peer(e)]

\* An end whose FIN was acknowledged has had everything taken before it.
Heard(e) == Open(e) /\ table[e].fin_sent /\ table[e].una = table[e].nxt

FinIsTheEnd ==
  \A e \in Ends : Heard(e) /\ ended[Peer(e)] = "no" =>
    Len(got[Peer(e)]) + Len(Unread(Peer(e))) = written[e]

\* "The total of RCV.NXT and RCV.WND should not be reduced."
Edge(c) == Add(c.rcv, c.rwnd)

WindowNeverTakenBack ==
  [][\A e \in Ends : Open(e) /\ (Open(e))' /\ table[e].state \notin {"SynSent", "Listen"} =>
       ~Before((Edge(table[e]))', Edge(table[e]))]_vars

\* Everything written is read in the end, unless a program aborts or is told
\* of a reset.
Broken == \E e \in Ends : ended[e] = "aborted" \/ told[e] \cap {"Reset", "Refused"} # {}

AllArrives ==
  \A e \in Ends :
    written[e] > Len(got[Peer(e)]) ~> written[e] = Len(got[Peer(e)]) \/ Broken

\* When both programs have closed, both connections come to an end, or both
\* are left to TIME-WAIT, where each may answer the other's acknowledgments and
\* start its timer again for ever (the TimeWait arm of take_acknowledgment).
InTimeWait(e) == Open(e) /\ table[e].state = "TimeWait"

TwoClosesEnd ==
  (\A e \in Ends : ended[e] = "closed")
    ~> (\A e \in Ends : ~Open(e)) \/ (\A e \in Ends : InTimeWait(e))

Stream == INSTANCE ByteStream
StreamSpec == Stream!Spec
=============================================================================
