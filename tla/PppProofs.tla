----------------------------- MODULE PppProofs ------------------------------
(***************************************************************************)
(* What holds of two PPP links for every setting of the two ends, every    *)
(* limit and whatever the line loses: the types, that a session waits with *)
(* its Restart timer running, that nobody without the right password is    *)
(* let in by an end that asks for one, that nothing said is left unused,   *)
(* and that two ends that carry IP mean the same by an address and by      *)
(* compression.                                                            *)
(***************************************************************************)
EXTENDS Ppp, SequenceTheorems, TLAPS

-----------------------------------------------------------------------------
(* The table of events by states.                                          *)

\* The events that do not lead out of Initial, and those that are not the
\* Restart timer's.
Passive == {Down, Close, RequestGood, RequestBad, ConfigureAck, ConfigureNak,
            TerminateRequest, TerminateAck}

Ordinary == {Up, Open} \cup Passive

\* The actions that start the Restart timer.
Arms(actions) ==
  "scr" \in actions \/ "str" \in actions \/ ("zrc" \in actions /\ "irc" \notin actions)

\* What a cell of the table does to the timer: it comes to wait only by what
\* starts the timer, or from where it ran.
CellOf(t, running) ==
  t # Illegal => /\ t.next \in State /\ t.actions \subseteq Action
                 /\ Waits(t.next) => Arms(t.actions) \/ running

LEMMA ToFields ==
  \A actions, next : /\ To(actions, next).actions = actions /\ To(actions, next).next = next
                     /\ next # "-" => To(actions, next) # Illegal
BY DEF To, Illegal

LEMMA RowFields ==
  ASSUME NEW a, NEW b, NEW c, NEW d, NEW e, NEW f, NEW g, NEW h, NEW i, NEW j
  PROVE  LET r == Row(a, b, c, d, e, f, g, h, i, j) IN
         /\ r["Initial"] = a /\ r["Starting"] = b /\ r["Closed"] = c /\ r["Stopped"] = d
         /\ r["Closing"] = e /\ r["Stopping"] = f /\ r["ReqSent"] = g /\ r["AckRcvd"] = h
         /\ r["AckSent"] = i /\ r["Opened"] = j
BY DEF Row

\* The states that wait are the ones from Closing to AckSent.
LEMMA WaitsWhere ==
  \A state \in State :
    Waits(state) <=> state \in {"Closing", "Stopping", "ReqSent", "AckRcvd", "AckSent"}
BY RowFields, ToFields DEF Waits, State, TimeoutWithRestarts, Crossed

LEMMA CellTo ==
  ASSUME NEW actions \in SUBSET Action, NEW next \in State, NEW running,
         Waits(next) => Arms(actions) \/ running
  PROVE  CellOf(To(actions, next), running)
BY ToFields DEF CellOf

LEMMA RowCells ==
  ASSUME NEW a, NEW b, NEW c, NEW d, NEW e, NEW f, NEW g, NEW h, NEW i, NEW j,
         CellOf(a, FALSE), CellOf(b, FALSE), CellOf(c, FALSE), CellOf(d, FALSE),
         CellOf(e, TRUE), CellOf(f, TRUE), CellOf(g, TRUE), CellOf(h, TRUE), CellOf(i, TRUE),
         CellOf(j, FALSE)
  PROVE  \A state \in State : CellOf(Row(a, b, c, d, e, f, g, h, i, j)[state], Waits(state))
<1>. DEFINE r == Row(a, b, c, d, e, f, g, h, i, j)
<1>0. /\ r["Initial"] = a /\ r["Starting"] = b /\ r["Closed"] = c /\ r["Stopped"] = d
      /\ r["Closing"] = e /\ r["Stopping"] = f /\ r["ReqSent"] = g /\ r["AckRcvd"] = h
      /\ r["AckSent"] = i /\ r["Opened"] = j
  BY RowFields
<1>. HIDE DEF r
<1>1. \A state \in {"Initial", "Starting", "Closed", "Stopped", "Opened"} : CellOf(r[state], FALSE)
  BY <1>0
<1>2. \A state \in {"Closing", "Stopping", "ReqSent", "AckRcvd", "AckSent"} :
        CellOf(r[state], TRUE)
  BY <1>0
<1>3. \A state \in State : CellOf(r[state], Waits(state))
  BY <1>1, <1>2, WaitsWhere DEF State, CellOf
<1>. QED
  BY <1>3 DEF r

\* The cells the rows are made of, by where they may stand.
LEMMA StillCells ==
  /\ \A running : CellOf(Illegal, running)
  /\ \A state \in State : CellOf(Go(state), TRUE) /\ (~Waits(state) => CellOf(Go(state), FALSE))
BY CellTo DEF CellOf, Go

LEMMA UpCells == \A state \in State : CellOf(Up[state], Waits(state))
BY RowCells, StillCells, CellTo, WaitsWhere DEF Up, Asked, Arms, State, Action

LEMMA DownCells == \A state \in State : CellOf(Down[state], Waits(state))
BY RowCells, StillCells, CellTo, WaitsWhere DEF Down, Dropped, Arms, State, Action

LEMMA OpenCells == \A state \in State : CellOf(Open[state], Waits(state))
BY RowCells, StillCells, CellTo, WaitsWhere DEF Open, Asked, Arms, State, Action

LEMMA CloseCells == \A state \in State : CellOf(Close[state], Waits(state))
BY RowCells, StillCells, CellTo, WaitsWhere DEF Close, Ended, Arms, State, Action

LEMMA RequestGoodCells == \A state \in State : CellOf(RequestGood[state], Waits(state))
BY RowCells, StillCells, CellTo, WaitsWhere DEF RequestGood, Refused, Arms, State, Action

LEMMA RequestBadCells == \A state \in State : CellOf(RequestBad[state], Waits(state))
BY RowCells, StillCells, CellTo, WaitsWhere DEF RequestBad, Refused, Arms, State, Action

LEMMA ConfigureAckCells == \A state \in State : CellOf(ConfigureAck[state], Waits(state))
BY RowCells, StillCells, CellTo, WaitsWhere
   DEF ConfigureAck, Refused, Crossed, Reopened, Arms, State, Action

LEMMA ConfigureNakCells == \A state \in State : CellOf(ConfigureNak[state], Waits(state))
BY RowCells, StillCells, CellTo, WaitsWhere
   DEF ConfigureNak, Refused, Crossed, Reopened, Asked, Arms, State, Action

LEMMA TerminateRequestCells == \A state \in State : CellOf(TerminateRequest[state], Waits(state))
BY RowCells, StillCells, CellTo, WaitsWhere DEF TerminateRequest, Refused, Arms, State, Action

LEMMA TerminateAckCells == \A state \in State : CellOf(TerminateAck[state], Waits(state))
BY RowCells, StillCells, CellTo, WaitsWhere
   DEF TerminateAck, Finished, Reopened, Arms, State, Action

LEMMA TimeoutRowCells ==
  ASSUME NEW a, NEW b, NEW c, NEW d, NEW e, NEW f, NEW g, NEW h, NEW i, NEW j,
         \A cell \in {a, b, c, d, e, f, g, h, i, j} : CellOf(cell, FALSE)
  PROVE  \A state \in State : CellOf(Row(a, b, c, d, e, f, g, h, i, j)[state], FALSE)
<1>. DEFINE r == Row(a, b, c, d, e, f, g, h, i, j)
<1>1. /\ r["Initial"] = a /\ r["Starting"] = b /\ r["Closed"] = c /\ r["Stopped"] = d
      /\ r["Closing"] = e /\ r["Stopping"] = f /\ r["ReqSent"] = g /\ r["AckRcvd"] = h
      /\ r["AckSent"] = i /\ r["Opened"] = j
  BY RowFields
<1>. HIDE DEF r
<1>2. \A state \in State : CellOf(r[state], FALSE)
  BY <1>1 DEF State
<1>. QED
  BY <1>2 DEF r

LEMMA TimeoutCells ==
  \A state \in State : /\ CellOf(TimeoutWithRestarts[state], FALSE)
                       /\ CellOf(TimeoutNoRestarts[state], FALSE)
                       /\ Waits(state) => TimeoutWithRestarts[state] # Illegal
                                          /\ TimeoutNoRestarts[state] # Illegal
<1>1. \A state \in State : CellOf(TimeoutWithRestarts[state], FALSE)
  <2>1. /\ CellOf(Illegal, FALSE) /\ CellOf(Crossed, FALSE)
        /\ CellOf(To({"str"}, "Closing"), FALSE) /\ CellOf(To({"str"}, "Stopping"), FALSE)
        /\ CellOf(To({"scr"}, "AckSent"), FALSE)
    BY StillCells, CellTo DEF Crossed, Arms, State, Action
  <2>. QED
    BY <2>1, TimeoutRowCells DEF TimeoutWithRestarts
<1>2. \A state \in State : CellOf(TimeoutNoRestarts[state], FALSE)
  <2>1. CellOf(Illegal, FALSE) /\ CellOf(Finished, FALSE) /\ CellOf(To({"tlf"}, "Closed"), FALSE)
    BY StillCells, CellTo, WaitsWhere DEF Finished, State, Action
  <2>. QED
    BY <2>1, TimeoutRowCells DEF TimeoutNoRestarts
<1>3. \A state \in State : Waits(state) => TimeoutWithRestarts[state] # Illegal
  BY DEF Waits
<1>4. \A state \in State : Waits(state) => TimeoutNoRestarts[state] # Illegal
  BY RowFields, ToFields, WaitsWhere DEF TimeoutNoRestarts, Finished
<1>. QED
  BY <1>1, <1>2, <1>3, <1>4

LEMMA Cells == \A event \in Ordinary : \A state \in State : CellOf(event[state], Waits(state))
BY UpCells, DownCells, OpenCells, CloseCells, RequestGoodCells, RequestBadCells,
   ConfigureAckCells, ConfigureNakCells, TerminateRequestCells, TerminateAckCells
   DEF Ordinary, Passive

-----------------------------------------------------------------------------
(* perform and fire.                                                       *)

\* A session that waits has its timer running, and no other has.
Timed(s) == s \in Session /\ (s.timer <=> Waits(s.state))

LEMMA OptionsType ==
  /\ NoOptions \in Options /\ Nobody \notin [id : Id, options : Options]
  /\ \A p \in Lcp \cup Ipcp : RequestOptions(p) \in Options
<1>1. NoOptions \in Options
  BY DEF NoOptions, Options, Method
<1>2. Nobody.id = -1
  BY DEF Nobody
<1>3. Nobody \notin [id : Id, options : Options]
  BY <1>2 DEF Id
<1>4. \A p \in Lcp : RequestOptions(p) \in Options
  BY <1>1 DEF RequestOptions, Lcp, Options
<1>5. \A p \in Ipcp : RequestOptions(p) \in Options
  BY <1>1 DEF RequestOptions, Ipcp, Options
<1>. QED
  BY <1>1, <1>3, <1>4, <1>5

LEMMA IdType == \A n \in Nat : n % IdModulus \in Id
BY SessionLimits DEF Id

LEMMA SendType ==
  ASSUME NEW s \in Session, NEW code \in Code, NEW id \in Id, NEW options \in Options
  PROVE  /\ Send(s, code, id, options) \in Session
         /\ Send(s, code, id, options).state = s.state
         /\ Send(s, code, id, options).timer = s.timer
         /\ Send(s, code, id, options).protocol = s.protocol
         /\ Send(s, code, id, options).reports = s.reports
<1>. DEFINE m == [code |-> code, id |-> id, options |-> options]
<1>1. m \in Message /\ s.out \in Seq(Message)
  BY DEF Message, Session
<1>2. Append(s.out, m) \in Seq(Message)
  BY <1>1
<1>. HIDE DEF m
<1>3. Send(s, code, id, options) = [s EXCEPT !.out = Append(s.out, m)]
  BY DEF Send, m, Session
<1>. QED
  BY <1>2, <1>3 DEF Session

LEMMA CountType ==
  ASSUME NEW s \in Session, NEW actions
  PROVE  /\ Count(s, actions) \in Session /\ Count(s, actions).state = s.state
         /\ Count(s, actions).protocol = s.protocol /\ Count(s, actions).reports = s.reports
         /\ (s.timer \/ ("zrc" \in actions /\ "irc" \notin actions)) => Count(s, actions).timer
BY SessionLimits DEF Count, Session

LEMMA AskingType ==
  ASSUME NEW s \in Session, NEW code \in Code, NEW options \in Options
  PROVE  /\ Asking(s, code, options) \in Session /\ Asking(s, code, options).state = s.state
         /\ Asking(s, code, options).protocol = s.protocol
         /\ Asking(s, code, options).reports = s.reports
         /\ Asking(s, code, options).timer
<1>. DEFINE d == Send(s, code, s.next_id, options)
            next == (s.next_id + 1) % IdModulus
            less == IF d.restarts > 0 THEN d.restarts - 1 ELSE 0
<1>1. s.next_id \in Id /\ s.next_id + 1 \in Nat
  BY DEF Session, Id
<1>2. d \in Session /\ d.state = s.state /\ d.protocol = s.protocol /\ d.reports = s.reports
  BY <1>1, SendType
<1>3. next \in Id
  BY <1>1, IdType
<1>4. less \in Nat
  BY <1>2 DEF Session
<1>5. Asking(s, code, options) = [d EXCEPT !.id = s.next_id, !.next_id = next,
                                           !.restarts = less, !.timer = TRUE]
  BY <1>2 DEF Asking, Session
<1>. HIDE DEF d, next, less
<1>. QED
  BY <1>1, <1>2, <1>3, <1>4, <1>5 DEF Session

LEMMA AskType ==
  ASSUME NEW s \in Session, NEW actions
  PROVE  /\ Ask(s, actions) \in Session /\ Ask(s, actions).state = s.state
         /\ Ask(s, actions).protocol = s.protocol /\ Ask(s, actions).reports = s.reports
         /\ (s.timer \/ "scr" \in actions \/ "str" \in actions) => Ask(s, actions).timer
<1>1. RequestOptions(s.protocol) \in Options /\ NoOptions \in Options
  BY OptionsType DEF Session
<1>. QED
  BY <1>1, AskingType DEF Ask, Code

LEMMA AnswerType ==
  ASSUME NEW s \in Session, NEW actions
  PROVE  /\ Answer(s, actions) \in Session /\ Answer(s, actions).state = s.state
         /\ Answer(s, actions).protocol = s.protocol /\ Answer(s, actions).reports = s.reports
         /\ Answer(s, actions).timer = s.timer
<1>. DEFINE d == [s EXCEPT !.answering = Nobody]
<1>1. /\ d \in Session /\ d.state = s.state /\ d.protocol = s.protocol
      /\ d.reports = s.reports /\ d.timer = s.timer
  BY DEF Session
<1>. HIDE DEF d
<1>2. s.id \in Id /\ s.answering \in [id : Id, options : Options] \cup {Nobody}
  BY DEF Session
<1>3. s.answering # Nobody => s.answering.id \in Id /\ s.answering.options \in Options
  BY <1>2
<1>4. AnswerCode(s, actions) \in Code
  BY DEF AnswerCode, Code
<1>5. Answer(s, actions) =
        IF "sta" \in actions
        THEN Send(d, "TerminateAck",
                  IF s.answering = Nobody THEN s.id ELSE s.answering.id, NoOptions)
        ELSE IF actions \cap {"sca", "scn"} # {} /\ s.answering # Nobody
        THEN Send(d, AnswerCode(s, actions), s.answering.id, s.answering.options)
        ELSE s
  BY DEF Answer, d
<1>6. CASE "sta" \in actions
  <2>. DEFINE id == IF s.answering = Nobody THEN s.id ELSE s.answering.id
  <2>1. id \in Id /\ "TerminateAck" \in Code /\ NoOptions \in Options
    BY <1>2, <1>3, OptionsType DEF Code
  <2>2. Answer(s, actions) = Send(d, "TerminateAck", id, NoOptions)
    BY <1>5, <1>6
  <2>. HIDE DEF id
  <2>. QED
    BY <1>1, <2>1, <2>2, SendType
<1>7. CASE "sta" \notin actions /\ actions \cap {"sca", "scn"} # {} /\ s.answering # Nobody
  BY <1>1, <1>3, <1>4, <1>5, <1>7, SendType
<1>8. CASE "sta" \notin actions /\ ~(actions \cap {"sca", "scn"} # {} /\ s.answering # Nobody)
  BY <1>5, <1>8
<1>. QED
  BY <1>6, <1>7, <1>8

LEMMA ReportedType == \A actions : Reported(actions) \in Seq({"Up", "Down", "Started", "Finished"})
<1>1. \A report \in {"Up", "Down", "Started", "Finished"} :
        <<report>> \in Seq({"Up", "Down", "Started", "Finished"})
  OBVIOUS
<1>2. <<>> \in Seq({"Up", "Down", "Started", "Finished"})
  OBVIOUS
<1>. QED
  BY <1>1, <1>2 DEF Reported

LEMMA FireType ==
  ASSUME NEW s \in Session, NEW event, NEW running, CellOf(event[s.state], running),
         running => s.timer, event[s.state] = Illegal => Timed(s)
  PROVE  Timed(Fire(s, event)) /\ Fire(s, event).protocol = s.protocol
<1>. DEFINE t == event[s.state]
            asked == Ask(Count(s, t.actions), t.actions)
            done == Answer(asked, t.actions)
            reported == done.reports \o Reported(t.actions)
<1>. SUFFICES ASSUME t # Illegal
              PROVE  Timed(Fire(s, event)) /\ Fire(s, event).protocol = s.protocol
  BY DEF Fire
<1>1. t.next \in State /\ (Waits(t.next) => Arms(t.actions) \/ running)
  BY DEF CellOf
<1>2. /\ done \in Session /\ done.protocol = s.protocol
      /\ s.timer \/ Arms(t.actions) => done.timer
  BY CountType, AskType, AnswerType DEF Arms
<1>3. reported \in Seq({"Up", "Down", "Started", "Finished"})
  <2>1. done.reports \in Seq({"Up", "Down", "Started", "Finished"})
    BY <1>2 DEF Session
  <2>2. Reported(t.actions) \in Seq({"Up", "Down", "Started", "Finished"})
    BY ReportedType
  <2>. HIDE DEF done, t
  <2>. QED
    BY <2>1, <2>2, ConcatProperties
<1>4. Fire(s, event) = [done EXCEPT !.state = t.next, !.timer = done.timer /\ Waits(t.next),
                                    !.reports = reported]
  BY <1>2 DEF Fire, Session
<1>. HIDE DEF done, reported, t
<1>5. done.timer \in BOOLEAN /\ Waits(t.next) \in BOOLEAN
  BY <1>2 DEF Session, Waits
<1>6. (done.timer /\ Waits(t.next)) <=> Waits(t.next)
  BY <1>1, <1>2
<1>. QED
  BY <1>1, <1>2, <1>3, <1>4, <1>5, <1>6 DEF Session, Timed

\* A legal event, and what becomes of the session.
LEMMA FireShape ==
  ASSUME NEW s \in Session, NEW event, event[s.state] # Illegal
  PROVE  LET t == event[s.state]
             u == Fire(s, event)
             asked == Ask(Count(s, t.actions), t.actions)
         IN  /\ u.state = t.next /\ u.protocol = s.protocol
             /\ u.reports = s.reports \o Reported(t.actions)
             /\ u.out = Answer(asked, t.actions).out
             /\ asked \in Session
<1>. DEFINE t     == event[s.state]
            asked == Ask(Count(s, t.actions), t.actions)
            done  == Answer(asked, t.actions)
            reported == done.reports \o Reported(t.actions)
<1>1. asked \in Session /\ asked.protocol = s.protocol /\ asked.reports = s.reports
  BY CountType, AskType
<1>. HIDE DEF t, asked
<1>2. done \in Session /\ done.protocol = s.protocol /\ done.reports = s.reports
  BY <1>1, AnswerType
<1>3. Fire(s, event) = [done EXCEPT !.state = t.next, !.timer = done.timer /\ Waits(t.next),
                                    !.reports = reported]
  BY <1>2 DEF Fire, Session, t, asked
<1>. HIDE DEF done
<1>4. /\ Fire(s, event).state = t.next /\ Fire(s, event).protocol = s.protocol
      /\ Fire(s, event).reports = s.reports \o Reported(t.actions)
      /\ Fire(s, event).out = done.out
  BY <1>2, <1>3 DEF Session
<1>. QED
  BY <1>1, <1>4 DEF t, asked, done

\* One event makes for one report at most.
OneMore(s, u) == Len(u.reports) <= Len(s.reports) + 1

LEMMA FireReports ==
  ASSUME NEW s \in Session, NEW event
  PROVE  OneMore(s, Fire(s, event))
<1>0. Len(s.reports) \in Nat /\ s.reports \in Seq({"Up", "Down", "Started", "Finished"})
  BY DEF Session
<1>1. CASE event[s.state] = Illegal
  BY <1>0, <1>1 DEF Fire, OneMore
<1>2. CASE event[s.state] # Illegal
  <2>. DEFINE r == Reported(event[s.state].actions)
  <2>1. Fire(s, event).reports = s.reports \o r
    BY <1>2, FireShape
  <2>2. r \in Seq({"Up", "Down", "Started", "Finished"}) /\ Len(r) <= 1
    BY ReportedType DEF Reported
  <2>. HIDE DEF r
  <2>. QED
    BY <1>0, <2>1, <2>2 DEF OneMore
<1>. QED
  BY <1>1, <1>2

LEMMA OrdinaryFire ==
  ASSUME NEW s, Timed(s), NEW event \in Ordinary
  PROVE  Timed(Fire(s, event)) /\ Fire(s, event).protocol = s.protocol
<1>1. s \in Session /\ s.state \in State
  BY DEF Timed, Session
<1>2. CellOf(event[s.state], Waits(s.state))
  BY <1>1, Cells
<1>. QED
  BY <1>1, <1>2, FireType DEF Timed

LEMMA ExpireKeeps ==
  ASSUME NEW s, Timed(s)
  PROVE  Timed(Expire(s)) /\ Expire(s).protocol = s.protocol
<1>. SUFFICES ASSUME s.timer
              PROVE  Timed(Expire(s)) /\ Expire(s).protocol = s.protocol
  BY DEF Expire
<1>. DEFINE d == [s EXCEPT !.timer = FALSE]
            event == IF s.restarts > 0 THEN TimeoutWithRestarts ELSE TimeoutNoRestarts
<1>1. s \in Session /\ s.state \in State /\ Waits(s.state)
  BY DEF Timed, Session
<1>2. d \in Session /\ d.state = s.state /\ d.protocol = s.protocol
  BY <1>1 DEF Session
<1>3. CellOf(event[s.state], FALSE) /\ event[s.state] # Illegal
  BY <1>1, TimeoutCells
<1>. HIDE DEF d, event
<1>4. Timed(Fire(d, event)) /\ Fire(d, event).protocol = d.protocol
  BY <1>2, <1>3, FireType
<1>. QED
  BY <1>2, <1>4 DEF Expire, d, event

Shut(s) == s.state = "Initial" /\ s.reports = <<>>

LEMMA PassiveCells == \A event \in Passive : event["Initial"] \in {Illegal, Go("Initial")}
BY RowFields DEF Passive, Down, Close, RequestGood, RequestBad, ConfigureAck, ConfigureNak,
                 TerminateRequest, TerminateAck

LEMMA ShutFire ==
  ASSUME NEW s \in Session, Shut(s), NEW event, event["Initial"] \in {Illegal, Go("Initial")}
  PROVE  Shut(Fire(s, event))
<1>1. CASE event["Initial"] = Illegal
  BY <1>1 DEF Shut, Fire
<1>2. CASE event["Initial"] # Illegal
  <2>. DEFINE t == Go("Initial")
  <2>1. event[s.state] = t /\ t # Illegal /\ t.actions = {} /\ t.next = "Initial"
    BY <1>2, ToFields DEF Shut, Go
  <2>2. Count(s, {}) = s /\ Ask(s, {}) = s /\ Answer(s, {}) = s /\ Reported({}) = <<>>
    BY DEF Count, Ask, Answer, Reported
  <2>. HIDE DEF t
  <2>3. Fire(s, event) = [s EXCEPT !.state = "Initial", !.timer = s.timer /\ Waits("Initial"),
                                   !.reports = s.reports \o <<>>]
    BY <2>1, <2>2 DEF Fire, Session
  <2>4. s.reports \o <<>> = <<>>
    BY DEF Shut
  <2>. QED
    BY <2>3, <2>4 DEF Shut, Session
<1>. QED
  BY <1>1, <1>2

-----------------------------------------------------------------------------
(* review and receive.                                                     *)

\* What a session becomes when it is told of a packet: one of the same
\* protocol, which asks for the same proof.
Kin(p, q) == /\ p \in Lcp => q \in Lcp /\ q.wanted = p.wanted
             /\ p \in Ipcp => q \in Ipcp

LEMMA SetProtocol ==
  ASSUME NEW s, Timed(s), NEW p \in Lcp \cup Ipcp
  PROVE  /\ Timed([s EXCEPT !.protocol = p])
         /\ [s EXCEPT !.protocol = p].state = s.state
         /\ [s EXCEPT !.protocol = p].reports = s.reports
         /\ [s EXCEPT !.protocol = p].protocol = p
BY DEF Timed, Session

\* What review and receive note about the packet to be answered.
Noted(s, id, o, failures, reject) ==
  [s EXCEPT !.answering = [id |-> id, options |-> o], !.failures = failures,
            !.nak_is_reject = reject]

LEMMA SetAnswering ==
  ASSUME NEW s, Timed(s), NEW id \in Id, NEW o \in Options, NEW failures \in Nat,
         NEW reject \in BOOLEAN
  PROVE  /\ Timed(Noted(s, id, o, failures, reject))
         /\ Noted(s, id, o, failures, reject).state = s.state
         /\ Noted(s, id, o, failures, reject).reports = s.reports
         /\ Noted(s, id, o, failures, reject).protocol = s.protocol
BY DEF Timed, Session, Noted

LEMMA ProtocolsKin ==
  ASSUME NEW p \in Lcp \cup Ipcp, NEW o \in Options
  PROVE  /\ Agree(p, o) \in Lcp \cup Ipcp /\ Kin(p, Agree(p, o))
         /\ Acked(p, o) \in Lcp \cup Ipcp /\ Kin(p, Acked(p, o))
         /\ Naked(p, o) \in Lcp \cup Ipcp /\ Kin(p, Naked(p, o))
         /\ Rejected(p, o) \in Lcp \cup Ipcp /\ Kin(p, Rejected(p, o))
<1>1. CASE p \in Lcp
  BY <1>1 DEF Agree, Acked, Naked, Rejected, Kin, Lcp, Ipcp, Options
<1>2. CASE p \in Ipcp
  BY <1>2 DEF Agree, Acked, Naked, Rejected, Kin, Lcp, Ipcp, Options
<1>. QED
  BY <1>1, <1>2

\* A session fires an event after what it remembers has changed.
LEMMA FiresOn ==
  ASSUME NEW s, NEW d, Timed(d), d.state = s.state, d.reports = s.reports,
         Kin(s.protocol, d.protocol), NEW event \in Passive
  PROVE  /\ Timed(Fire(d, event)) /\ Kin(s.protocol, Fire(d, event).protocol)
         /\ Shut(s) => Shut(Fire(d, event))
         /\ OneMore(s, Fire(d, event))
<1>1. Timed(Fire(d, event)) /\ Fire(d, event).protocol = d.protocol
  BY OrdinaryFire DEF Ordinary
<1>2. event["Initial"] \in {Illegal, Go("Initial")}
  BY PassiveCells
<1>3. Shut(s) => Shut(Fire(d, event))
  BY <1>2, ShutFire DEF Shut, Timed
<1>4. OneMore(s, Fire(d, event))
  BY FireReports DEF OneMore, Timed
<1>. QED
  BY <1>1, <1>3, <1>4 DEF Kin

LEMMA KinSelf == \A p : Kin(p, p)
BY DEF Kin

LEMMA OnRequestKeeps ==
  ASSUME NEW s, Timed(s), NEW m \in Message
  PROVE  /\ Timed(OnRequest(s, m)) /\ Kin(s.protocol, OnRequest(s, m).protocol)
         /\ Shut(s) => Shut(OnRequest(s, m))
         /\ OneMore(s, OnRequest(s, m))
<1>. DEFINE p == s.protocol
            o == m.options
            q == OnRequest(s, m)
            Keeps(r) == Timed(r) /\ Kin(s.protocol, r.protocol) /\ (Shut(s) => Shut(r))
                          /\ OneMore(s, r)
<1>1. p \in Lcp \cup Ipcp /\ o \in Options /\ m.id \in Id /\ s.failures \in Nat
      /\ s.nak_is_reject \in BOOLEAN /\ s \in Session
  BY DEF Timed, Session, Message
<1>2. ASSUME NEW options \in Options, NEW reject \in BOOLEAN, NEW failures \in Nat
      PROVE  Keeps(Bad([s EXCEPT !.failures = failures], m, options, reject))
  <2>. DEFINE d == Noted(s, m.id, options, failures, reject)
  <2>1. Timed(d) /\ d.state = s.state /\ d.reports = s.reports /\ d.protocol = s.protocol
    BY <1>1, SetAnswering
  <2>2. Bad([s EXCEPT !.failures = failures], m, options, reject) = Fire(d, RequestBad)
    <3>1. d = [[s EXCEPT !.failures = failures]
                 EXCEPT !.answering = [id |-> m.id, options |-> options],
                        !.nak_is_reject = reject]
      BY <1>1 DEF Session, Noted
    <3>. QED
      BY <3>1 DEF Bad
  <2>. HIDE DEF d
  <2>. QED
    BY <2>1, <2>2, FiresOn, KinSelf DEF Passive
<1>3. s = [s EXCEPT !.failures = s.failures]
  BY <1>1 DEF Session
<1>11. ASSUME NEW options \in Options, NEW reject \in BOOLEAN
       PROVE  Keeps(Bad(s, m, options, reject))
  <2>. DEFINE same == [s EXCEPT !.failures = s.failures]
  <2>1. Keeps(Bad(same, m, options, reject))
    BY <1>1, <1>2
  <2>2. same = s
    BY <1>3
  <2>. HIDE DEF same
  <2>. QED
    BY <2>1, <2>2
<1>4. /\ [NoOptions EXCEPT !.compression = TRUE] \in Options
      /\ \A address \in Address \cup {"absent"} : [NoOptions EXCEPT !.address = address] \in Options
  BY DEF Options, NoOptions, Method
<1>5. Naks(p, o) => p.remote \in Address
  BY <1>1 DEF Naks, Ipcp, Lcp
<1>6. o.address \in Address \cup {"absent"}
  BY <1>1 DEF Options
<1>7. CASE Rejects(p, o)
  <2>1. q = Bad(s, m, [NoOptions EXCEPT !.compression = TRUE], TRUE)
    BY <1>7 DEF OnRequest
  <2>. QED
    BY <1>4, <1>11, <2>1
<1>8. CASE ~Rejects(p, o) /\ Naks(p, o) /\ s.failures >= MaxFailure
  <2>0. [NoOptions EXCEPT !.address = o.address] \in Options
    BY <1>4, <1>6
  <2>1. q = Bad(s, m, [NoOptions EXCEPT !.address = o.address], TRUE)
    BY <1>8 DEF OnRequest
  <2>. QED
    BY <2>0, <1>11, <2>1
<1>9. CASE ~Rejects(p, o) /\ Naks(p, o) /\ ~(s.failures >= MaxFailure)
  <2>1. q = Bad([s EXCEPT !.failures = s.failures + 1], m,
                [NoOptions EXCEPT !.address = p.remote], FALSE)
    BY <1>1, <1>9 DEF OnRequest, Session
  <2>2. [NoOptions EXCEPT !.address = p.remote] \in Options /\ s.failures + 1 \in Nat
    BY <1>1, <1>4, <1>5, <1>9
  <2>. QED
    BY <1>2, <2>1, <2>2
<1>10. CASE ~Rejects(p, o) /\ ~Naks(p, o)
  <2>. DEFINE d == Noted(s, m.id, o, 0, s.nak_is_reject)
              e == [d EXCEPT !.protocol = Agree(p, o)]
  <2>1. Timed(d) /\ d.state = s.state /\ d.reports = s.reports /\ d.protocol = s.protocol
    BY <1>1, SetAnswering
  <2>2. e = [s EXCEPT !.protocol = Agree(p, o), !.failures = 0,
                      !.answering = [id |-> m.id, options |-> o]]
    BY <1>1 DEF Session, Noted
  <2>3. q = Fire(e, RequestGood)
    BY <1>10, <2>2 DEF OnRequest
  <2>4. Agree(p, o) \in Lcp \cup Ipcp /\ Kin(p, Agree(p, o))
    BY <1>1, ProtocolsKin
  <2>. HIDE DEF d
  <2>5. Timed(e) /\ e.state = s.state /\ e.reports = s.reports /\ Kin(s.protocol, e.protocol)
    BY <2>1, <2>4, SetProtocol
  <2>. HIDE DEF e
  <2>. QED
    BY <2>3, <2>5, FiresOn DEF Passive
<1>. QED
  BY <1>7, <1>8, <1>9, <1>10

LEMMA ReceiveKeeps ==
  ASSUME NEW s, Timed(s), NEW m \in Message
  PROVE  /\ Timed(Receive(s, m)) /\ Kin(s.protocol, Receive(s, m).protocol)
         /\ Shut(s) => Shut(Receive(s, m))
         /\ OneMore(s, Receive(s, m))
<1>. DEFINE Keeps(r) == Timed(r) /\ Kin(s.protocol, r.protocol) /\ (Shut(s) => Shut(r))
                          /\ OneMore(s, r)
<1>1. s.protocol \in Lcp \cup Ipcp /\ m.options \in Options /\ m.id \in Id /\ m.code \in Code
      /\ s \in Session /\ NoOptions \in Options
  BY OptionsType DEF Timed, Session, Message
<1>2. Keeps(s)
  <2>1. OneMore(s, s)
    BY <1>1 DEF OneMore, Session
  <2>. QED
    BY <2>1, KinSelf
<1>3. ASSUME NEW p \in Lcp \cup Ipcp, Kin(s.protocol, p), NEW event \in Passive
      PROVE  Keeps(Fire([s EXCEPT !.protocol = p], event))
  <2>. DEFINE d == [s EXCEPT !.protocol = p]
  <2>1. Timed(d) /\ d.state = s.state /\ d.reports = s.reports /\ d.protocol = p
    BY <1>3, SetProtocol
  <2>. HIDE DEF d
  <2>2. Keeps(Fire(d, event))
    BY <1>3, <2>1, FiresOn
  <2>. QED
    BY <2>2 DEF d
<1>4. Keeps(OnRequest(s, m))
  BY OnRequestKeeps
<1>5. Keeps(OnAck(s, m))
  <2>1. OnAck(s, m) = IF m.id # s.id THEN s
                      ELSE Fire([s EXCEPT !.protocol = Acked(s.protocol, m.options)], ConfigureAck)
    BY <1>1 DEF OnAck, Session
  <2>. QED
    BY <1>1, <1>2, <1>3, <2>1, ProtocolsKin DEF Passive
<1>6. Keeps(OnNak(s, m))
  <2>. DEFINE p == IF m.code = "Nak" THEN Naked(s.protocol, m.options)
                   ELSE Rejected(s.protocol, m.options)
  <2>1. OnNak(s, m) = IF m.id # s.id THEN s ELSE Fire([s EXCEPT !.protocol = p], ConfigureNak)
    BY <1>1 DEF OnNak, Session
  <2>2. p \in Lcp \cup Ipcp /\ Kin(s.protocol, p)
    BY <1>1, ProtocolsKin
  <2>. HIDE DEF p
  <2>. QED
    BY <1>2, <1>3, <2>1, <2>2 DEF Passive
<1>7. Keeps(OnTerminateRequest(s, m))
  <2>. DEFINE d == Noted(s, m.id, NoOptions, s.failures, s.nak_is_reject)
  <2>1. s.failures \in Nat /\ s.nak_is_reject \in BOOLEAN
    BY <1>1 DEF Session
  <2>2. Timed(d) /\ d.state = s.state /\ d.reports = s.reports /\ d.protocol = s.protocol
    BY <1>1, <2>1, SetAnswering
  <2>3. d = [s EXCEPT !.answering = [id |-> m.id, options |-> NoOptions]]
    BY <1>1 DEF Session, Noted
  <2>4. OnTerminateRequest(s, m) = Fire(d, TerminateRequest)
    BY <2>3 DEF OnTerminateRequest
  <2>. HIDE DEF d
  <2>. QED
    BY <2>2, <2>4, FiresOn, KinSelf DEF Passive
<1>8. Keeps(Fire(s, TerminateAck))
  BY FiresOn, KinSelf DEF Passive
<1>9. m.code = "Request" => Receive(s, m) = OnRequest(s, m)
  BY DEF Receive
<1>10. m.code = "Ack" => Receive(s, m) = OnAck(s, m)
  BY DEF Receive
<1>11. m.code \in {"Nak", "Reject"} => Receive(s, m) = OnNak(s, m)
  BY DEF Receive
<1>12. m.code = "TerminateRequest" => Receive(s, m) = OnTerminateRequest(s, m)
  BY DEF Receive
<1>13. m.code = "TerminateAck" => Receive(s, m) = Fire(s, TerminateAck)
  BY DEF Receive
<1>. QED
  BY <1>1, <1>4, <1>5, <1>6, <1>7, <1>8, <1>9, <1>10, <1>11, <1>12, <1>13 DEF Code

-----------------------------------------------------------------------------
(* The two ends of an authentication.                                      *)

\* What an end with this account sends: the account is its own.
PacketOf(account) == {m \in AuthPacket : m.account \in {"none", account}}

ProverOf(account) == {p \in Prover : p.account = account /\ p.out \in Seq(PacketOf(account))}

\* The end that checks has let nobody in, if nobody is to be let in.
CheckerOf(barred, account) ==
  {a \in Authenticator : a.out \in Seq(PacketOf(account))
                         /\ (barred => a.verdict # "yes" /\ a.outcome # "Passed")}

LEMMA PacketType ==
  ASSUME NEW account \in Account, NEW code \in PacketCode, NEW id \in Nat
  PROVE  /\ Packet(code, id, account) \in PacketOf(account)
         /\ \A other : Packet(code, id, "none") \in PacketOf(other)
BY DEF Packet, PacketOf, AuthPacket

LEMMA PacketsType ==
  ASSUME NEW account, NEW out \in Seq(PacketOf(account))
  PROVE  out \in Seq(AuthPacket)
<1>1. PacketOf(account) \subseteq AuthPacket
  BY DEF PacketOf
<1>. QED
  BY <1>1

LEMMA SetProverOut ==
  ASSUME NEW account, NEW p \in ProverOf(account), NEW m \in PacketOf(account)
  PROVE  /\ Append(p.out, m) \in Seq(PacketOf(account))
         /\ Append(p.out, m) \in Seq(AuthPacket)
<1>1. p.out \in Seq(PacketOf(account))
  BY DEF ProverOf
<1>2. Append(p.out, m) \in Seq(PacketOf(account))
  BY <1>1
<1>. QED
  BY <1>2, PacketsType

LEMMA SendRequestKeeps ==
  ASSUME NEW account \in Account, NEW p \in ProverOf(account)
  PROVE  SendRequest(p) \in ProverOf(account)
<1>. DEFINE m == Packet("AuthenticateRequest", p.id + 1, p.account)
            out == Append(p.out, m)
<1>1. p \in Prover /\ p.account = account /\ p.id + 1 \in Nat /\ p.tries + 1 \in Nat
  BY DEF ProverOf, Prover
<1>2. m \in PacketOf(account)
  BY <1>1, PacketType DEF PacketCode
<1>3. out \in Seq(PacketOf(account)) /\ out \in Seq(AuthPacket)
  BY <1>2, SetProverOut
<1>4. SendRequest(p) = [p EXCEPT !.id = p.id + 1, !.tries = p.tries + 1, !.out = out]
  BY <1>1 DEF SendRequest, Prover
<1>. HIDE DEF out
<1>. QED
  BY <1>1, <1>3, <1>4 DEF ProverOf, Prover

LEMMA NewProverKeeps ==
  ASSUME NEW account \in Account, NEW method \in {"Pap", "Chap"}
  PROVE  NewProver(method, account) \in ProverOf(account)
<1>. DEFINE tries == IF method = "Pap" THEN 0 ELSE 1
            p == [method |-> method, account |-> account, id |-> 0, tries |-> tries,
                  answered |-> {}, outcome |-> "Waiting", out |-> <<>>]
<1>1. tries \in Nat
  OBVIOUS
<1>2. <<>> \in Seq(AuthPacket) /\ <<>> \in Seq(PacketOf(account)) /\ {} \in SUBSET Nat
  OBVIOUS
<1>3. NewProver(method, account) = IF method = "Pap" THEN SendRequest(p) ELSE p
  BY DEF NewProver
<1>. HIDE DEF tries
<1>4. p \in Prover
  BY <1>1, <1>2 DEF Prover, Outcome
<1>5. p \in ProverOf(account)
  BY <1>2, <1>4 DEF ProverOf
<1>. HIDE DEF p
<1>. QED
  BY <1>3, <1>5, SendRequestKeeps

LEMMA ProverWaitedKeeps ==
  ASSUME NEW account \in Account, NEW p \in ProverOf(account)
  PROVE  ProverWaited(p) \in ProverOf(account)
<1>1. p \in ProverOf(account)
  OBVIOUS
<1>2. [p EXCEPT !.outcome = "Failed"] \in ProverOf(account)
  BY <1>1 DEF ProverOf, Prover, Outcome
<1>. DEFINE outcome == IF p.tries + 1 >= Tries THEN "Failed" ELSE p.outcome
            later   == [p EXCEPT !.tries = p.tries + 1, !.outcome = outcome]
<1>3. outcome \in Outcome /\ p.tries + 1 \in Nat /\ (outcome = p.outcome \/ outcome = "Failed")
  BY <1>1 DEF ProverOf, Prover, Outcome
<1>4. later = [p EXCEPT !.tries = @ + 1,
                         !.outcome = IF p.tries + 1 >= Tries THEN "Failed" ELSE @]
  BY <1>1 DEF ProverOf, Prover
<1>. HIDE DEF outcome
<1>5. later \in ProverOf(account)
  BY <1>1, <1>3 DEF ProverOf, Prover
<1>. HIDE DEF later
<1>. QED
  BY <1>1, <1>2, <1>4, <1>5, SendRequestKeeps DEF ProverWaited

LEMMA ProverReceivesKeeps ==
  ASSUME NEW account \in Account, NEW p \in ProverOf(account), NEW m \in AuthPacket,
         m.code \notin ForChecker
  PROVE  ProverReceives(p, m) \in ProverOf(account)
<1>1. m.id \in Nat /\ m.code \in PacketCode /\ p.account = account
  BY DEF AuthPacket, ProverOf
<1>2. OnPapReply(p, m) \in ProverOf(account)
  BY DEF OnPapReply, ProverOf, Prover, Outcome
<1>3. OnVerdict(p, m) \in ProverOf(account)
  BY DEF OnVerdict, ProverOf, Prover, Outcome
<1>4. OnChallenge(p, m) \in ProverOf(account)
  <2>. DEFINE out == Append(p.out, Packet("Response", m.id, p.account))
  <2>1. out \in Seq(PacketOf(account)) /\ out \in Seq(AuthPacket)
    BY <1>1, PacketType, SetProverOut DEF PacketCode
  <2>2. OnChallenge(p, m) = [p EXCEPT !.answered = p.answered \cup {m.id}, !.out = out]
    BY DEF OnChallenge, ProverOf, Prover
  <2>. HIDE DEF out
  <2>3. p.answered \cup {m.id} \in SUBSET Nat
    BY <1>1 DEF ProverOf, Prover
  <2>. QED
    BY <1>1, <2>1, <2>2, <2>3 DEF ProverOf, Prover
<1>5. m.code \in {"AuthenticateAck", "AuthenticateNak"} => ProverReceives(p, m) = OnPapReply(p, m)
  BY DEF ProverReceives
<1>6. m.code = "Challenge" => ProverReceives(p, m) = OnChallenge(p, m)
  BY DEF ProverReceives
<1>7. m.code \in {"Success", "Failure"} => ProverReceives(p, m) = OnVerdict(p, m)
  BY DEF ProverReceives
<1>. QED
  BY <1>1, <1>2, <1>3, <1>4, <1>5, <1>6, <1>7 DEF PacketCode, ForChecker

CheckerSays(a, id, tries, m) ==
  [a EXCEPT !.id = id, !.tries = tries, !.out = Append(a.out, m)]

LEMMA SetCheckerOut ==
  ASSUME NEW barred, NEW account, NEW a \in CheckerOf(barred, account), NEW id \in Nat,
         NEW tries \in Nat, NEW m \in PacketOf(account)
  PROVE  CheckerSays(a, id, tries, m) \in CheckerOf(barred, account)
<1>. DEFINE out == Append(a.out, m)
<1>1. a.out \in Seq(PacketOf(account))
  BY DEF CheckerOf
<1>2. out \in Seq(PacketOf(account))
  BY <1>1
<1>. HIDE DEF out
<1>4. out \in Seq(AuthPacket)
  BY <1>2, PacketsType
<1>3. [a EXCEPT !.id = id, !.tries = tries, !.out = out] \in CheckerOf(barred, account)
  BY <1>2, <1>4 DEF CheckerOf, Authenticator
<1>. QED
  BY <1>3 DEF out, CheckerSays

LEMMA SendChallengeKeeps ==
  ASSUME NEW barred, NEW account, NEW a \in CheckerOf(barred, account)
  PROVE  SendChallenge(a) \in CheckerOf(barred, account)
<1>. DEFINE m == Packet("Challenge", a.id + 1, "none")
<1>1. a \in Authenticator /\ a.id + 1 \in Nat /\ a.tries + 1 \in Nat
  BY DEF CheckerOf, Authenticator
<1>2. m \in PacketOf(account)
  BY <1>1, PacketType DEF PacketCode, Account
<1>3. SendChallenge(a) = CheckerSays(a, a.id + 1, a.tries + 1, m)
  BY <1>1 DEF SendChallenge, Authenticator, CheckerSays
<1>. HIDE DEF m
<1>. QED
  BY <1>1, <1>2, <1>3, SetCheckerOut

LEMMA NewAuthenticatorKeeps ==
  ASSUME NEW barred, NEW account, NEW method \in {"Pap", "Chap"}
  PROVE  NewAuthenticator(method) \in CheckerOf(barred, account)
<1>. DEFINE a == [method |-> method, id |-> 0, tries |-> 0, verdict |-> "none",
                  outcome |-> "Waiting", out |-> <<>>]
<1>3. <<>> \in Seq(AuthPacket) /\ <<>> \in Seq(PacketOf(account))
  OBVIOUS
<1>4. a \in Authenticator
  BY <1>3 DEF Authenticator, Outcome
<1>1. a \in CheckerOf(barred, account)
  BY <1>3, <1>4 DEF CheckerOf
<1>. HIDE DEF a
<1>2. NewAuthenticator(method) = IF method = "Chap" THEN SendChallenge(a) ELSE a
  BY DEF NewAuthenticator, a
<1>. QED
  BY <1>1, <1>2, SendChallengeKeeps

LEMMA CheckerWaitedKeeps ==
  ASSUME NEW barred, NEW account, NEW a \in CheckerOf(barred, account)
  PROVE  CheckerWaited(a) \in CheckerOf(barred, account)
<1>1. a \in CheckerOf(barred, account)
  OBVIOUS
<1>2. [a EXCEPT !.outcome = "Failed"] \in CheckerOf(barred, account)
  BY <1>1 DEF CheckerOf, Authenticator, Outcome
<1>. DEFINE outcome == IF a.tries + 1 >= Tries THEN "Failed" ELSE a.outcome
            later   == [a EXCEPT !.tries = a.tries + 1, !.outcome = outcome]
<1>3. outcome \in Outcome /\ a.tries + 1 \in Nat /\ (outcome = a.outcome \/ outcome = "Failed")
  BY <1>1 DEF CheckerOf, Authenticator, Outcome
<1>4. later = [a EXCEPT !.tries = @ + 1,
                         !.outcome = IF a.tries + 1 >= Tries THEN "Failed" ELSE @]
  BY <1>1 DEF CheckerOf, Authenticator
<1>. HIDE DEF outcome
<1>5. later \in CheckerOf(barred, account)
  BY <1>1, <1>3 DEF CheckerOf, Authenticator
<1>. HIDE DEF later
<1>. QED
  BY <1>1, <1>2, <1>4, <1>5, SendChallengeKeeps DEF CheckerWaited

\* The packet that would let somebody in has to name the right account, which
\* an end that is to be barred never sends.
LEMMA CheckerReceivesKeeps ==
  ASSUME NEW barred, NEW account, NEW a \in CheckerOf(barred, account), NEW m \in AuthPacket,
         m.code \in ForChecker, barred => m.account # "right"
  PROVE  CheckerReceives(a, m) \in CheckerOf(barred, account)
<1>. DEFINE settled == Settle(a, m.account)
            reply   == Packet(Verdict(settled, m), m.id, "none")
<1>1. settled \in CheckerOf(barred, account)
  BY DEF Settle, CheckerOf, Authenticator, Outcome
<1>2. reply \in PacketOf(account)
  BY PacketType DEF Verdict, PacketCode, AuthPacket, Account
<1>3. settled.id \in Nat /\ settled.tries \in Nat
  BY <1>1 DEF CheckerOf, Authenticator
<1>4. [settled EXCEPT !.out = Append(settled.out, reply)]
        = CheckerSays(settled, settled.id, settled.tries, reply)
  BY <1>1 DEF CheckerOf, Authenticator, CheckerSays
<1>5. \/ CheckerReceives(a, m) = a
      \/ CheckerReceives(a, m) = [settled EXCEPT !.out = Append(settled.out, reply)]
  BY <1>1 DEF CheckerReceives, CheckerOf, Authenticator
<1>. HIDE DEF settled, reply
<1>. QED
  BY <1>1, <1>2, <1>3, <1>4, <1>5, SetCheckerOut

LEMMA IdleApart ==
  \A barred, account : Idle \notin ProverOf(account) /\ Idle \notin CheckerOf(barred, account)
BY DEF Idle, ProverOf, Prover, CheckerOf, Authenticator

-----------------------------------------------------------------------------
(* One end of a link.                                                      *)

\* What an end with this account puts on the line.
FrameOf(account) ==
  {f \in Frame : IF f.protocol = "Auth" THEN f.body \in PacketOf(account) ELSE f.body \in Message}

\* A link set to c, which is barred if it asks for a password and the far end
\* has not got it: then no session below the network layer was ever opened.
Good(l, c, barred) ==
  /\ l \in Link
  /\ Timed(l.lcp) /\ l.lcp.protocol \in Lcp /\ l.lcp.protocol.wanted = c.demands
  /\ Timed(l.ipcp) /\ l.ipcp.protocol \in Ipcp
  /\ l.account = c.account
  /\ l.prover \in ProverOf(c.account) \cup {Idle}
  /\ l.authenticator \in CheckerOf(barred, c.account) \cup {Idle}
  /\ l.line \in Seq(FrameOf(c.account))
  /\ barred => /\ c.demands # "None" /\ Shut(l.ipcp) /\ l.phase # "Network"
               /\ l.phase = "Authenticate" => l.authenticator # Idle

LEMMA FramesType ==
  ASSUME NEW account, NEW line \in Seq(FrameOf(account))
  PROVE  line \in Seq(Frame)
<1>1. FrameOf(account) \subseteq Frame
  BY DEF FrameOf
<1>. QED
  BY <1>1

LEMMA GoodParts ==
  ASSUME NEW l, NEW c \in Setting, NEW barred, Good(l, c, barred)
  PROVE  /\ l \in Link
         /\ l.phase \in Phase /\ l.coded \in BOOLEAN /\ l.reads \in BOOLEAN
         /\ l.compressor \in BOOLEAN /\ l.decompressor \in BOOLEAN
         /\ c.account \in Account /\ c.demands \in Method
BY DEF Good, Link, Setting

\* A session that has said or reported what it had to.
LEMMA Emptied ==
  ASSUME NEW s, Timed(s)
  PROVE  /\ Timed([s EXCEPT !.out = <<>>]) /\ [s EXCEPT !.out = <<>>].protocol = s.protocol
         /\ Shut(s) => Shut([s EXCEPT !.out = <<>>])
         /\ Timed([s EXCEPT !.reports = <<>>]) /\ [s EXCEPT !.reports = <<>>].protocol = s.protocol
         /\ Shut(s) => Shut([s EXCEPT !.reports = <<>>])
<1>1. <<>> \in Seq(Message) /\ <<>> \in Seq({"Up", "Down", "Started", "Finished"})
  OBVIOUS
<1>. QED
  BY <1>1 DEF Timed, Session, Shut

LEMMA SetPhase ==
  ASSUME NEW l, NEW c \in Setting, NEW barred, Good(l, c, barred), NEW phase \in Phase,
         barred => phase # "Network" /\ (phase = "Authenticate" => l.authenticator # Idle)
  PROVE  Good([l EXCEPT !.phase = phase], c, barred)
BY DEF Good, Link

LEMMA SetLcp ==
  ASSUME NEW l, NEW c \in Setting, NEW barred, Good(l, c, barred), NEW s, Timed(s),
         s.protocol \in Lcp, s.protocol.wanted = c.demands
  PROVE  Good([l EXCEPT !.lcp = s], c, barred)
BY DEF Good, Link, Timed

LEMMA SetIpcp ==
  ASSUME NEW l, NEW c \in Setting, NEW barred, Good(l, c, barred), NEW s, Timed(s),
         s.protocol \in Ipcp, barred => Shut(s)
  PROVE  Good([l EXCEPT !.ipcp = s], c, barred)
BY DEF Good, Link, Timed

LEMMA SetEnds ==
  ASSUME NEW l, NEW c \in Setting, NEW barred, Good(l, c, barred),
         NEW p \in ProverOf(c.account) \cup {Idle},
         NEW a \in CheckerOf(barred, c.account) \cup {Idle},
         barred => (l.phase = "Authenticate" => a # Idle)
  PROVE  Good([l EXCEPT !.prover = p, !.authenticator = a], c, barred)
<1>1. p \in Prover \cup {Idle} /\ a \in Authenticator \cup {Idle}
  BY DEF ProverOf, CheckerOf
<1>. QED
  BY <1>1 DEF Good, Link

LEMMA SetLine ==
  ASSUME NEW l, NEW c \in Setting, NEW barred, Good(l, c, barred),
         NEW line \in Seq(FrameOf(c.account))
  PROVE  Good([l EXCEPT !.line = line], c, barred)
<1>1. line \in Seq(Frame)
  BY FramesType
<1>. QED
  BY <1>1 DEF Good, Link

LEMMA SetFlags ==
  ASSUME NEW l, NEW c \in Setting, NEW barred, Good(l, c, barred),
         NEW coded \in BOOLEAN, NEW reads \in BOOLEAN, NEW compressor \in BOOLEAN,
         NEW decompressor \in BOOLEAN
  PROVE  Good([l EXCEPT !.coded = coded, !.reads = reads, !.compressor = compressor,
                        !.decompressor = decompressor], c, barred)
<1>. DEFINE m == [l EXCEPT !.coded = coded, !.reads = reads, !.compressor = compressor,
                           !.decompressor = decompressor]
<1>1. l \in Link
  BY DEF Good
<1>2. m \in Link
  BY <1>1 DEF Link
<1>3. /\ m.phase = l.phase /\ m.lcp = l.lcp /\ m.ipcp = l.ipcp /\ m.account = l.account
      /\ m.prover = l.prover /\ m.authenticator = l.authenticator /\ m.line = l.line
  BY <1>1 DEF Link
<1>. HIDE DEF m
<1>4. Good(m, c, barred)
  BY <1>2, <1>3 DEF Good
<1>. QED
  BY <1>4 DEF m

LEMMA FramedType ==
  ASSUME NEW account, NEW l, l.coded \in BOOLEAN, NEW protocol, NEW bodies,
         \/ protocol \in {"Lcp", "Ipcp"} /\ bodies \in Seq(Message)
         \/ protocol = "Auth" /\ bodies \in Seq(PacketOf(account))
  PROVE  Framed(l, protocol, bodies) \in Seq(FrameOf(account))
<1>. DEFINE coded == protocol # "Lcp" /\ l.coded
            frame(i) == [protocol |-> protocol, coded |-> coded, body |-> bodies[i]]
<1>1. coded \in BOOLEAN /\ Len(bodies) \in Nat
  OBVIOUS
<1>2. ASSUME NEW i \in 1 .. Len(bodies)
      PROVE  frame(i) \in FrameOf(account)
  <2>. HIDE DEF coded
  <2>1. CASE protocol \in {"Lcp", "Ipcp"} /\ bodies \in Seq(Message)
    <3>1. bodies[i] \in Message
      BY <2>1
    <3>. QED
      BY <1>1, <2>1, <3>1 DEF FrameOf, Frame
  <2>2. CASE protocol = "Auth" /\ bodies \in Seq(PacketOf(account))
    <3>1. bodies[i] \in PacketOf(account) /\ bodies[i] \in AuthPacket
      BY <2>2 DEF PacketOf
    <3>. QED
      BY <1>1, <2>2, <3>1 DEF FrameOf, Frame
  <2>. QED
    BY <2>1, <2>2
<1>3. Framed(l, protocol, bodies) = [i \in 1 .. Len(bodies) |-> frame(i)]
  BY DEF Framed
<1>. HIDE DEF coded, frame
<1>. QED
  BY <1>1, <1>2, <1>3

-----------------------------------------------------------------------------
(* What pump says.                                                         *)

LEMMA SaidKeeps ==
  ASSUME NEW barred, NEW account
  PROVE  /\ \A p \in ProverOf(account) \cup {Idle} : Said(p) \in ProverOf(account) \cup {Idle}
         /\ \A a \in CheckerOf(barred, account) \cup {Idle} :
              /\ Said(a) \in CheckerOf(barred, account) \cup {Idle}
              /\ Said(a) = Idle <=> a = Idle
<1>1. <<>> \in Seq(AuthPacket) /\ <<>> \in Seq(PacketOf(account))
  OBVIOUS
<1>2. \A p \in ProverOf(account) : Said(p) \in ProverOf(account)
  BY <1>1, IdleApart DEF Said, ProverOf, Prover
<1>3. \A a \in CheckerOf(barred, account) : Said(a) \in CheckerOf(barred, account)
  BY <1>1, IdleApart DEF Said, CheckerOf, Authenticator
<1>4. Said(Idle) = Idle
  BY DEF Said
<1>. QED
  BY <1>2, <1>3, <1>4, IdleApart

LEMMA AuthOutType ==
  ASSUME NEW l, NEW c \in Setting, NEW barred, Good(l, c, barred)
  PROVE  AuthOut(l) \in Seq(PacketOf(c.account))
<1>. DEFINE proof == IF l.prover = Idle THEN <<>> ELSE l.prover.out
            check == IF l.authenticator = Idle THEN <<>> ELSE l.authenticator.out
<1>0. <<>> \in Seq(PacketOf(c.account))
  OBVIOUS
<1>1. proof \in Seq(PacketOf(c.account))
  <2>1. l.prover # Idle => l.prover.out \in Seq(PacketOf(c.account))
    BY DEF Good, ProverOf
  <2>. QED
    BY <1>0, <2>1
<1>2. check \in Seq(PacketOf(c.account))
  <2>1. l.authenticator # Idle => l.authenticator.out \in Seq(PacketOf(c.account))
    BY DEF Good, CheckerOf
  <2>. QED
    BY <1>0, <2>1
<1>3. AuthOut(l) = proof \o check
  BY DEF AuthOut
<1>. HIDE DEF proof, check
<1>. QED
  BY <1>1, <1>2, <1>3, ConcatProperties

\* Link l, having put on its line what k would send.
Saying(l, k, protocol, bodies) == [l EXCEPT !.line = l.line \o Framed(k, protocol, bodies)]

LEMMA Says ==
  ASSUME NEW l, NEW c \in Setting, NEW barred, Good(l, c, barred), NEW k, k.coded \in BOOLEAN,
         NEW protocol, NEW bodies,
         \/ protocol \in {"Lcp", "Ipcp"} /\ bodies \in Seq(Message)
         \/ protocol = "Auth" /\ bodies \in Seq(PacketOf(c.account))
  PROVE  Good(Saying(l, k, protocol, bodies), c, barred)
<1>. DEFINE frames == Framed(k, protocol, bodies)
<1>1. frames \in Seq(FrameOf(c.account))
  BY FramedType
<1>2. l.line \in Seq(FrameOf(c.account))
  BY DEF Good
<1>3. Good([l EXCEPT !.line = l.line \o frames], c, barred)
  <2>. HIDE DEF frames
  <2>1. l.line \o frames \in Seq(FrameOf(c.account))
    BY <1>1, <1>2, ConcatProperties
  <2>. QED
    BY <2>1, SetLine
<1>. QED
  BY <1>3 DEF Saying

LEMMA FlushAuthenticationKeeps ==
  ASSUME NEW l, NEW c \in Setting, NEW barred, Good(l, c, barred)
  PROVE  /\ Good(FlushAuthentication(l), c, barred)
         /\ FlushAuthentication(l).phase = l.phase
<1>. DEFINE k    == Saying(l, l, "Auth", AuthOut(l))
            p    == Said(l.prover)
            a    == Said(l.authenticator)
<1>1. l.coded \in BOOLEAN /\ AuthOut(l) \in Seq(PacketOf(c.account))
  BY GoodParts, AuthOutType
<1>2. /\ p \in ProverOf(c.account) \cup {Idle} /\ a \in CheckerOf(barred, c.account) \cup {Idle}
      /\ a = Idle <=> l.authenticator = Idle
  BY SaidKeeps DEF Good
<1>3. l \in Link
  BY DEF Good
<1>4. Good(k, c, barred)
  BY <1>1, Says
<1>. HIDE DEF p, a
<1>8. k.phase = l.phase /\ k.authenticator = l.authenticator
  BY <1>3 DEF Link, Saying
<1>5. FlushAuthentication(l) = [k EXCEPT !.prover = p, !.authenticator = a]
  BY <1>3 DEF FlushAuthentication, p, a, Saying, Link
<1>. HIDE DEF k
<1>6. barred => (k.phase = "Authenticate" => a # Idle)
  BY <1>2, <1>8 DEF Good
<1>7. Good([k EXCEPT !.prover = p, !.authenticator = a], c, barred)
  BY <1>2, <1>4, <1>6, SetEnds
<1>9. k \in Link
  BY <1>4 DEF Good
<1>. QED
  BY <1>5, <1>7, <1>8, <1>9 DEF Link

LEMMA FlushKeeps ==
  ASSUME NEW l, NEW c \in Setting, NEW barred, Good(l, c, barred)
  PROVE  Good(Flush(l), c, barred)
<1>. DEFINE s    == [l.lcp EXCEPT !.out = <<>>]
            i    == [l.ipcp EXCEPT !.out = <<>>]
            k    == Saying(l, l, "Lcp", l.lcp.out)
            lcp  == [k EXCEPT !.lcp = s]
            auth == FlushAuthentication(lcp)
            said == Saying(auth, l, "Ipcp", l.ipcp.out)
<1>1. /\ l \in Link /\ l.coded \in BOOLEAN /\ Timed(l.lcp) /\ Timed(l.ipcp)
      /\ l.lcp.out \in Seq(Message) /\ l.ipcp.out \in Seq(Message)
  BY DEF Good, Link, Timed, Session
<1>2. /\ Timed(s) /\ s.protocol \in Lcp /\ s.protocol.wanted = c.demands
      /\ Timed(i) /\ i.protocol \in Ipcp /\ (barred => Shut(i))
  BY <1>1, Emptied DEF Good
<1>3. Good(k, c, barred)
  BY <1>1, Says
<1>4. Good(lcp, c, barred) /\ lcp.ipcp = l.ipcp /\ lcp \in Link
  <2>1. k.ipcp = l.ipcp /\ k \in Link
    BY <1>1, <1>3 DEF Link, Good, Saying
  <2>. HIDE DEF k, s
  <2>2. Good(lcp, c, barred)
    BY <1>2, <1>3, SetLcp
  <2>. QED
    BY <2>1, <2>2 DEF Good, Link
<1>5. lcp = [l EXCEPT !.line = @ \o Framed(l, "Lcp", l.lcp.out), !.lcp.out = <<>>]
  BY <1>1 DEF Link, Saying
<1>6. Good(auth, c, barred) /\ auth.ipcp = l.ipcp /\ auth \in Link
  <2>. HIDE DEF lcp
  <2>1. Good(auth, c, barred)
    BY <1>4, FlushAuthenticationKeeps
  <2>2. auth.ipcp = lcp.ipcp
    BY <1>4 DEF FlushAuthentication, Link
  <2>. QED
    BY <1>4, <2>1, <2>2 DEF Good
<1>7. Flush(l) = [auth EXCEPT !.line = @ \o Framed(l, "Ipcp", l.ipcp.out), !.ipcp.out = <<>>]
  BY <1>5 DEF Flush
<1>. HIDE DEF lcp, auth
<1>8. Good(said, c, barred)
  BY <1>1, <1>6, Says
<1>9. Flush(l) = [said EXCEPT !.ipcp = i]
  BY <1>6, <1>7 DEF Link, Saying
<1>. HIDE DEF said, i
<1>. QED
  BY <1>2, <1>8, <1>9, SetIpcp

-----------------------------------------------------------------------------
(* What follows from LCP's reports and from the authentication.            *)

LEMMA LcpFires ==
  ASSUME NEW l, NEW c \in Setting, NEW barred, Good(l, c, barred), NEW event \in Ordinary
  PROVE  /\ Timed(Fire(l.lcp, event)) /\ Fire(l.lcp, event).protocol \in Lcp
         /\ Fire(l.lcp, event).protocol.wanted = c.demands
BY OrdinaryFire DEF Good

LEMMA IpcpFires ==
  ASSUME NEW l, NEW c \in Setting, NEW barred, Good(l, c, barred), NEW event \in Passive
  PROVE  /\ Timed(Fire(l.ipcp, event)) /\ Fire(l.ipcp, event).protocol \in Ipcp
         /\ barred => Shut(Fire(l.ipcp, event))
<1>1. Timed(l.ipcp) /\ l.ipcp.protocol \in Ipcp /\ (barred => Shut(l.ipcp)) /\ l.ipcp \in Session
  BY DEF Good, Timed
<1>2. event["Initial"] \in {Illegal, Go("Initial")}
  BY PassiveCells
<1>3. barred => Shut(Fire(l.ipcp, event))
  BY <1>1, <1>2, ShutFire
<1>. QED
  BY <1>1, <1>3, OrdinaryFire DEF Ordinary

LEMMA CloseLinkKeeps ==
  ASSUME NEW l, NEW c \in Setting, NEW barred, Good(l, c, barred)
  PROVE  Good(CloseLink(l), c, barred)
<1>. DEFINE lcp  == Fire(l.lcp, Close)
            ipcp == Fire(l.ipcp, Close)
<1>0. l \in Link /\ l.account = c.account
  BY DEF Good
<1>1. /\ Timed(lcp) /\ lcp.protocol \in Lcp /\ lcp.protocol.wanted = c.demands
      /\ Timed(ipcp) /\ ipcp.protocol \in Ipcp /\ (barred => Shut(ipcp))
  BY LcpFires, IpcpFires DEF Ordinary, Passive
<1>2. CloseLink(l) = [l EXCEPT !.prover = Idle, !.authenticator = Idle, !.phase = "Terminate",
                               !.ipcp = ipcp, !.lcp = lcp]
  BY GoodParts DEF CloseLink, Link
<1>. DEFINE one   == [l EXCEPT !.phase = "Terminate"]
            two   == [one EXCEPT !.prover = Idle, !.authenticator = Idle]
            three == [two EXCEPT !.ipcp = ipcp]
            four  == [three EXCEPT !.lcp = lcp]
<1>. HIDE DEF lcp, ipcp
<1>3. CloseLink(l) = four
  BY <1>0, <1>2 DEF Link
<1>4. Good(one, c, barred) /\ one.phase = "Terminate"
  BY <1>0, SetPhase DEF Phase, Link
<1>5. Good(two, c, barred)
  <2>. HIDE DEF one
  <2>. QED
    BY <1>4, SetEnds
<1>6. Good(three, c, barred)
  <2>. HIDE DEF two
  <2>. QED
    BY <1>1, <1>5, SetIpcp
<1>7. Good(four, c, barred)
  <2>. HIDE DEF three
  <2>. QED
    BY <1>1, <1>6, SetLcp
<1>. QED
  BY <1>3, <1>7

\* Only an end that bars nobody opens its network layer.
LEMMA BeginNetworkKeeps ==
  ASSUME NEW l, NEW c \in Setting, NEW barred, Good(l, c, barred), ~barred
  PROVE  Good(BeginNetwork(l), c, barred)
<1>. DEFINE asks == Fire(l.ipcp, Open)
            ipcp == Fire(asks, Up)
<1>1. Timed(l.ipcp) /\ l.ipcp.protocol \in Ipcp
  BY DEF Good
<1>2. Timed(asks) /\ asks.protocol \in Ipcp
  BY <1>1, OrdinaryFire DEF Ordinary
<1>3. Timed(ipcp) /\ ipcp.protocol \in Ipcp
  <2>. HIDE DEF asks
  <2>. QED
    BY <1>2, OrdinaryFire DEF Ordinary
<1>4. BeginNetwork(l) = [[l EXCEPT !.phase = "Establish"] EXCEPT !.ipcp = ipcp]
  BY GoodParts DEF BeginNetwork, Link
<1>. DEFINE k == [l EXCEPT !.phase = "Establish"]
<1>5. Good(k, c, barred)
  BY SetPhase DEF Phase
<1>. HIDE DEF ipcp, k
<1>6. Good([k EXCEPT !.ipcp = ipcp], c, barred)
  BY <1>3, <1>5, SetIpcp
<1>. QED
  BY <1>4, <1>6 DEF k

LEMMA BeginAuthenticationKeeps ==
  ASSUME NEW l, NEW c \in Setting, NEW barred, Good(l, c, barred)
  PROVE  Good(BeginAuthentication(l), c, barred)
<1>. DEFINE theirs == l.lcp.protocol.agreed
            ours   == l.lcp.protocol.wanted
            p      == IF theirs = "None" THEN l.prover ELSE NewProver(theirs, l.account)
            a      == IF ours = "None" THEN l.authenticator ELSE NewAuthenticator(ours)
<1>0. l \in Link /\ l.account = c.account
  BY DEF Good
<1>1. theirs \in Method /\ ours \in Method /\ ours = c.demands /\ (barred => ours # "None")
  BY DEF Good, Lcp
<1>2. CASE theirs = "None" /\ ours = "None"
  BY <1>1, <1>2, BeginNetworkKeeps DEF BeginAuthentication
<1>3. CASE ~(theirs = "None" /\ ours = "None")
  <2>1. p \in ProverOf(c.account) \cup {Idle}
    BY <1>1, GoodParts, NewProverKeeps DEF Good, Method
  <2>2. a \in CheckerOf(barred, c.account) \cup {Idle}
    BY <1>1, NewAuthenticatorKeeps DEF Good, Method
  <2>3. ours # "None" => a # Idle
    BY <1>1, NewAuthenticatorKeeps, IdleApart DEF Method
  <2>4. BeginAuthentication(l)
          = [l EXCEPT !.phase = "Authenticate", !.prover = p, !.authenticator = a]
    BY <1>3, GoodParts DEF BeginAuthentication, Link
  <2>. HIDE DEF p, a
  <2>. DEFINE k == [l EXCEPT !.prover = p, !.authenticator = a]
  <2>5. Good(k, c, barred)
    BY <1>1, <2>1, <2>2, <2>3, SetEnds
  <2>6. k.authenticator = a /\ [k EXCEPT !.phase = "Authenticate"] = BeginAuthentication(l)
    BY <1>0, <2>4 DEF Link
  <2>. HIDE DEF k
  <2>7. Good([k EXCEPT !.phase = "Authenticate"], c, barred)
    BY <1>1, <2>3, <2>5, <2>6, SetPhase DEF Phase
  <2>. QED
    BY <2>6, <2>7
<1>. QED
  BY <1>2, <1>3

LEMMA LcpDownKeeps ==
  ASSUME NEW l, NEW c \in Setting, NEW barred, Good(l, c, barred)
  PROVE  Good(LcpDown(l), c, barred)
<1>. DEFINE ipcp == Fire(l.ipcp, Down)
<1>0. l \in Link /\ l.account = c.account
  BY DEF Good
<1>1. Timed(ipcp) /\ ipcp.protocol \in Ipcp /\ (barred => Shut(ipcp))
  BY IpcpFires DEF Passive
<1>2. LcpDown(l) = [l EXCEPT !.coded = FALSE, !.reads = FALSE, !.compressor = FALSE,
                             !.decompressor = FALSE, !.ipcp = ipcp, !.prover = Idle,
                             !.authenticator = Idle, !.phase = "Dead"]
  BY GoodParts DEF LcpDown, Link
<1>. DEFINE one   == [l EXCEPT !.phase = "Dead"]
            two   == [one EXCEPT !.prover = Idle, !.authenticator = Idle]
            three == [two EXCEPT !.ipcp = ipcp]
            four  == [three EXCEPT !.coded = FALSE, !.reads = FALSE, !.compressor = FALSE,
                                   !.decompressor = FALSE]
<1>. HIDE DEF ipcp
<1>3. LcpDown(l) = four
  BY <1>0, <1>2 DEF Link
<1>4. Good(one, c, barred) /\ one.phase = "Dead"
  BY <1>0, SetPhase DEF Phase, Link
<1>5. Good(two, c, barred)
  <2>. HIDE DEF one
  <2>. QED
    BY <1>4, SetEnds
<1>6. Good(three, c, barred)
  <2>. HIDE DEF two
  <2>. QED
    BY <1>1, <1>5, SetIpcp
<1>7. Good(four, c, barred)
  <2>. HIDE DEF three
  <2>. QED
    BY <1>6, SetFlags
<1>. QED
  BY <1>3, <1>7

LEMMA LcpReportKeeps ==
  ASSUME NEW l, NEW c \in Setting, NEW barred, Good(l, c, barred),
         NEW report \in {"Up", "Down", "Started", "Finished"}
  PROVE  Good(LcpReport(l, report), c, barred)
<1>. DEFINE k == [l EXCEPT !.coded = TRUE, !.reads = TRUE, !.compressor = l.compressor,
                           !.decompressor = l.decompressor]
<1>1. Good(k, c, barred)
  BY GoodParts, SetFlags
<1>2. k = [l EXCEPT !.coded = TRUE, !.reads = TRUE]
  BY GoodParts DEF Link
<1>3. Good(LcpUp(l), c, barred)
  BY <1>1, <1>2, BeginAuthenticationKeeps DEF LcpUp
<1>4. report = "Up" => LcpReport(l, report) = LcpUp(l)
  BY DEF LcpReport
<1>5. report \in {"Down", "Finished"} => LcpReport(l, report) = LcpDown(l)
  BY DEF LcpReport
<1>6. report = "Started" => LcpReport(l, report) = l
  BY DEF LcpReport
<1>. QED
  BY <1>3, <1>4, <1>5, <1>6, LcpDownKeeps

LEMMA FollowAuthenticationKeeps ==
  ASSUME NEW l, NEW c \in Setting, NEW barred, Good(l, c, barred)
  PROVE  Good(FollowAuthentication(l), c, barred)
<1>1. Good(CloseLink(FlushAuthentication(l)), c, barred)
  BY FlushAuthenticationKeeps, CloseLinkKeeps
<1>2. l.phase = "Authenticate" /\ Outcomes(l) \subseteq {"Passed"} => ~barred
  <2>. SUFFICES ASSUME l.phase = "Authenticate", barred
                PROVE  ~(Outcomes(l) \subseteq {"Passed"})
    OBVIOUS
  <2>1. l.authenticator # Idle /\ l.authenticator.outcome # "Passed"
    BY DEF Good, CheckerOf
  <2>. QED
    BY <2>1 DEF Outcomes
<1>. QED
  BY <1>1, <1>2, BeginNetworkKeeps DEF FollowAuthentication

LEMMA FollowLcpKeeps ==
  ASSUME NEW l, NEW c \in Setting, NEW barred, Good(l, c, barred)
  PROVE  Good(FollowLcp(l), c, barred)
<1>. DEFINE s == [l.lcp EXCEPT !.reports = <<>>]
            k == [l EXCEPT !.lcp = s]
            reports   == l.lcp.reports
            Nth(m, i) == IF i > Len(reports) THEN m ELSE LcpReport(m, reports[i])
<1>1. Timed(s) /\ s.protocol \in Lcp /\ s.protocol.wanted = c.demands
  BY Emptied DEF Good
<1>2. reports \in Seq({"Up", "Down", "Started", "Finished"})
  BY DEF Good, Timed, Session
<1>3. k = [l EXCEPT !.lcp.reports = <<>>]
  OBVIOUS
<1>. HIDE DEF s
<1>4. Good(k, c, barred)
  BY <1>1, SetLcp
<1>. HIDE DEF k
<1>5. FollowLcp(l) = Nth(Nth(Nth(k, 1), 2), 3)
  BY <1>3 DEF FollowLcp, InTurn
<1>. HIDE DEF reports
<1>6. ASSUME NEW m, Good(m, c, barred), NEW i \in {1, 2, 3}
      PROVE  Good(Nth(m, i), c, barred)
  <2>1. i <= Len(reports) => reports[i] \in {"Up", "Down", "Started", "Finished"}
    BY <1>2
  <2>2. i <= Len(reports) => Good(LcpReport(m, reports[i]), c, barred)
    BY <1>6, <2>1, LcpReportKeeps
  <2>3. i <= Len(reports) \/ i > Len(reports)
    BY <1>2
  <2>. QED
    BY <1>6, <2>2, <2>3
<1>. HIDE DEF Nth
<1>. QED
  BY <1>4, <1>5, <1>6

LEMMA IpcpReportKeeps ==
  ASSUME NEW l, NEW c \in Setting, NEW barred, Good(l, c, barred), ~barred,
         NEW report \in {"Up", "Down", "Started", "Finished"}
  PROVE  Good(IpcpReport(l, report), c, barred)
<1>. DEFINE sends    == l.ipcp.protocol.sending
            receives == l.ipcp.protocol.receiving
            phase    == IF l.phase = "Network" THEN "Establish" ELSE l.phase
<1>0. l \in Link /\ sends \in BOOLEAN /\ receives \in BOOLEAN /\ phase \in Phase
  BY DEF Good, Ipcp, Link, Phase
<1>1. ASSUME NEW next \in Phase, NEW compressor \in BOOLEAN, NEW decompressor \in BOOLEAN
      PROVE  Good([l EXCEPT !.phase = next, !.compressor = compressor,
                            !.decompressor = decompressor], c, barred)
  <2>. DEFINE k == [l EXCEPT !.phase = next]
  <2>1. Good(k, c, barred)
    BY SetPhase
  <2>2. k \in Link
    BY <1>0 DEF Link
  <2>3. [l EXCEPT !.phase = next, !.compressor = compressor, !.decompressor = decompressor]
          = [k EXCEPT !.coded = k.coded, !.reads = k.reads, !.compressor = compressor,
                      !.decompressor = decompressor]
    BY <1>0 DEF Link
  <2>. HIDE DEF k
  <2>4. k.coded \in BOOLEAN /\ k.reads \in BOOLEAN
    BY <2>2 DEF Link
  <2>5. Good([k EXCEPT !.coded = k.coded, !.reads = k.reads, !.compressor = compressor,
                       !.decompressor = decompressor], c, barred)
    BY <2>1, <2>4, SetFlags
  <2>. QED
    BY <2>3, <2>5
<1>2. report = "Up" => Good(IpcpReport(l, report), c, barred)
  <2>1. report = "Up" => IpcpReport(l, report)
          = [l EXCEPT !.phase = "Network", !.compressor = sends, !.decompressor = receives]
    BY DEF IpcpReport
  <2>. HIDE DEF sends, receives
  <2>2. Good([l EXCEPT !.phase = "Network", !.compressor = sends, !.decompressor = receives],
             c, barred)
    BY <1>0, <1>1 DEF Phase
  <2>. QED
    BY <2>1, <2>2
<1>3. report \in {"Down", "Finished"} => Good(IpcpReport(l, report), c, barred)
  <2>1. report \in {"Down", "Finished"} => IpcpReport(l, report)
          = [l EXCEPT !.phase = phase, !.compressor = FALSE, !.decompressor = FALSE]
    BY <1>0 DEF IpcpReport, Link
  <2>. HIDE DEF phase
  <2>2. Good([l EXCEPT !.phase = phase, !.compressor = FALSE, !.decompressor = FALSE],
             c, barred)
    BY <1>0, <1>1
  <2>. QED
    BY <2>1, <2>2
<1>4. report = "Started" => IpcpReport(l, report) = l
  BY DEF IpcpReport
<1>. QED
  BY <1>2, <1>3, <1>4

\* A session that is shut reports nothing, so an end that bars follows nothing.
LEMMA FollowIpcpKeeps ==
  ASSUME NEW l, NEW c \in Setting, NEW barred, Good(l, c, barred)
  PROVE  Good(FollowIpcp(l), c, barred)
<1>. DEFINE s == [l.ipcp EXCEPT !.reports = <<>>]
            k == [l EXCEPT !.ipcp = s]
            reports   == l.ipcp.reports
            Nth(m, i) == IF i > Len(reports) THEN m ELSE IpcpReport(m, reports[i])
<1>1. Timed(s) /\ s.protocol \in Ipcp /\ (barred => Shut(s))
  BY Emptied DEF Good
<1>2. /\ reports \in Seq({"Up", "Down", "Started", "Finished"})
      /\ barred => reports = <<>>
  BY DEF Good, Timed, Session, Shut
<1>3. k = [l EXCEPT !.ipcp.reports = <<>>]
  OBVIOUS
<1>. HIDE DEF s
<1>4. Good(k, c, barred)
  BY <1>1, SetIpcp
<1>. HIDE DEF k
<1>5. FollowIpcp(l) = Nth(Nth(Nth(k, 1), 2), 3)
  BY <1>3 DEF FollowIpcp, InTurn
<1>. HIDE DEF reports
<1>6. ASSUME NEW m, Good(m, c, barred), NEW i \in {1, 2, 3}
      PROVE  Good(Nth(m, i), c, barred)
  <2>1. i <= Len(reports) => ~barred /\ reports[i] \in {"Up", "Down", "Started", "Finished"}
    BY <1>2
  <2>. QED
    BY <1>2, <1>6, <2>1, IpcpReportKeeps
<1>. HIDE DEF Nth
<1>. QED
  BY <1>4, <1>5, <1>6

LEMMA RoundKeeps ==
  ASSUME NEW l, NEW c \in Setting, NEW barred, Good(l, c, barred)
  PROVE  Good(Round(l), c, barred)
BY FlushKeeps, FollowLcpKeeps, FollowAuthenticationKeeps, FollowIpcpKeeps DEF Round

-----------------------------------------------------------------------------
(* The rounds of pump.                                                     *)

\* Nothing is left to say.
Silent(l) == l.lcp.out = <<>> /\ l.ipcp.out = <<>> /\ AuthOut(l) = <<>>

\* Nothing is left to say or to report.
Clear(l) == Silent(l) /\ l.lcp.reports = <<>> /\ l.ipcp.reports = <<>>

\* follow_authentication has nothing to follow.
Decided(l) ==
  l.phase = "Authenticate" => "Failed" \notin Outcomes(l) /\ ~ (Outcomes(l) \subseteq {"Passed"})

\* What one round leaves for the next: things to say, and at most an end of
\* the link to report.
Falling(s) == \A i \in 1 .. Len(s.reports) : s.reports[i] \in {"Down", "Finished"}

Nearly(l) == l.ipcp.reports = <<>> /\ Falling(l.lcp) /\ Decided(l)

\* Close reports no more than the end of the link.
LEMMA CloseReports ==
  \A state \in State :
    Close[state] # Illegal /\ {"tlu", "tls"} \cap Close[state].actions = {}
BY RowFields, ToFields DEF Close, State, Go, To, Illegal, Ended

\* Down says nothing.
LEMMA DownSays ==
  \A state \in State :
    Down[state].actions \cap {"irc", "zrc", "scr", "str", "sta", "sca", "scn"} = {}
BY RowFields, ToFields DEF Down, State, Go, To, Illegal, Dropped

\* Firing it leaves what was to be said as it was.
LEMMA DownFire ==
  ASSUME NEW s \in Session
  PROVE  Fire(s, Down).out = s.out
<1>. DEFINE t == Down[s.state]
<1>1. t.actions \cap {"irc", "zrc", "scr", "str", "sta", "sca", "scn"} = {}
  BY DownSays DEF Session
<1>. HIDE DEF t
<1>2. Answer(Ask(Count(s, t.actions), t.actions), t.actions) = s
  BY <1>1 DEF Answer, Ask, Count
<1>. QED
  BY <1>2 DEF Fire, t, Session

\* A session told to close reports at most the end of the link.
LEMMA CloseFire ==
  ASSUME NEW s, Timed(s), s.reports = <<>>
  PROVE  Falling(Fire(s, Close))
<1>. DEFINE t == Close[s.state]
            done == Answer(Ask(Count(s, t.actions), t.actions), t.actions)
<1>1. t # Illegal /\ {"tlu", "tls"} \cap t.actions = {}
  BY CloseReports DEF Timed, Session
<1>2. done.reports = <<>> /\ done \in Session
  <2>1. s \in Session
    BY DEF Timed
  <2>. HIDE DEF t
  <2>. QED
    BY <2>1, CountType, AskType, AnswerType
<1>3. Fire(s, Close).reports = Reported(t.actions)
  <2>1. Fire(s, Close).reports = done.reports \o Reported(t.actions)
    BY <1>1, <1>2 DEF Fire, Session
  <2>2. Reported(t.actions) \in Seq({"Up", "Down", "Started", "Finished"})
    BY ReportedType
  <2>. HIDE DEF done, t
  <2>. QED
    BY <1>2, <2>1, <2>2
<1>. HIDE DEF t, done
<1>4. Reported(t.actions) \in {<<"Down">>, <<"Finished">>, <<>>}
  BY <1>1 DEF Reported
<1>. QED
  BY <1>3, <1>4 DEF Falling

-----------------------------------------------------------------------------
(* What each part of a round leaves.                                       *)

\* flush changes what is to be said and the line.
LEMMA FlushFields ==
  ASSUME NEW l, NEW c \in Setting, NEW barred, Good(l, c, barred)
  PROVE  /\ Flush(l).lcp = [l.lcp EXCEPT !.out = <<>>]
         /\ Flush(l).ipcp = [l.ipcp EXCEPT !.out = <<>>]
         /\ Flush(l).prover = Said(l.prover) /\ Flush(l).authenticator = Said(l.authenticator)
         /\ Flush(l).phase = l.phase
<1>1. l \in Link
  BY DEF Good
<1>. QED
  BY <1>1 DEF Flush, FlushAuthentication, Link

\* Having said what it had to, an end is idle if it was, and has come as far.
LEMMA SaidFields ==
  ASSUME NEW account, NEW barred, NEW p,
         p \in ProverOf(account) \cup CheckerOf(barred, account) \cup {Idle}
  PROVE  /\ Said(p) = Idle <=> p = Idle
         /\ p # Idle => Said(p).out = <<>> /\ Said(p).outcome = p.outcome
<1>1. CASE p = Idle
  BY <1>1 DEF Said
<1>2. CASE p # Idle
  <2>1. p \in Prover \cup Authenticator
    BY <1>2 DEF ProverOf, CheckerOf
  <2>2. Said(p) = [p EXCEPT !.out = <<>>] /\ Said(p).method = p.method
    BY <1>2, <2>1 DEF Said, Prover, Authenticator
  <2>3. Said(p).out = <<>> /\ Said(p).outcome = p.outcome
    BY <2>1, <2>2 DEF Prover, Authenticator
  <2>4. p.method # "None"
    BY <2>1 DEF Prover, Authenticator
  <2>5. Said(p) # Idle
    BY <2>2, <2>4 DEF Idle
  <2>. QED
    BY <1>2, <2>3, <2>5
<1>. QED
  BY <1>1, <1>2

\* What the two ends of an authentication have come to.
LEMMA OutcomesAre ==
  ASSUME NEW l, NEW v
  PROVE  v \in Outcomes(l) <=>
           \/ l.prover # Idle /\ v = l.prover.outcome
           \/ l.authenticator # Idle /\ v = l.authenticator.outcome
BY DEF Outcomes

\* After flush nothing is left to say, and nothing else has changed.
LEMMA FlushSilent ==
  ASSUME NEW l, NEW c \in Setting, NEW barred, Good(l, c, barred)
  PROVE  /\ Silent(Flush(l)) /\ (Nearly(l) => Nearly(Flush(l)))
         /\ Flush(l).lcp.reports = l.lcp.reports
<1>. DEFINE k == Flush(l)
<1>1. /\ k.lcp = [l.lcp EXCEPT !.out = <<>>] /\ k.ipcp = [l.ipcp EXCEPT !.out = <<>>]
      /\ k.prover = Said(l.prover) /\ k.authenticator = Said(l.authenticator)
      /\ k.phase = l.phase
  BY FlushFields
<1>. HIDE DEF k
<1>2. l.lcp \in Session /\ l.ipcp \in Session
  BY DEF Good, Timed
<1>3. /\ k.lcp.out = <<>> /\ k.ipcp.out = <<>>
      /\ k.lcp.reports = l.lcp.reports /\ k.ipcp.reports = l.ipcp.reports
  BY <1>1, <1>2 DEF Session
<1>4. \A p \in {l.prover, l.authenticator} :
        /\ Said(p) = Idle <=> p = Idle
        /\ p # Idle => Said(p).out = <<>> /\ Said(p).outcome = p.outcome
  <2>1. /\ l.prover \in ProverOf(c.account) \cup {Idle}
        /\ l.authenticator \in CheckerOf(barred, c.account) \cup {Idle}
    BY DEF Good
  <2>2. \A p \in {l.prover, l.authenticator} :
          p \in ProverOf(c.account) \cup CheckerOf(barred, c.account) \cup {Idle}
    BY <2>1
  <2>3. \A p \in ProverOf(c.account) \cup CheckerOf(barred, c.account) \cup {Idle} :
          /\ Said(p) = Idle <=> p = Idle
          /\ p # Idle => Said(p).out = <<>> /\ Said(p).outcome = p.outcome
    BY SaidFields
  <2>. QED
    BY <2>2, <2>3
<1>5. AuthOut(k) = <<>>
  BY <1>1, <1>4 DEF AuthOut
<1>6. Outcomes(k) = Outcomes(l)
  <2>1. ASSUME NEW v PROVE v \in Outcomes(k) <=> v \in Outcomes(l)
    BY <1>1, <1>4, OutcomesAre
  <2>. QED
    BY <2>1
<1>7. Silent(k)
  BY <1>3, <1>5 DEF Silent
<1>8. Nearly(l) => Nearly(k)
  BY <1>1, <1>3, <1>6 DEF Nearly, Falling, Decided
<1>. QED
  BY <1>3, <1>7, <1>8 DEF k

\* The end of the link idles the authentication and tells IPCP.
LEMMA LcpDownFields ==
  ASSUME NEW l, NEW c \in Setting, NEW barred, Good(l, c, barred)
  PROVE  /\ LcpDown(l).lcp = l.lcp /\ LcpDown(l).ipcp.out = l.ipcp.out
         /\ LcpDown(l).prover = Idle /\ LcpDown(l).authenticator = Idle
         /\ LcpDown(l).phase = "Dead"
<1>1. l \in Link /\ l.ipcp \in Session
  BY DEF Good, Timed
<1>2. Fire(l.ipcp, Down).out = l.ipcp.out
  BY <1>1, DownFire
<1>. QED
  BY <1>1, <1>2 DEF LcpDown, Link

\* The end of the link leaves nothing to say.
LEMMA LcpDownSilent ==
  ASSUME NEW l, NEW c \in Setting, NEW barred, Good(l, c, barred), Silent(l)
  PROVE  Silent(LcpDown(l)) /\ Decided(LcpDown(l))
<1>1. /\ LcpDown(l).lcp = l.lcp /\ LcpDown(l).ipcp.out = l.ipcp.out
      /\ LcpDown(l).prover = Idle /\ LcpDown(l).authenticator = Idle
      /\ LcpDown(l).phase = "Dead"
  BY LcpDownFields
<1>2. AuthOut(LcpDown(l)) = <<>>
  BY <1>1 DEF AuthOut
<1>. QED
  BY <1>1, <1>2 DEF Silent, Decided

\* No report of LCP makes LCP do anything.
LEMMA LcpReportLcp ==
  ASSUME NEW l, NEW c \in Setting, NEW barred, Good(l, c, barred),
         NEW report \in {"Up", "Down", "Started", "Finished"}
  PROVE  LcpReport(l, report).lcp = l.lcp
<1>1. l \in Link
  BY DEF Good
<1>2. LcpUp(l).lcp = l.lcp
  BY <1>1 DEF LcpUp, BeginAuthentication, BeginNetwork, Link
<1>3. LcpDown(l).lcp = l.lcp
  BY LcpDownFields
<1>. QED
  BY <1>2, <1>3 DEF LcpReport

\* Every report of LCP is followed, and the end of the link is the only one that
\* leaves a silent link silent.
LEMMA FollowLcpLeaves ==
  ASSUME NEW l, NEW c \in Setting, NEW barred, Good(l, c, barred)
  PROVE  /\ FollowLcp(l).lcp.reports = <<>> /\ FollowLcp(l).lcp.out = l.lcp.out
         /\ Silent(l) /\ Falling(l.lcp) /\ Decided(l) =>
              Silent(FollowLcp(l)) /\ Decided(FollowLcp(l))
<1>. DEFINE s == [l.lcp EXCEPT !.reports = <<>>]
            k == [l EXCEPT !.lcp = s]
            reports   == l.lcp.reports
            Nth(m, i) == IF i > Len(reports) THEN m ELSE LcpReport(m, reports[i])
            calm      == Silent(l) /\ Falling(l.lcp) /\ Decided(l)
            P(m)      == /\ Good(m, c, barred) /\ m.lcp = s
                         /\ calm => Silent(m) /\ Decided(m)
<1>1. /\ Timed(s) /\ s.protocol \in Lcp /\ s.protocol.wanted = c.demands
      /\ s.reports = <<>> /\ s.out = l.lcp.out
  BY Emptied DEF Good, Timed, Session
<1>2. reports \in Seq({"Up", "Down", "Started", "Finished"})
  BY DEF Good, Timed, Session
<1>3. k = [l EXCEPT !.lcp.reports = <<>>]
  OBVIOUS
<1>. HIDE DEF s
<1>4. P(k)
  <2>1. Good(k, c, barred)
    BY <1>1, SetLcp
  <2>2. /\ k.lcp = s /\ k.ipcp = l.ipcp /\ k.prover = l.prover
        /\ k.authenticator = l.authenticator /\ k.phase = l.phase
    BY DEF Good, Link
  <2>. HIDE DEF k
  <2>3. calm => Silent(k) /\ Decided(k)
    BY <1>1, <2>2 DEF Silent, AuthOut, Decided, Outcomes
  <2>. QED
    BY <2>1, <2>2, <2>3
<1>. HIDE DEF k
<1>5. FollowLcp(l) = Nth(Nth(Nth(k, 1), 2), 3)
  BY <1>3 DEF FollowLcp, InTurn
<1>6. ASSUME NEW m, P(m), NEW i \in {1, 2, 3}
      PROVE  P(Nth(m, i))
  <2>1. CASE i > Len(reports)
    BY <1>6, <2>1
  <2>2. CASE ~ i > Len(reports)
    <3>1. i \in 1 .. Len(reports) /\ reports[i] \in {"Up", "Down", "Started", "Finished"}
      BY <1>2, <2>2
    <3>2. Nth(m, i) = LcpReport(m, reports[i])
      BY <2>2
    <3>3. calm => reports[i] \in {"Down", "Finished"}
      BY <3>1 DEF Falling
    <3>. HIDE DEF Nth, calm, reports
    <3>4. Good(m, c, barred) /\ m.lcp = s /\ (calm => Silent(m) /\ Decided(m))
      BY <1>6
    <3>5. Good(LcpReport(m, reports[i]), c, barred) /\ LcpReport(m, reports[i]).lcp = m.lcp
      BY <3>1, <3>4, LcpReportKeeps, LcpReportLcp
    <3>6. reports[i] \in {"Down", "Finished"} => LcpReport(m, reports[i]) = LcpDown(m)
      BY DEF LcpReport
    <3>7. calm => Silent(LcpReport(m, reports[i])) /\ Decided(LcpReport(m, reports[i]))
      BY <3>3, <3>4, <3>6, LcpDownSilent
    <3>. QED
      BY <3>2, <3>4, <3>5, <3>7
  <2>. QED
    BY <2>1, <2>2
<1>. HIDE DEF Nth, P
<1>7. P(FollowLcp(l))
  BY <1>4, <1>5, <1>6
<1>. QED
  BY <1>1, <1>7 DEF P

\* follow_authentication settles what it follows.
LEMMA FollowAuthenticationLeaves ==
  ASSUME NEW l, NEW c \in Setting, NEW barred, Good(l, c, barred), l.lcp.reports = <<>>
  PROVE  /\ Decided(FollowAuthentication(l)) /\ Falling(FollowAuthentication(l).lcp)
         /\ Decided(l) => FollowAuthentication(l) = l
<1>1. Falling(l.lcp)
  BY DEF Falling
<1>2. CASE l.phase = "Authenticate" /\ "Failed" \in Outcomes(l)
  <2>. DEFINE k == FlushAuthentication(l)
  <2>1. FollowAuthentication(l) = CloseLink(k)
    BY <1>2 DEF FollowAuthentication
  <2>2. l \in Link /\ Timed(l.lcp)
    BY DEF Good
  <2>3. Good(k, c, barred) /\ k.lcp = l.lcp
    BY <2>2, FlushAuthenticationKeeps DEF FlushAuthentication, Link
  <2>. HIDE DEF k
  <2>4. k \in Link
    BY <2>3 DEF Good
  <2>5. CloseLink(k).lcp = Fire(l.lcp, Close) /\ CloseLink(k).phase = "Terminate"
    BY <2>3, <2>4 DEF CloseLink, Link
  <2>6. Falling(Fire(l.lcp, Close))
    BY <2>2, CloseFire
  <2>. QED
    BY <1>2, <2>1, <2>5, <2>6 DEF Decided
<1>3. CASE l.phase = "Authenticate" /\ "Failed" \notin Outcomes(l) /\ Outcomes(l) \subseteq {"Passed"}
  <2>1. FollowAuthentication(l) = BeginNetwork(l)
    BY <1>3 DEF FollowAuthentication
  <2>2. l \in Link
    BY DEF Good
  <2>3. BeginNetwork(l).lcp = l.lcp /\ BeginNetwork(l).phase = "Establish"
    BY <2>2 DEF BeginNetwork, Link
  <2>. QED
    BY <1>1, <1>3, <2>1, <2>3 DEF Decided
<1>4. CASE Decided(l)
  BY <1>1, <1>4 DEF FollowAuthentication, Decided
<1>. QED
  BY <1>2, <1>3, <1>4 DEF Decided

\* k is l but for the phase and the compressors.
Apart(l, k) == /\ k.lcp = l.lcp /\ k.ipcp = l.ipcp /\ k.prover = l.prover
               /\ k.authenticator = l.authenticator
               /\ k.phase # "Authenticate" \/ k.phase = l.phase

\* Every report of IPCP is followed, and nothing comes of it.
LEMMA FollowIpcpLeaves ==
  ASSUME NEW l, NEW c \in Setting, NEW barred, Good(l, c, barred)
  PROVE  /\ FollowIpcp(l).ipcp.reports = <<>> /\ FollowIpcp(l).lcp = l.lcp
         /\ Decided(l) => Decided(FollowIpcp(l))
         /\ Silent(l) => Silent(FollowIpcp(l))
<1>. DEFINE s == [l.ipcp EXCEPT !.reports = <<>>]
            k == [l EXCEPT !.ipcp = s]
            reports   == l.ipcp.reports
            Nth(m, i) == IF i > Len(reports) THEN m ELSE IpcpReport(m, reports[i])
            P(m)      == m \in Link /\ Apart(k, m)
<1>1. /\ s \in Session /\ s.reports = <<>> /\ s.out = l.ipcp.out /\ l \in Link
      /\ s.protocol \in Ipcp
  BY Emptied DEF Good, Timed, Session
<1>2. reports \in Seq({"Up", "Down", "Started", "Finished"})
  BY DEF Good, Timed, Session
<1>3. k = [l EXCEPT !.ipcp.reports = <<>>]
  OBVIOUS
<1>. HIDE DEF s
<1>4. /\ k \in Link /\ k.ipcp = s /\ k.lcp = l.lcp /\ k.prover = l.prover
      /\ k.authenticator = l.authenticator /\ k.phase = l.phase
  BY <1>1 DEF Link
<1>. HIDE DEF k
<1>5. FollowIpcp(l) = Nth(Nth(Nth(k, 1), 2), 3)
  BY <1>3 DEF FollowIpcp, InTurn
<1>6. ASSUME NEW m, m \in Link, Apart(k, m), NEW i \in {1, 2, 3}
      PROVE  P(Nth(m, i))
  <2>1. CASE i > Len(reports)
    BY <1>6, <2>1
  <2>2. CASE ~ i > Len(reports)
    <3>1. reports[i] \in {"Up", "Down", "Started", "Finished"}
      BY <1>2, <2>2
    <3>2. Nth(m, i) = IpcpReport(m, reports[i])
      BY <2>2
    <3>. HIDE DEF Nth, reports
    <3>3. IpcpReport(m, reports[i]) \in Link
      <4>1. m.ipcp.protocol.sending \in BOOLEAN /\ m.ipcp.protocol.receiving \in BOOLEAN
        BY <1>1, <1>4, <1>6 DEF Apart, Ipcp
      <4>. QED
        BY <1>6, <3>1, <4>1 DEF IpcpReport, Link, Phase
    <3>4. Apart(m, IpcpReport(m, reports[i]))
      BY <1>6, <3>1 DEF IpcpReport, Link, Apart
    <3>. QED
      BY <1>6, <3>2, <3>3, <3>4 DEF Apart
  <2>. QED
    BY <2>1, <2>2
<1>. HIDE DEF Nth
<1>7. P(k)
  BY <1>4 DEF Apart
<1>8. P(FollowIpcp(l))
  BY <1>5, <1>6, <1>7
<1>. QED
  BY <1>1, <1>4, <1>8 DEF Apart, Decided, Silent, AuthOut, Outcomes

\* One round leaves little to do, and another nothing.
LEMMA RoundLeaves ==
  ASSUME NEW l, NEW c \in Setting, NEW barred, Good(l, c, barred)
  PROVE  Nearly(Round(l)) /\ (Nearly(l) => Clear(Round(l)))
<1>. DEFINE one   == Flush(l)
            two   == FollowLcp(one)
            three == FollowAuthentication(two)
<1>1. Good(one, c, barred) /\ Silent(one) /\ (Nearly(l) => Nearly(one))
  BY FlushKeeps, FlushSilent
<1>2. Round(l) = FollowIpcp(three)
  BY DEF Round
<1>. HIDE DEF one
<1>3. /\ Good(two, c, barred) /\ two.lcp.reports = <<>>
      /\ Nearly(l) => Silent(two) /\ Decided(two)
  BY <1>1, FollowLcpKeeps, FollowLcpLeaves DEF Nearly
<1>. HIDE DEF two
<1>4. /\ Good(three, c, barred) /\ Decided(three) /\ Falling(three.lcp)
      /\ Nearly(l) => three = two
  BY <1>3, FollowAuthenticationKeeps, FollowAuthenticationLeaves
<1>. HIDE DEF three
<1>. QED
  BY <1>2, <1>3, <1>4, FollowIpcpLeaves DEF Nearly, Clear

\* So six rounds are more than enough.
LEMMA PumpKeeps ==
  ASSUME NEW l, NEW c \in Setting, NEW barred, Good(l, c, barred)
  PROVE  Good(Pump(l), c, barred) /\ Clear(Pump(l))
<1>1. ASSUME NEW m, Good(m, c, barred)
      PROVE  Good(Round(m), c, barred) /\ Nearly(Round(m)) /\ (Nearly(m) => Clear(Round(m)))
  BY <1>1, RoundKeeps, RoundLeaves
<1>. QED
  BY <1>1 DEF Pump

-----------------------------------------------------------------------------
(* What the modem, the user and the clock do.                              *)

LEMMA OpenLinkKeeps ==
  ASSUME NEW l, NEW c \in Setting, NEW barred, Good(l, c, barred)
  PROVE  Good(OpenLink(l), c, barred) /\ Clear(OpenLink(l))
<1>. DEFINE asks == Fire(l.lcp, Open)
            lcp  == Fire(asks, Up)
            k    == [l EXCEPT !.phase = "Establish"]
            m    == [k EXCEPT !.lcp = lcp]
<1>0. l \in Link
  BY DEF Good
<1>1. Timed(asks) /\ asks.protocol \in Lcp /\ asks.protocol.wanted = c.demands
  BY LcpFires DEF Ordinary
<1>2. Timed(lcp) /\ lcp.protocol \in Lcp /\ lcp.protocol.wanted = c.demands
  <2>. HIDE DEF asks
  <2>. QED
    BY <1>1, OrdinaryFire DEF Ordinary
<1>3. m = [l EXCEPT !.phase = "Establish", !.lcp = Fire(Fire(@, Open), Up)]
  BY <1>0 DEF Link
<1>4. Good(k, c, barred)
  BY SetPhase DEF Phase
<1>5. Good(m, c, barred)
  <2>. HIDE DEF k, lcp
  <2>. QED
    BY <1>2, <1>4, SetLcp
<1>. QED
  BY <1>3, <1>5, PumpKeeps DEF OpenLink

LEMMA UserClosesKeeps ==
  ASSUME NEW l, NEW c \in Setting, NEW barred, Good(l, c, barred)
  PROVE  Good(UserCloses(l), c, barred) /\ Clear(UserCloses(l))
<1>. DEFINE lcp  == Fire(l.lcp, Close)
            ipcp == Fire(l.ipcp, Close)
            k    == [l EXCEPT !.phase = "Terminate"]
            m    == [k EXCEPT !.ipcp = ipcp]
            n    == [m EXCEPT !.lcp = lcp]
<1>0. l \in Link
  BY DEF Good
<1>1. /\ Timed(lcp) /\ lcp.protocol \in Lcp /\ lcp.protocol.wanted = c.demands
      /\ Timed(ipcp) /\ ipcp.protocol \in Ipcp /\ (barred => Shut(ipcp))
  BY LcpFires, IpcpFires DEF Ordinary, Passive
<1>2. n = [l EXCEPT !.ipcp = Fire(@, Close), !.lcp = Fire(@, Close), !.phase = "Terminate"]
  BY <1>0 DEF Link
<1>3. Good(k, c, barred)
  BY SetPhase DEF Phase
<1>4. Good(m, c, barred)
  <2>. HIDE DEF k, ipcp
  <2>. QED
    BY <1>1, <1>3, SetIpcp
<1>5. Good(n, c, barred)
  <2>. HIDE DEF m, lcp
  <2>. QED
    BY <1>1, <1>4, SetLcp
<1>. QED
  BY <1>2, <1>5, PumpKeeps DEF UserCloses

LEMMA SetOneEnd ==
  ASSUME NEW l, NEW c \in Setting, NEW barred, Good(l, c, barred)
  PROVE  /\ \A p \in ProverOf(c.account) : Good([l EXCEPT !.prover = p], c, barred)
         /\ \A a \in CheckerOf(barred, c.account) : Good([l EXCEPT !.authenticator = a], c, barred)
<1>0. /\ l \in Link /\ l.prover \in ProverOf(c.account) \cup {Idle}
      /\ l.authenticator \in CheckerOf(barred, c.account) \cup {Idle}
      /\ barred => (l.phase = "Authenticate" => l.authenticator # Idle)
  BY DEF Good
<1>1. ASSUME NEW p \in ProverOf(c.account)
      PROVE  Good([l EXCEPT !.prover = p], c, barred)
  <2>1. [l EXCEPT !.prover = p] = [l EXCEPT !.prover = p, !.authenticator = l.authenticator]
    BY <1>0 DEF Link
  <2>2. Good([l EXCEPT !.prover = p, !.authenticator = l.authenticator], c, barred)
    BY <1>0, SetEnds
  <2>. QED
    BY <2>1, <2>2
<1>2. ASSUME NEW a \in CheckerOf(barred, c.account)
      PROVE  Good([l EXCEPT !.authenticator = a], c, barred)
  <2>1. [l EXCEPT !.authenticator = a] = [l EXCEPT !.prover = l.prover, !.authenticator = a]
    BY <1>0 DEF Link
  <2>2. Good([l EXCEPT !.prover = l.prover, !.authenticator = a], c, barred)
    <3>1. a # Idle /\ a \in CheckerOf(barred, c.account) \cup {Idle}
      BY IdleApart
    <3>. QED
      BY <1>0, <3>1, SetEnds
  <2>. QED
    BY <2>1, <2>2
<1>. QED
  BY <1>1, <1>2

\* The far end's packets name the far end's account, so that an end that bars
\* it hears of no right one.
LEMMA DeliverAuthKeeps ==
  ASSUME NEW l, NEW c \in Setting, NEW barred, Good(l, c, barred),
         NEW account, barred => account = "wrong", NEW m \in PacketOf(account)
  PROVE  Good(DeliverAuth(l, m), c, barred)
<1>1. m \in AuthPacket /\ (barred => m.account # "right") /\ m.code \in PacketCode
  BY DEF PacketOf, AuthPacket
<1>2. MethodOf(m.code) # Idle.method
  BY DEF MethodOf, Idle
<1>3. CASE m.code \in ForChecker /\ l.authenticator.method = MethodOf(m.code)
  <2>. DEFINE a == CheckerReceives(l.authenticator, m)
  <2>1. l.authenticator \in CheckerOf(barred, c.account)
    BY <1>2, <1>3 DEF Good
  <2>2. a \in CheckerOf(barred, c.account)
    BY <1>1, <1>3, <2>1, CheckerReceivesKeeps
  <2>3. DeliverAuth(l, m) = [l EXCEPT !.authenticator = a]
    BY <1>3 DEF DeliverAuth
  <2>. HIDE DEF a
  <2>. QED
    BY <2>2, <2>3, SetOneEnd
<1>4. CASE m.code \notin ForChecker /\ l.prover.method = MethodOf(m.code)
  <2>. DEFINE p == ProverReceives(l.prover, m)
  <2>1. l.prover \in ProverOf(c.account)
    BY <1>2, <1>4 DEF Good
  <2>2. p \in ProverOf(c.account)
    BY <1>1, <1>4, <2>1, GoodParts, ProverReceivesKeeps
  <2>3. DeliverAuth(l, m) = [l EXCEPT !.prover = p]
    BY <1>4 DEF DeliverAuth
  <2>. HIDE DEF p
  <2>. QED
    BY <2>2, <2>3, SetOneEnd
<1>5. CASE ~(m.code \in ForChecker /\ l.authenticator.method = MethodOf(m.code))
           /\ ~(m.code \notin ForChecker /\ l.prover.method = MethodOf(m.code))
  BY <1>5 DEF DeliverAuth
<1>. QED
  BY <1>3, <1>4, <1>5

LEMMA DeliverKeeps ==
  ASSUME NEW l, NEW c \in Setting, NEW barred, Good(l, c, barred),
         NEW account, barred => account = "wrong", NEW f \in FrameOf(account)
  PROVE  Good(Deliver(l, f), c, barred)
<1>1. /\ f.protocol \in {"Lcp", "Ipcp", "Auth"}
      /\ f.protocol \in {"Lcp", "Ipcp"} => f.body \in Message
      /\ f.protocol = "Auth" => f.body \in PacketOf(account)
  BY DEF FrameOf, Frame
<1>2. CASE f.protocol = "Lcp"
  <2>. DEFINE s == Receive(l.lcp, f.body)
  <2>1. Timed(s) /\ s.protocol \in Lcp /\ s.protocol.wanted = c.demands
    BY <1>1, <1>2, ReceiveKeeps DEF Good, Kin
  <2>2. Deliver(l, f) = [l EXCEPT !.lcp = s]
    BY <1>2 DEF Deliver
  <2>. HIDE DEF s
  <2>. QED
    BY <2>1, <2>2, SetLcp
<1>3. CASE f.protocol = "Ipcp"
  <2>. DEFINE s == Receive(l.ipcp, f.body)
  <2>1. Timed(s) /\ s.protocol \in Ipcp /\ (barred => Shut(s))
    BY <1>1, <1>3, ReceiveKeeps DEF Good, Kin
  <2>2. Deliver(l, f) = [l EXCEPT !.ipcp = s]
    BY <1>3 DEF Deliver
  <2>. HIDE DEF s
  <2>. QED
    BY <2>1, <2>2, SetIpcp
<1>4. CASE f.protocol = "Auth"
  <2>1. Deliver(l, f) = DeliverAuth(l, f.body)
    BY <1>4 DEF Deliver
  <2>. QED
    BY <1>1, <1>4, <2>1, DeliverAuthKeeps
<1>. QED
  BY <1>1, <1>2, <1>3, <1>4

LEMMA FeedKeeps ==
  ASSUME NEW l, NEW c \in Setting, NEW barred, Good(l, c, barred),
         NEW account, barred => account = "wrong", NEW f \in FrameOf(account)
  PROVE  Good(Feed(l, f), c, barred) /\ Clear(Feed(l, f))
<1>1. Good(Deliver(l, f), c, barred)
  BY DeliverKeeps
<1>. QED
  BY <1>1, PumpKeeps DEF Feed

LEMMA ShutExpire == \A s : Timed(s) /\ Shut(s) => Expire(s) = s
BY WaitsWhere DEF Timed, Shut, Expire, State

\* The end when the time of all that runs at it is up.
Expired(l) == [l EXCEPT !.lcp = Expire(@), !.prover = ProverWaited(@),
                        !.authenticator = CheckerWaited(@), !.ipcp = Expire(@)]

LEMMA ExpiredKeeps ==
  ASSUME NEW l, NEW c \in Setting, NEW barred, Good(l, c, barred)
  PROVE  Good(Expired(l), c, barred)
<1>. DEFINE lcp  == Expire(l.lcp)
            ipcp == Expire(l.ipcp)
            p    == ProverWaited(l.prover)
            a    == CheckerWaited(l.authenticator)
            k    == [l EXCEPT !.prover = p, !.authenticator = a]
            m    == [k EXCEPT !.ipcp = ipcp]
            n    == [m EXCEPT !.lcp = lcp]
<1>0. l \in Link
  BY DEF Good
<1>1. /\ Timed(lcp) /\ lcp.protocol \in Lcp /\ lcp.protocol.wanted = c.demands
      /\ Timed(ipcp) /\ ipcp.protocol \in Ipcp /\ (barred => Shut(ipcp))
  BY ExpireKeeps, ShutExpire DEF Good
<1>2. p \in ProverOf(c.account) \cup {Idle}
  BY GoodParts, ProverWaitedKeeps DEF Good, ProverWaited
<1>3. /\ a \in CheckerOf(barred, c.account) \cup {Idle}
      /\ l.authenticator # Idle => a # Idle
  <2>1. l.authenticator = Idle => a = Idle
    BY DEF CheckerWaited
  <2>2. l.authenticator # Idle => a \in CheckerOf(barred, c.account)
    BY CheckerWaitedKeeps DEF Good
  <2>. QED
    BY <2>1, <2>2, IdleApart
<1>4. n = Expired(l)
  BY <1>0 DEF Link, Expired
<1>5. Good(k, c, barred)
  <2>1. barred => (l.phase = "Authenticate" => a # Idle)
    BY <1>3 DEF Good
  <2>. HIDE DEF p, a
  <2>. QED
    BY <1>2, <1>3, <2>1, SetEnds
<1>6. Good(m, c, barred)
  <2>. HIDE DEF k, ipcp
  <2>. QED
    BY <1>1, <1>5, SetIpcp
<1>7. Good(n, c, barred)
  <2>. HIDE DEF m, lcp
  <2>. QED
    BY <1>1, <1>6, SetLcp
<1>. QED
  BY <1>4, <1>7

LEMMA TickKeeps ==
  ASSUME NEW l, NEW c \in Setting, NEW barred, Good(l, c, barred)
  PROVE  Good(Tick(l), c, barred) /\ Clear(Tick(l))
BY ExpiredKeeps, PumpKeeps DEF Tick, Expired

LEMMA NewSessionTimed ==
  ASSUME NEW p \in Lcp \cup Ipcp
  PROVE  Timed(NewSession(p)) /\ Shut(NewSession(p)) /\ NewSession(p).protocol = p
<1>1. <<>> \in Seq(Message) /\ <<>> \in Seq({"Up", "Down", "Started", "Finished"})
  OBVIOUS
<1>2. 0 \in Id /\ 1 % IdModulus \in Id
  BY IdType, SessionLimits DEF Id
<1>3. "Initial" \in State /\ ~Waits("Initial")
  BY WaitsWhere DEF State
<1>4. NewSession(p) \in Session
  BY <1>1, <1>2, <1>3 DEF NewSession, Session
<1>. QED
  BY <1>3, <1>4 DEF NewSession, Timed, Shut

LEMMA NewLinkGood ==
  ASSUME NEW c \in Setting, NEW barred, barred => c.demands # "None"
  PROVE  Good(NewLink(c), c, barred)
<1>. DEFINE lcp  == NewSession(NewLcp(c.demands))
            ipcp == NewSession(NewIpcp(c.local, c.remote, c.compress))
<1>1. /\ NewLcp(c.demands) \in Lcp /\ NewLcp(c.demands).wanted = c.demands
      /\ NewIpcp(c.local, c.remote, c.compress) \in Ipcp
  BY DEF Setting, NewLcp, NewIpcp, Lcp, Ipcp, Method
<1>2. /\ Timed(lcp) /\ lcp.protocol \in Lcp /\ lcp.protocol.wanted = c.demands
      /\ Timed(ipcp) /\ ipcp.protocol \in Ipcp /\ Shut(ipcp)
  BY <1>1, NewSessionTimed
<1>3. lcp \in Session /\ ipcp \in Session
  BY <1>2 DEF Timed
<1>4. <<>> \in Seq(Frame) /\ <<>> \in Seq(FrameOf(c.account))
  OBVIOUS
<1>5. c.account \in Account
  BY DEF Setting
<1>6. NewLink(c) = [phase |-> "Dead", lcp |-> lcp, ipcp |-> ipcp,
                    account |-> c.account, prover |-> Idle, authenticator |-> Idle,
                    coded |-> FALSE, reads |-> FALSE, compressor |-> FALSE,
                    decompressor |-> FALSE, line |-> <<>>]
  BY DEF NewLink
<1>. HIDE DEF lcp, ipcp
<1>7. NewLink(c) \in Link
  BY <1>3, <1>4, <1>5, <1>6 DEF Link, Phase
<1>. QED
  BY <1>2, <1>4, <1>6, <1>7 DEF Good

-----------------------------------------------------------------------------
(* Two links over a call.                                                  *)

\* End e asks for a password that the far end has not got.
Barred(e) == call[e].demands # "None" /\ call[Peer(e)].account = "wrong"

Linked ==
  /\ call \in Calls /\ link \in [Ends -> Link] /\ wire \in [Ends -> Seq(Frame)]
  /\ \A e \in Ends : /\ Good(link[e], call[e], Barred(e)) /\ Clear(link[e])
                     /\ wire[e] \in Seq(FrameOf(call[e].account))

Counted ==
  /\ opened \in [Ends -> BOOLEAN] /\ ahead \in Ends \cup {"neither"}
  /\ losses \in Nat /\ early \in Nat /\ closes \in [Ends -> Nat]

IInv == Linked /\ Counted

LEMMA Peers == \A e \in Ends : Peer(e) \in Ends /\ Peer(e) # e /\ Peer(Peer(e)) = e
                               /\ \A d \in Ends : d = e \/ d = Peer(e)
BY DEF Ends, Peer

LEMMA Settings == ASSUME call \in Calls
                  PROVE  \A e \in Ends : call[e] \in Setting
BY PppBounds

LEMMA NowKeeps ==
  ASSUME Linked, NEW e \in Ends, NEW l, Good(l, call[e], Barred(e)), Clear(l), NEW heard \in {0, 1},
         heard <= Len(wire[Peer(e)]), Now(e, l, heard)
  PROVE  Linked'
<1>. DEFINE d == Peer(e)
            k == [l EXCEPT !.line = <<>>]
            mine   == wire[e] \o l.line
            theirs == SubSeq(wire[d], heard + 1, Len(wire[d]))
<1>1. /\ call \in Calls /\ link \in [Ends -> Link] /\ wire \in [Ends -> Seq(Frame)]
      /\ call' = call
  BY DEF Linked, Now
<1>2. d \in Ends /\ d # e /\ \A f \in Ends : f = e \/ f = d
  BY Peers
<1>3. call[e] \in Setting /\ call[d] \in Setting
  BY <1>1, <1>2, Settings
<1>4. Good(k, call[e], Barred(e)) /\ Clear(k)
  <2>1. <<>> \in Seq(FrameOf(call[e].account))
    OBVIOUS
  <2>2. Clear(k)
    BY DEF Good, Link, Clear, Silent, AuthOut
  <2>. QED
    BY <1>3, <2>1, <2>2, SetLine
<1>5. mine \in Seq(FrameOf(call[e].account))
  <2>1. wire[e] \in Seq(FrameOf(call[e].account)) /\ l.line \in Seq(FrameOf(call[e].account))
    BY DEF Linked, Good
  <2>. QED
    BY <2>1, ConcatProperties
<1>6. theirs \in Seq(FrameOf(call[d].account))
  <2>1. wire[d] \in Seq(FrameOf(call[d].account))
    BY <1>2 DEF Linked
  <2>2. heard + 1 \in 1 .. Len(wire[d]) + 1 /\ Len(wire[d]) \in heard + 1 - 1 .. Len(wire[d])
    BY <2>1
  <2>. QED
    BY <2>1, <2>2, SubSeqProperties
<1>7. link' = [link EXCEPT ![e] = k] /\ wire' = [wire EXCEPT ![e] = mine, ![d] = theirs]
  BY <1>1, <1>2 DEF Now
<1>8. mine \in Seq(Frame) /\ theirs \in Seq(Frame) /\ k \in Link
  BY <1>4, <1>5, <1>6, FramesType DEF Good
<1>. HIDE DEF k, mine, theirs, d
<1>9. /\ link' \in [Ends -> Link] /\ wire' \in [Ends -> Seq(Frame)]
      /\ link'[e] = k /\ link'[d] = link[d] /\ wire'[e] = mine /\ wire'[d] = theirs
  BY <1>1, <1>2, <1>7, <1>8
<1>10. \A f \in Ends : Barred(f)' <=> Barred(f)
  BY <1>1 DEF Barred
<1>11. Good(link'[e], call'[e], Barred(e)') /\ Clear(link'[e])
  BY <1>1, <1>4, <1>9, <1>10 DEF Barred
<1>12. Good(link'[d], call'[d], Barred(d)') /\ Clear(link'[d])
  <2>1. Good(link[d], call[d], Barred(d)) /\ Clear(link[d])
    BY <1>2 DEF Linked
  <2>. QED
    BY <1>1, <1>9, <2>1 DEF Barred
<1>13. /\ wire'[e] \in Seq(FrameOf(call'[e].account))
       /\ wire'[d] \in Seq(FrameOf(call'[d].account))
  BY <1>1, <1>5, <1>6, <1>9
<1>. QED
  BY <1>1, <1>2, <1>9, <1>11, <1>12, <1>13 DEF Linked

LEMMA NoneHeard ==
  ASSUME Linked, NEW e \in Ends
  PROVE  0 <= Len(wire[Peer(e)])
BY Peers DEF Linked

LEMMA InitIInv == Init => IInv
<1>. SUFFICES ASSUME Init
              PROVE  IInv
  OBVIOUS
<1>1. call \in Calls /\ \A e \in Ends : call[e] \in Setting
  BY Settings DEF Init
<1>2. \A e \in Ends : Good(NewLink(call[e]), call[e], Barred(e)) /\ Clear(NewLink(call[e]))
  <2>1. \A e \in Ends : Clear(NewLink(call[e]))
    BY DEF NewLink, NewSession, Clear, Silent, AuthOut
  <2>. QED
    BY <1>1, <2>1, NewLinkGood DEF Barred
<1>3. \A e \in Ends : NewLink(call[e]) \in Link
  BY <1>2 DEF Good
<1>4. <<>> \in Seq(Frame) /\ \A e \in Ends : <<>> \in Seq(FrameOf(call[e].account))
  OBVIOUS
<1>5. Linked
  BY <1>1, <1>2, <1>3, <1>4 DEF Init, Linked
<1>6. Counted
  BY DEF Init, Counted
<1>. QED
  BY <1>5, <1>6 DEF IInv

LEMMA OpenEndKeeps ==
  ASSUME IInv, NEW e \in Ends, OpenEnd(e)
  PROVE  IInv'
<1>1. Linked /\ Counted /\ call[e] \in Setting /\ Good(link[e], call[e], Barred(e))
  BY Settings DEF IInv, Linked
<1>2. Good(OpenLink(link[e]), call[e], Barred(e)) /\ Clear(OpenLink(link[e]))
  BY <1>1, OpenLinkKeeps
<1>3. Linked'
  BY <1>1, <1>2, NoneHeard, NowKeeps DEF OpenEnd
<1>4. Counted'
  BY <1>1 DEF OpenEnd, Counted, environment
<1>. QED
  BY <1>3, <1>4 DEF IInv

LEMMA CloseEndKeeps ==
  ASSUME IInv, NEW e \in Ends, CloseEnd(e)
  PROVE  IInv'
<1>1. Linked /\ Counted /\ call[e] \in Setting /\ Good(link[e], call[e], Barred(e))
  BY Settings DEF IInv, Linked
<1>2. Good(UserCloses(link[e]), call[e], Barred(e)) /\ Clear(UserCloses(link[e]))
  BY <1>1, UserClosesKeeps
<1>3. Linked'
  BY <1>1, <1>2, NoneHeard, NowKeeps DEF CloseEnd
<1>4. Counted'
  BY <1>1 DEF CloseEnd, Counted
<1>. QED
  BY <1>3, <1>4 DEF IInv

LEMMA ReceivesKeeps ==
  ASSUME IInv, NEW e \in Ends, NEW protocol, Receives(e, protocol)
  PROVE  IInv'
<1>. DEFINE d == Peer(e)
            f == Head(wire[d])
<1>1. Linked /\ Counted /\ call[e] \in Setting /\ Good(link[e], call[e], Barred(e))
  BY Settings DEF IInv, Linked
<1>2. d \in Ends /\ wire[d] \in Seq(FrameOf(call[d].account)) /\ wire[d] # <<>>
  BY <1>1, Peers DEF Linked, Receives, Arrives
<1>3. f \in FrameOf(call[d].account) /\ 1 <= Len(wire[d])
  BY <1>2
<1>4. Barred(e) => call[d].account = "wrong"
  BY DEF Barred
<1>5. Good(Feed(link[e], f), call[e], Barred(e)) /\ Clear(Feed(link[e], f))
  <2>. HIDE DEF f
  <2>. QED
    BY <1>1, <1>3, <1>4, FeedKeeps
<1>6. Now(e, Feed(link[e], f), 1)
  BY DEF Receives
<1>7. Linked'
  <2>. HIDE DEF f
  <2>. QED
    BY <1>1, <1>3, <1>5, <1>6, NowKeeps
<1>8. Counted'
  BY <1>1 DEF Receives, Counted, environment
<1>. QED
  BY <1>7, <1>8 DEF IInv

LEMMA LoseKeeps ==
  ASSUME IInv, NEW e \in Ends, Lose(e)
  PROVE  IInv'
<1>. DEFINE rest == Tail(wire[e])
<1>1. Linked /\ Counted
  BY DEF IInv
<1>2. /\ wire[e] # <<>> /\ wire' = [wire EXCEPT ![e] = rest]
      /\ UNCHANGED <<call, link>>
  BY DEF Lose
<1>3. wire \in [Ends -> Seq(Frame)] /\ wire[e] \in Seq(FrameOf(call[e].account))
  BY <1>1 DEF Linked
<1>4. rest \in Seq(FrameOf(call[e].account))
  BY <1>2, <1>3
<1>5. rest \in Seq(Frame)
  BY <1>4, FramesType
<1>. HIDE DEF rest
<1>6. \A d \in Ends : wire'[d] \in Seq(FrameOf(call[d].account))
  BY <1>1, <1>2, <1>3, <1>4 DEF Linked
<1>7. Linked'
  BY <1>1, <1>2, <1>3, <1>5, <1>6 DEF Linked, Barred
<1>8. Counted'
  BY <1>1 DEF Lose, Counted
<1>. QED
  BY <1>7, <1>8 DEF IInv

\* An interval passes, early or not.
LEMMA TicksKeep ==
  ASSUME IInv, NEW e \in Ends, Interval(e) \/ EarlyInterval(e)
  PROVE  IInv'
<1>1. Linked /\ Counted /\ call[e] \in Setting /\ Good(link[e], call[e], Barred(e))
  BY Settings DEF IInv, Linked
<1>2. Good(Tick(link[e]), call[e], Barred(e)) /\ Clear(Tick(link[e]))
  BY <1>1, TickKeeps
<1>3. Now(e, Tick(link[e]), 0)
  BY DEF Interval, EarlyInterval
<1>4. Linked'
  BY <1>1, <1>2, <1>3, NoneHeard, NowKeeps
<1>5. Counted'
  BY <1>1 DEF Interval, EarlyInterval, Counted, environment
<1>. QED
  BY <1>4, <1>5 DEF IInv

LEMMA NextIInv == IInv /\ [Next]_vars => IInv'
<1>. SUFFICES ASSUME IInv, [Next]_vars
              PROVE  IInv'
  OBVIOUS
<1>1. CASE UNCHANGED vars
  BY <1>1 DEF IInv, Linked, Counted, Barred, vars
<1>2. ASSUME NEW e \in Ends, Step(e)
      PROVE  IInv'
  <2>1. CASE OpenEnd(e)
    BY <2>1, OpenEndKeeps
  <2>2. CASE CloseEnd(e)
    BY <2>2, CloseEndKeeps
  <2>3. CASE ReceiveLcp(e) \/ ReceiveIpcp(e) \/ ReceiveAuth(e)
    BY <2>3, ReceivesKeeps DEF ReceiveLcp, ReceiveIpcp, ReceiveAuth
  <2>4. CASE Lose(e)
    BY <2>4, LoseKeeps
  <2>5. CASE Interval(e) \/ EarlyInterval(e)
    BY <2>5, TicksKeep
  <2>. QED
    BY <1>2, <2>1, <2>2, <2>3, <2>4, <2>5 DEF Step
<1>. QED
  BY <1>1, <1>2 DEF Next

\* Whatever Ppp does keeps both links good: every handler of link.rs, with all
\* the rounds of pump after it.
THEOREM Inductive == Spec => []IInv
BY InitIInv, NextIInv, PTL DEF Spec

LEMMA IInvGives == IInv => TypeOK /\ TimerRuns /\ NotLetIn /\ NothingLeftOver
<1>. SUFFICES ASSUME IInv
              PROVE  TypeOK /\ TimerRuns /\ NotLetIn /\ NothingLeftOver
  OBVIOUS
<1>1. TypeOK
  BY DEF IInv, Linked, Counted, TypeOK
<1>2. TimerRuns
  BY DEF IInv, Linked, Good, Timed, TimerRuns
<1>3. NotLetIn
  BY DEF IInv, Linked, Good, Barred, NotLetIn, Carries
<1>4. NothingLeftOver
  BY DEF IInv, Linked, Clear, Silent, NothingLeftOver
<1>. QED
  BY <1>1, <1>2, <1>3, <1>4

\* Every state of the two links, of their sessions and of what is on its way
\* has its type: Link, Session, Prover and Authenticator of crates/ppp/src.
THEOREM Typed == Spec => []TypeOK
BY Inductive, IInvGives, PTL

\* session.rs: a session has its Restart timer running exactly in the states
\* that wait for an answer, so that none of them is left without a timeout.
THEOREM TimerAlwaysRuns == Spec => []TimerRuns
BY Inductive, IInvGives, PTL

\* auth.rs, link.rs: an end that asks for a password never carries IP to a far
\* end that has not the right one, whatever is lost, late or said twice.
THEOREM StrangersStayOut == Spec => []NotLetIn
BY Inductive, IInvGives, PTL

\* link.rs: whatever an end is told, the six rounds of pump say and report
\* everything, so that nothing waits for the next frame or the next tick.
THEOREM NothingIsLeftOver == Spec => []NothingLeftOver
BY Inductive, IInvGives, PTL

-----------------------------------------------------------------------------
(* What the two ends come to mean by an address and by compression.        *)

\* The address that the end set to c ends up with when the other is set to d:
\* the one the far end knows for it, or else its own.
Settled(c, d) == IF d.remote = Unspecified THEN c.local ELSE d.remote

\* Either both ends compress, or neither does.
Both(c, d) == c.compress /\ d.compress

\* What an end set to c may say of IPCP to one set to d.
Word(c, d) ==
  {m \in Message :
     /\ m.code = "Request" => /\ m.options.address \in {c.local, Settled(c, d)}
                              /\ m.options.compression => c.compress
                              /\ Both(c, d) => m.options.compression
     /\ m.code = "Ack" => /\ m.options.address = Settled(d, c)
                          /\ m.options.compression = Both(c, d)
     /\ m.code = "Nak" => m.options.address = Settled(d, c)
     /\ m.code = "Reject" => (m.options.compression => ~ c.compress)}

\* What it may believe, from the first on.
Means(p, c, d) ==
  /\ p.local \in {c.local, Settled(c, d)} /\ p.remote \in {c.remote, Settled(d, c)}
  /\ p.header_compression = c.compress
  /\ p.offering => c.compress
  /\ Both(c, d) => p.offering

\* What it knows once it has acknowledged a request, and once its own has been.
Granted(p, c, d) == p.remote = Settled(d, c) /\ p.sending = Both(c, d)
Assured(p, c, d) == p.local = Settled(c, d) /\ p.receiving = Both(c, d)

Granting == {"AckSent", "Opened"}
Assuring == {"AckRcvd", "Opened"}

Knows(s, c, d) ==
  /\ Means(s.protocol, c, d) /\ s.out \in Seq(Word(c, d))
  /\ s.state \in Granting => Granted(s.protocol, c, d)
  /\ s.state \in Assuring => Assured(s.protocol, c, d)

\* A report that the session is no longer open waits to be taken.
Ending == {"Down", "Finished"}
Falls(s) == \E i \in 1 .. Len(s.reports) : s.reports[i] \in Ending

\* A report that it is open is true, or another behind it takes it back.
Told(s) ==
  \A i \in 1 .. Len(s.reports) : s.reports[i] = "Up" =>
    s.state = "Opened" \/ \E j \in i + 1 .. Len(s.reports) : s.reports[j] \in Ending

\* An open session goes on as it was, or reports that it does not.
Steady(s, u) ==
  /\ Falls(s) => Falls(u)
  /\ s.state = "Opened" => Falls(u) \/ (u.state = "Opened" /\ u.protocol = s.protocol)

Follows(s, u, c, d) == Knows(u, c, d) /\ Told(u) /\ Steady(s, u)

-----------------------------------------------------------------------------
(* The cells of the table again.                                           *)

\* A session comes to be open with a report, and stays so or reports that too.
Tells(t, state) == t # Illegal =>
  /\ state = "Opened" =>
       (t.actions = {} /\ t.next = "Opened") \/ ("tld" \in t.actions /\ "tlu" \notin t.actions)
  /\ "tlu" \in t.actions => t.next = "Opened"
  /\ t.next = "Opened" => state = "Opened" \/ "tlu" \in t.actions

LEMMA UpTells == \A state \in State : Tells(Up[state], state)
BY RowFields, ToFields DEF Up, State, Tells, To, Illegal, Go, Asked

LEMMA DownTells == \A state \in State : Tells(Down[state], state)
BY RowFields, ToFields DEF Down, State, Tells, To, Illegal, Go, Dropped

LEMMA OpenTells == \A state \in State : Tells(Open[state], state)
BY RowFields, ToFields DEF Open, State, Tells, To, Illegal, Go, Asked

LEMMA CloseTells == \A state \in State : Tells(Close[state], state)
BY RowFields, ToFields DEF Close, State, Tells, To, Illegal, Go, Ended

LEMMA TimeoutTells ==
  \A state \in State : /\ Tells(TimeoutWithRestarts[state], state)
                       /\ Tells(TimeoutNoRestarts[state], state)
<1>1. \A state \in State : Tells(TimeoutWithRestarts[state], state)
  BY RowFields, ToFields DEF TimeoutWithRestarts, State, Tells, To, Illegal, Crossed
<1>2. \A state \in State : Tells(TimeoutNoRestarts[state], state)
  BY RowFields, ToFields DEF TimeoutNoRestarts, State, Tells, To, Illegal, Finished
<1>. QED
  BY <1>1, <1>2

LEMMA RequestGoodTells == \A state \in State : Tells(RequestGood[state], state)
BY RowFields, ToFields DEF RequestGood, State, Tells, To, Illegal, Go, Refused

LEMMA RequestBadTells == \A state \in State : Tells(RequestBad[state], state)
BY RowFields, ToFields DEF RequestBad, State, Tells, To, Illegal, Go, Refused

LEMMA ConfigureAckTells == \A state \in State : Tells(ConfigureAck[state], state)
BY RowFields, ToFields DEF ConfigureAck, State, Tells, To, Illegal, Go, Refused, Crossed, Reopened

LEMMA ConfigureNakTells == \A state \in State : Tells(ConfigureNak[state], state)
BY RowFields, ToFields
   DEF ConfigureNak, State, Tells, To, Illegal, Go, Refused, Crossed, Reopened, Asked

LEMMA TerminateTells ==
  \A state \in State : /\ Tells(TerminateRequest[state], state)
                       /\ Tells(TerminateAck[state], state)
<1>1. \A state \in State : Tells(TerminateRequest[state], state)
  BY RowFields, ToFields DEF TerminateRequest, State, Tells, To, Illegal, Refused
<1>2. \A state \in State : Tells(TerminateAck[state], state)
  BY RowFields, ToFields DEF TerminateAck, State, Tells, To, Illegal, Go, Finished, Reopened
<1>. QED
  BY <1>1, <1>2

LEMMA AllTell == \A event \in TABLE : \A state \in State : Tells(event[state], state)
BY UpTells, DownTells, OpenTells, CloseTells, TimeoutTells, RequestGoodTells, RequestBadTells,
   ConfigureAckTells, ConfigureNakTells, TerminateTells DEF TABLE

\* Only a good request makes a session one that has acknowledged, only an
\* acknowledgement one that has been, and only requests are answered so.
Grants(event) == \A state \in State : LET t == event[state] IN
  t # Illegal => /\ event # RequestGood => (t.next \in Granting => state \in Granting)
                 /\ event # ConfigureAck => (t.next \in Assuring => state \in Assuring)
                 /\ event # RequestGood => "sca" \notin t.actions
                 /\ event # RequestBad => "scn" \notin t.actions

LEMMA OwnGrants ==
  Grants(Up) /\ Grants(Down) /\ Grants(Open) /\ Grants(Close)
  /\ Grants(TimeoutWithRestarts) /\ Grants(TimeoutNoRestarts)
<1>1. Grants(Up)
  BY RowFields, ToFields DEF Up, State, Grants, Granting, Assuring, To, Illegal, Go, Asked
<1>2. Grants(Down)
  BY RowFields, ToFields DEF Down, State, Grants, Granting, Assuring, To, Illegal, Go, Dropped
<1>3. Grants(Open)
  BY RowFields, ToFields DEF Open, State, Grants, Granting, Assuring, To, Illegal, Go, Asked
<1>4. Grants(Close)
  BY RowFields, ToFields DEF Close, State, Grants, Granting, Assuring, To, Illegal, Go, Ended
<1>5. Grants(TimeoutWithRestarts)
  BY RowFields, ToFields
     DEF TimeoutWithRestarts, State, Grants, Granting, Assuring, To, Illegal, Crossed
<1>6. Grants(TimeoutNoRestarts)
  BY RowFields, ToFields
     DEF TimeoutNoRestarts, State, Grants, Granting, Assuring, To, Illegal, Finished
<1>. QED
  BY <1>1, <1>2, <1>3, <1>4, <1>5, <1>6

LEMMA HeardGrants ==
  Grants(RequestGood) /\ Grants(RequestBad) /\ Grants(ConfigureAck) /\ Grants(ConfigureNak)
  /\ Grants(TerminateRequest) /\ Grants(TerminateAck)
<1>1. Grants(RequestGood)
  BY RowFields, ToFields
     DEF RequestGood, State, Grants, Granting, Assuring, To, Illegal, Go, Refused
<1>2. Grants(RequestBad)
  BY RowFields, ToFields
     DEF RequestBad, State, Grants, Granting, Assuring, To, Illegal, Go, Refused
<1>3. Grants(ConfigureAck)
  BY RowFields, ToFields
     DEF ConfigureAck, State, Grants, Granting, Assuring, To, Illegal, Go, Refused, Crossed,
         Reopened
<1>4. Grants(ConfigureNak)
  BY RowFields, ToFields
     DEF ConfigureNak, State, Grants, Granting, Assuring, To, Illegal, Go, Refused, Crossed,
         Reopened, Asked
<1>5. Grants(TerminateRequest)
  BY RowFields, ToFields
     DEF TerminateRequest, State, Grants, Granting, Assuring, To, Illegal, Refused
<1>6. Grants(TerminateAck)
  BY RowFields, ToFields
     DEF TerminateAck, State, Grants, Granting, Assuring, To, Illegal, Go, Finished, Reopened
<1>. QED
  BY <1>1, <1>2, <1>3, <1>4, <1>5, <1>6

LEMMA AllGrant == \A event \in TABLE : Grants(event)
BY OwnGrants, HeardGrants DEF TABLE

\* An answer to a request takes an open session down.
LEMMA OpenedLeaves ==
  \A event \in {RequestGood, ConfigureAck, ConfigureNak} :
    event["Opened"] # Illegal /\ "tld" \in event["Opened"].actions
                              /\ "tlu" \notin event["Opened"].actions
BY RowFields, ToFields
   DEF RequestGood, ConfigureAck, ConfigureNak, To, Illegal, Reopened

-----------------------------------------------------------------------------
(* What a session says and reports when it fires.                          *)

LEMMA SendSays ==
  ASSUME NEW c, NEW d, NEW s \in Session, s.out \in Seq(Word(c, d)), NEW code \in Code,
         NEW id \in Id, NEW options \in Options,
         [code |-> code, id |-> id, options |-> options] \in Word(c, d)
  PROVE  /\ Send(s, code, id, options).out \in Seq(Word(c, d))
         /\ Send(s, code, id, options).answering = s.answering
         /\ Send(s, code, id, options).nak_is_reject = s.nak_is_reject
<1>. DEFINE m == [code |-> code, id |-> id, options |-> options]
<1>1. Append(s.out, m) \in Seq(Word(c, d))
  OBVIOUS
<1>. HIDE DEF m
<1>2. Send(s, code, id, options) = [s EXCEPT !.out = Append(s.out, m)]
  BY DEF Send, m, Session
<1>. QED
  BY <1>1, <1>2 DEF Session

LEMMA CountSays ==
  ASSUME NEW s \in Session, NEW actions
  PROVE  /\ Count(s, actions).out = s.out /\ Count(s, actions).answering = s.answering
         /\ Count(s, actions).nak_is_reject = s.nak_is_reject
BY DEF Count, Session

LEMMA AskingSays ==
  ASSUME NEW c, NEW d, NEW s \in Session, s.out \in Seq(Word(c, d)), NEW code \in Code,
         NEW options \in Options,
         [code |-> code, id |-> s.next_id, options |-> options] \in Word(c, d)
  PROVE  /\ Asking(s, code, options).out \in Seq(Word(c, d))
         /\ Asking(s, code, options).answering = s.answering
         /\ Asking(s, code, options).nak_is_reject = s.nak_is_reject
<1>. DEFINE k == Send(s, code, s.next_id, options)
<1>1. s.next_id \in Id
  BY DEF Session
<1>2. /\ k \in Session /\ k.out \in Seq(Word(c, d)) /\ k.answering = s.answering
      /\ k.nak_is_reject = s.nak_is_reject
  <2>1. k \in Session
    BY <1>1, SendType
  <2>2. /\ k.out \in Seq(Word(c, d)) /\ k.answering = s.answering
        /\ k.nak_is_reject = s.nak_is_reject
    BY <1>1, SendSays
  <2>. QED
    BY <2>1, <2>2
<1>3. Asking(s, code, options) = [k EXCEPT !.id = s.next_id,
                                           !.next_id = (s.next_id + 1) % IdModulus,
                                           !.restarts = IF @ > 0 THEN @ - 1 ELSE 0, !.timer = TRUE]
  BY DEF Asking
<1>. HIDE DEF k
<1>. QED
  BY <1>2, <1>3 DEF Session

LEMMA AskSays ==
  ASSUME NEW c \in Setting, NEW d \in Setting, NEW s \in Session, s.protocol \in Ipcp,
         s.out \in Seq(Word(c, d)), Means(s.protocol, c, d), NEW actions
  PROVE  /\ Ask(s, actions).out \in Seq(Word(c, d)) /\ Ask(s, actions).answering = s.answering
         /\ Ask(s, actions).nak_is_reject = s.nak_is_reject
<1>. DEFINE o == RequestOptions(s.protocol)
<1>1. o \in Options /\ NoOptions \in Options /\ s.next_id \in Id
  BY OptionsType DEF Session
<1>2. o.address = s.protocol.local /\ o.compression = s.protocol.offering
  BY DEF RequestOptions, NoOptions, Ipcp
<1>3. [code |-> "Request", id |-> s.next_id, options |-> o] \in Word(c, d)
  <2>. HIDE DEF o
  <2>. QED
    BY <1>1, <1>2 DEF Word, Message, Code, Means
<1>4. [code |-> "TerminateRequest", id |-> s.next_id, options |-> NoOptions] \in Word(c, d)
  BY <1>1 DEF Word, Message, Code
<1>. HIDE DEF o
<1>. QED
  BY <1>1, <1>3, <1>4, AskingSays DEF Ask, Code, o

\* Of what is answered, the code and the options matter.
Answerable(s, actions, c, d) ==
  /\ s.answering # Nobody
  /\ [code |-> AnswerCode(s, actions), id |-> s.answering.id, options |-> s.answering.options]
       \in Word(c, d)

LEMMA AnswerSays ==
  ASSUME NEW c \in Setting, NEW d \in Setting, NEW s \in Session, s.out \in Seq(Word(c, d)),
         NEW actions, actions \cap {"sca", "scn"} # {} => Answerable(s, actions, c, d)
  PROVE  Answer(s, actions).out \in Seq(Word(c, d))
<1>. DEFINE k == [s EXCEPT !.answering = Nobody]
<1>1. k \in Session /\ k.out = s.out
  BY DEF Session
<1>. HIDE DEF k
<1>2. s.id \in Id /\ s.answering \in [id : Id, options : Options] \cup {Nobody}
  BY DEF Session
<1>3. s.answering # Nobody => s.answering.id \in Id /\ s.answering.options \in Options
  BY <1>2
<1>4. AnswerCode(s, actions) \in Code
  BY DEF AnswerCode, Code
<1>5. Answer(s, actions) =
        IF "sta" \in actions
        THEN Send(k, "TerminateAck",
                  IF s.answering = Nobody THEN s.id ELSE s.answering.id, NoOptions)
        ELSE IF actions \cap {"sca", "scn"} # {} /\ s.answering # Nobody
        THEN Send(k, AnswerCode(s, actions), s.answering.id, s.answering.options)
        ELSE s
  BY DEF Answer, k
<1>6. CASE "sta" \in actions
  <2>. DEFINE id == IF s.answering = Nobody THEN s.id ELSE s.answering.id
  <2>1. id \in Id /\ "TerminateAck" \in Code /\ NoOptions \in Options
    BY <1>2, <1>3, OptionsType DEF Code
  <2>2. Answer(s, actions) = Send(k, "TerminateAck", id, NoOptions)
    BY <1>5, <1>6
  <2>. HIDE DEF id
  <2>3. [code |-> "TerminateAck", id |-> id, options |-> NoOptions] \in Word(c, d)
    BY <2>1 DEF Word, Message
  <2>. QED
    BY <1>1, <2>1, <2>2, <2>3, SendSays
<1>7. CASE "sta" \notin actions /\ actions \cap {"sca", "scn"} # {} /\ s.answering # Nobody
  BY <1>1, <1>3, <1>4, <1>5, <1>7, SendSays DEF Answerable
<1>8. CASE "sta" \notin actions /\ ~(actions \cap {"sca", "scn"} # {} /\ s.answering # Nobody)
  BY <1>5, <1>8
<1>. QED
  BY <1>6, <1>7, <1>8

\* The answer that an event calls for is one this end may give.
Apt(s, event, c, d) ==
  /\ event = RequestGood =>
       /\ s.answering # Nobody /\ Granted(s.protocol, c, d)
       /\ [code |-> "Ack", id |-> s.answering.id, options |-> s.answering.options] \in Word(c, d)
  /\ event = RequestBad =>
       /\ s.answering # Nobody
       /\ [code |-> IF s.nak_is_reject THEN "Reject" ELSE "Nak", id |-> s.answering.id,
           options |-> s.answering.options] \in Word(c, d)
  /\ event = ConfigureAck => Assured(s.protocol, c, d)

LEMMA FireKnows ==
  ASSUME NEW c \in Setting, NEW d \in Setting, NEW s \in Session, s.protocol \in Ipcp,
         Knows(s, c, d), NEW event \in TABLE, Apt(s, event, c, d)
  PROVE  Knows(Fire(s, event), c, d)
<1>. SUFFICES ASSUME event[s.state] # Illegal
              PROVE  Knows(Fire(s, event), c, d)
  BY DEF Fire
<1>. DEFINE t     == event[s.state]
            u     == Fire(s, event)
            count == Count(s, t.actions)
            asked == Ask(count, t.actions)
<1>1. s.state \in State /\ Grants(event)
  BY AllGrant DEF Session
<1>2. /\ event # RequestGood => (t.next \in Granting => s.state \in Granting)
      /\ event # ConfigureAck => (t.next \in Assuring => s.state \in Assuring)
      /\ event # RequestGood => "sca" \notin t.actions
      /\ event # RequestBad => "scn" \notin t.actions
  BY <1>1 DEF Grants
<1>3. /\ u.state = t.next /\ u.protocol = s.protocol
      /\ u.out = Answer(asked, t.actions).out /\ asked \in Session
  BY FireShape
<1>. HIDE DEF t, u
<1>4. /\ count \in Session /\ count.protocol = s.protocol /\ count.out = s.out
      /\ count.answering = s.answering /\ count.nak_is_reject = s.nak_is_reject
  BY CountType, CountSays
<1>5. /\ asked.out \in Seq(Word(c, d)) /\ asked.answering = s.answering
      /\ asked.nak_is_reject = s.nak_is_reject
  <2>. HIDE DEF count
  <2>1. count.out \in Seq(Word(c, d)) /\ Means(count.protocol, c, d) /\ count.protocol \in Ipcp
    BY <1>4 DEF Knows
  <2>. QED
    BY <1>4, <2>1, AskSays
<1>. HIDE DEF count, asked
<1>6. t.actions \cap {"sca", "scn"} # {} => Answerable(asked, t.actions, c, d)
  <2>1. CASE "sca" \in t.actions
    <3>1. event = RequestGood /\ AnswerCode(asked, t.actions) = "Ack"
      BY <1>2, <2>1 DEF AnswerCode
    <3>. QED
      BY <1>5, <3>1 DEF Apt, Answerable
  <2>2. CASE "sca" \notin t.actions /\ "scn" \in t.actions
    <3>1. event = RequestBad
      BY <1>2, <2>2
    <3>2. AnswerCode(asked, t.actions) = IF s.nak_is_reject THEN "Reject" ELSE "Nak"
      BY <1>5, <2>2 DEF AnswerCode
    <3>. QED
      BY <1>5, <3>1, <3>2 DEF Apt, Answerable
  <2>. QED
    BY <2>1, <2>2
<1>7. u.out \in Seq(Word(c, d))
  BY <1>3, <1>5, <1>6, AnswerSays
<1>8. /\ u.state \in Granting => Granted(u.protocol, c, d)
      /\ u.state \in Assuring => Assured(u.protocol, c, d)
  BY <1>2, <1>3 DEF Knows, Apt
<1>9. Means(u.protocol, c, d)
  BY <1>3 DEF Knows
<1>. QED
  BY <1>7, <1>8, <1>9 DEF Knows, u

Report == {"Up", "Down", "Started", "Finished"}

\* What one more report, or none, does to what the reports say.
LEMMA MoreReports ==
  ASSUME NEW s, NEW u, s.reports \in Seq(Report), Told(s), NEW r,
         u.reports = s.reports \o r,
         \/ r = <<"Up">> /\ u.state = "Opened"
         \/ r = <<"Down">>
         \/ r \in {<<>>, <<"Started">>, <<"Finished">>}
              /\ (s.state = "Opened" => u.state = "Opened")
  PROVE  /\ Told(u) /\ (Falls(s) => Falls(u))
         /\ r = <<"Down">> => Falls(u)
<1>. DEFINE n == Len(s.reports)
<1>1. /\ n \in Nat /\ Len(r) \in {0, 1} /\ Len(u.reports) = n + Len(r)
      /\ \A i \in 1 .. n : u.reports[i] = s.reports[i] /\ s.reports[i] \in Report
      /\ Len(r) = 1 => u.reports[n + 1] = r[1] /\ n + 1 \in 1 .. Len(u.reports)
  <2>1. /\ \A x \in Report : <<x>> \in Seq(Report) /\ Len(<<x>>) = 1
        /\ <<>> \in Seq(Report) /\ Len(<<>>) = 0
    OBVIOUS
  <2>2. r = <<>> \/ \E x \in Report : r = <<x>>
    BY DEF Report
  <2>3. r \in Seq(Report) /\ Len(r) \in {0, 1}
    BY <2>1, <2>2
  <2>4. Len(u.reports) = n + Len(r)
    BY <2>3
  <2>5. \A i \in 1 .. n : u.reports[i] = s.reports[i] /\ s.reports[i] \in Report
    BY <2>3
  <2>6. Len(r) = 1 => u.reports[n + 1] = r[1]
    <3>. SUFFICES ASSUME Len(r) = 1
                  PROVE  u.reports[n + 1] = r[1]
      OBVIOUS
    <3>1. n \in Nat /\ n + 1 \in 1 .. n + 1 /\ ~ n + 1 <= n /\ n + 1 - n = 1
      OBVIOUS
    <3>. QED
      BY <2>3, <3>1, ConcatProperties
  <2>. QED
    BY <2>3, <2>4, <2>5, <2>6
<1>. DEFINE N == 1 .. Len(u.reports)
<1>2. Falls(s) => Falls(u)
  BY <1>1 DEF Falls
<1>3. r = <<"Down">> => Falls(u)
  <2>. SUFFICES ASSUME r = <<"Down">>
                PROVE  u.reports[n + 1] \in Ending /\ n + 1 \in N
    BY DEF Falls
  <2>. QED
    BY <1>1 DEF Ending
<1>4. ASSUME NEW i \in 1 .. Len(u.reports), u.reports[i] = "Up"
      PROVE  u.state = "Opened" \/ \E j \in i + 1 .. Len(u.reports) : u.reports[j] \in Ending
  <2>1. CASE i \in 1 .. n /\ s.state # "Opened"
    <3>1. PICK j \in i + 1 .. n : s.reports[j] \in Ending
      BY <1>1, <1>4, <2>1 DEF Told
    <3>. QED
      BY <1>1, <3>1
  <2>2. CASE i \in 1 .. n /\ r = <<"Down">>
    <3>1. u.reports[n + 1] \in Ending /\ n + 1 \in i + 1 .. Len(u.reports)
      BY <1>1, <2>2 DEF Ending
    <3>. QED
      BY <3>1
  <2>3. CASE i \in 1 .. n /\ s.state = "Opened" /\ r # <<"Down">>
    BY <2>3
  <2>4. CASE i \notin 1 .. n
    <3>1. i = n + 1 /\ Len(r) = 1 /\ r[1] = "Up"
      BY <1>1, <1>4, <2>4
    <3>. QED
      BY <3>1
  <2>. QED
    BY <2>1, <2>2, <2>3, <2>4
<1>. QED
  BY <1>2, <1>3, <1>4 DEF Told

LEMMA FireTells ==
  ASSUME NEW s \in Session, Told(s), NEW event \in TABLE
  PROVE  /\ Told(Fire(s, event)) /\ Steady(s, Fire(s, event))
         /\ s.state = "Opened" /\ event \in {RequestGood, ConfigureAck, ConfigureNak}
              => Falls(Fire(s, event))
<1>1. s.reports \in Seq(Report) /\ s.state \in State
  BY DEF Session, Report
<1>2. CASE event[s.state] = Illegal
  BY <1>2, OpenedLeaves DEF Fire, Steady
<1>3. CASE event[s.state] # Illegal
  <2>. DEFINE t == event[s.state]
              u == Fire(s, event)
              r == Reported(t.actions)
  <2>1. Tells(t, s.state)
    BY <1>1, AllTell
  <2>2. u.state = t.next /\ u.protocol = s.protocol /\ u.reports = s.reports \o r
    BY <1>3, FireShape
  <2>3. s.state = "Opened" /\ event \in {RequestGood, ConfigureAck, ConfigureNak}
          => "tld" \in t.actions /\ "tlu" \notin t.actions
    BY OpenedLeaves
  <2>. HIDE DEF u, t
  <2>4. r = <<"Up">> \/ r = <<"Down">> \/ r \in {<<>>, <<"Started">>, <<"Finished">>}
    BY DEF Reported
  <2>5. /\ "tlu" \in t.actions <=> r = <<"Up">>
        /\ "tld" \in t.actions /\ "tlu" \notin t.actions <=> r = <<"Down">>
        /\ t.actions = {} => r = <<>>
    BY DEF Reported
  <2>. HIDE DEF r
  <2>6. /\ r = <<"Up">> => u.state = "Opened"
        /\ s.state = "Opened" => r = <<"Down">> \/ u.state = "Opened"
    BY <1>3, <2>1, <2>2, <2>5 DEF Tells, t
  <2>7. /\ Told(u) /\ (Falls(s) => Falls(u))
        /\ r = <<"Down">> => Falls(u)
    BY <1>1, <2>2, <2>4, <2>6, MoreReports
  <2>. QED
    BY <2>2, <2>3, <2>5, <2>6, <2>7 DEF Steady, u
<1>. QED
  BY <1>2, <1>3

-----------------------------------------------------------------------------
(* What IPCP hears.                                                        *)

\* What this end's own events, and the far end's other packets, are not.
LEMMA EventsApart ==
  /\ RequestGood # RequestBad /\ RequestGood # ConfigureAck /\ RequestBad # ConfigureAck
  /\ \A event \in {Up, Down, Open, Close, TimeoutWithRestarts, TimeoutNoRestarts,
                   ConfigureNak, TerminateRequest, TerminateAck} :
       event \notin {RequestGood, RequestBad, ConfigureAck}
<1>1. /\ RequestGood["ReqSent"] = To({"sca"}, "AckSent")
      /\ RequestBad["ReqSent"] = To({"scn"}, "ReqSent")
      /\ ConfigureAck["ReqSent"] = To({"irc"}, "AckRcvd")
  BY RowFields DEF RequestGood, RequestBad, ConfigureAck
<1>2. /\ Up["ReqSent"] = Illegal /\ Down["ReqSent"] = Dropped
      /\ Open["ReqSent"] = Go("ReqSent") /\ Close["ReqSent"] = Ended
      /\ TimeoutWithRestarts["ReqSent"] = Crossed /\ TimeoutNoRestarts["ReqSent"] = Finished
      /\ ConfigureNak["ReqSent"] = Asked /\ TerminateRequest["ReqSent"] = To({"sta"}, "ReqSent")
      /\ TerminateAck["ReqSent"] = Go("ReqSent")
  BY RowFields DEF Up, Down, Open, Close, TimeoutWithRestarts, TimeoutNoRestarts, ConfigureNak,
                   TerminateRequest, TerminateAck
<1>3. RequestGood # RequestBad /\ RequestGood # ConfigureAck /\ RequestBad # ConfigureAck
  BY <1>1, ToFields
<1>4. \A event \in {Up, Down, Open, Close, TimeoutWithRestarts, TimeoutNoRestarts,
                    ConfigureNak, TerminateRequest, TerminateAck} :
        /\ event["ReqSent"].next \notin {"AckSent", "AckRcvd"}
        /\ "scn" \notin event["ReqSent"].actions
  BY <1>2, ToFields DEF Illegal, Dropped, Go, Ended, Crossed, Finished, Asked
<1>. QED
  BY <1>1, <1>3, <1>4, ToFields

LEMMA AgreeMeans ==
  ASSUME NEW c \in Setting, NEW d \in Setting, NEW p \in Ipcp, Means(p, c, d), NEW m \in Word(d, c),
         m.code = "Request", ~ Rejects(p, m.options), ~ Naks(p, m.options)
  PROVE  /\ Means(Agree(p, m.options), c, d) /\ Granted(Agree(p, m.options), c, d)
         /\ Assured(p, c, d) => Assured(Agree(p, m.options), c, d)
         /\ m.options.address = Settled(d, c) /\ m.options.compression = Both(c, d)
<1>. DEFINE o == m.options
            a == Agree(p, o)
<1>1. /\ o.address \in {d.local, Settled(d, c)} /\ o.compression \in BOOLEAN
      /\ o.compression => d.compress
      /\ Both(c, d) => o.compression
  BY DEF Word, Message, Options, Both
<1>2. /\ c.compress \in BOOLEAN /\ d.compress \in BOOLEAN /\ Both(c, d) \in BOOLEAN
      /\ c.remote \in Address /\ d.local \in Address /\ Settled(d, c) \in Address
      /\ "absent" \notin Address
  BY DEF Setting, Both, Settled, Address, Unspecified
<1>3. p.name = "Ipcp" /\ p.name # "Lcp"
  BY DEF Ipcp
<1>4. o.address # "absent"
  BY <1>1, <1>2
<1>5. o.compression => c.compress
  BY <1>3 DEF Rejects, Means
<1>6. o.compression = Both(c, d)
  BY <1>1, <1>2, <1>5 DEF Both
<1>7. p.remote = Unspecified \/ o.address = p.remote
  BY <1>3, <1>4 DEF Naks
<1>8. o.address = Settled(d, c)
  BY <1>1, <1>7 DEF Means, Settled
<1>9. /\ a.local = p.local /\ a.receiving = p.receiving /\ a.offering = p.offering
      /\ a.header_compression = p.header_compression /\ a.sending = o.compression
      /\ a.remote = IF o.address \in {"absent", Unspecified} THEN p.remote ELSE o.address
  BY <1>3 DEF Agree, Ipcp
<1>. HIDE DEF a, o
<1>10. a.remote = Settled(d, c)
  <2>1. CASE o.address = Unspecified
    <3>1. a.remote = p.remote
      BY <1>9, <2>1
    <3>. QED
      BY <1>8, <2>1, <3>1 DEF Means, Settled
  <2>. QED
    BY <1>4, <1>8, <1>9, <2>1
<1>11. Means(a, c, d) /\ Granted(a, c, d) /\ (Assured(p, c, d) => Assured(a, c, d))
  BY <1>6, <1>9, <1>10 DEF Means, Granted, Assured
<1>. QED
  BY <1>6, <1>8, <1>11 DEF a, o

LEMMA NaksMeans ==
  ASSUME NEW c \in Setting, NEW d \in Setting, NEW p \in Ipcp, Means(p, c, d), NEW o, Naks(p, o)
  PROVE  p.remote = Settled(d, c) /\ p.remote \in Address
BY DEF Naks, Means, Settled, Ipcp

LEMMA AckedMeans ==
  ASSUME NEW c \in Setting, NEW d \in Setting, NEW p \in Ipcp, Means(p, c, d), NEW m \in Word(d, c),
         m.code = "Ack"
  PROVE  /\ Means(Acked(p, m.options), c, d) /\ Assured(Acked(p, m.options), c, d)
         /\ Granted(p, c, d) => Granted(Acked(p, m.options), c, d)
<1>. DEFINE o == m.options
            a == Acked(p, o)
<1>1. o.address = Settled(c, d) /\ o.compression = Both(d, c)
  BY DEF Word
<1>2. Settled(c, d) # "absent" /\ Both(d, c) = Both(c, d)
  BY DEF Setting, Settled, Both, Address, Unspecified
<1>3. /\ a.local = o.address /\ a.receiving = o.compression /\ a.offering = p.offering
      /\ a.header_compression = p.header_compression /\ a.sending = p.sending
      /\ a.remote = p.remote
  BY <1>1, <1>2 DEF Acked, Ipcp
<1>. HIDE DEF a, o
<1>4. Means(a, c, d) /\ Assured(a, c, d) /\ (Granted(p, c, d) => Granted(a, c, d))
  BY <1>1, <1>2, <1>3 DEF Means, Granted, Assured
<1>. QED
  BY <1>4 DEF a, o

LEMMA NakedMeans ==
  ASSUME NEW c \in Setting, NEW d \in Setting, NEW p \in Ipcp, Means(p, c, d), NEW m \in Word(d, c),
         m.code \in {"Nak", "Reject"}
  PROVE  LET a == IF m.code = "Nak" THEN Naked(p, m.options) ELSE Rejected(p, m.options)
         IN  /\ Means(a, c, d)
             /\ Assured(p, c, d) => Assured(a, c, d)
             /\ Granted(p, c, d) => Granted(a, c, d)
<1>. DEFINE o == m.options
<1>1. m.code = "Nak" => o.address = Settled(c, d) /\ o.address # "absent"
  BY DEF Word, Setting, Settled, Address, Unspecified
<1>2. m.code = "Reject" => (o.compression => ~ d.compress)
  BY DEF Word
<1>3. ASSUME NEW a, a = Naked(p, o), m.code = "Nak"
      PROVE  /\ Means(a, c, d)
             /\ Assured(p, c, d) => Assured(a, c, d)
             /\ Granted(p, c, d) => Granted(a, c, d)
  <2>1. a = [p EXCEPT !.local = o.address]
    BY <1>1, <1>3 DEF Naked, Ipcp
  <2>2. /\ a.local = o.address /\ a.receiving = p.receiving /\ a.offering = p.offering
        /\ a.header_compression = p.header_compression /\ a.sending = p.sending
        /\ a.remote = p.remote
    BY <2>1 DEF Ipcp
  <2>. QED
    BY <1>1, <1>3, <2>2 DEF Means, Granted, Assured
<1>4. ASSUME NEW a, a = Rejected(p, o), m.code = "Reject"
      PROVE  /\ Means(a, c, d)
             /\ Assured(p, c, d) => Assured(a, c, d)
             /\ Granted(p, c, d) => Granted(a, c, d)
  <2>1. /\ a.local = p.local /\ a.receiving = p.receiving
        /\ a.offering = p.offering \/ (a.offering = FALSE /\ o.compression)
        /\ a.header_compression = p.header_compression /\ a.sending = p.sending
        /\ a.remote = p.remote
    BY <1>4 DEF Rejected, Ipcp
  <2>2. (a.offering => c.compress) /\ (Both(c, d) => a.offering)
    BY <1>2, <1>4, <2>1 DEF Means, Both
  <2>. QED
    BY <2>1, <2>2 DEF Means, Granted, Assured
<1>. QED
  BY <1>3, <1>4

\* A session that has changed what it believes or answers fires an event.
LEMMA TurnsFollow ==
  ASSUME NEW c \in Setting, NEW d \in Setting, NEW s, Told(s),
         NEW k \in Session, k.protocol \in Ipcp, k.state = s.state, k.reports = s.reports,
         Knows(k, c, d), NEW event \in TABLE, Apt(k, event, c, d),
         k.protocol = s.protocol \/ event \in {RequestGood, ConfigureAck, ConfigureNak}
  PROVE  Follows(s, Fire(k, event), c, d)
<1>1. Told(k) /\ (Falls(s) <=> Falls(k))
  BY DEF Told, Falls
<1>2. Knows(Fire(k, event), c, d)
  BY FireKnows
<1>3. /\ Told(Fire(k, event)) /\ Steady(k, Fire(k, event))
      /\ k.state = "Opened" /\ event \in {RequestGood, ConfigureAck, ConfigureNak}
           => Falls(Fire(k, event))
  BY <1>1, FireTells
<1>. QED
  BY <1>1, <1>2, <1>3 DEF Follows, Steady

\* The events that ask for no answer and remember nothing.
LEMMA PlainFollow ==
  ASSUME NEW c \in Setting, NEW d \in Setting, NEW s \in Session, s.protocol \in Ipcp,
         Knows(s, c, d), Told(s),
         NEW event \in {Up, Down, Open, Close, TimeoutWithRestarts, TimeoutNoRestarts,
                        TerminateRequest, TerminateAck}
  PROVE  Follows(s, Fire(s, event), c, d)
<1>1. Apt(s, event, c, d)
  BY EventsApart DEF Apt
<1>. QED
  BY <1>1, TurnsFollow DEF TABLE

LEMMA ExpireFollows ==
  ASSUME NEW c \in Setting, NEW d \in Setting, NEW s \in Session, s.protocol \in Ipcp,
         Knows(s, c, d), Told(s)
  PROVE  Follows(s, Expire(s), c, d)
<1>1. CASE ~ s.timer
  BY <1>1 DEF Expire, Follows, Steady
<1>2. CASE s.timer
  <2>. DEFINE k == [s EXCEPT !.timer = FALSE]
              event == IF s.restarts > 0 THEN TimeoutWithRestarts ELSE TimeoutNoRestarts
  <2>1. /\ k \in Session /\ k.protocol = s.protocol /\ k.state = s.state
        /\ k.reports = s.reports /\ k.out = s.out
    BY DEF Session
  <2>2. Expire(s) = Fire(k, event)
    BY <1>2 DEF Expire
  <2>3. event \in {TimeoutWithRestarts, TimeoutNoRestarts}
    OBVIOUS
  <2>. HIDE DEF k, event
  <2>4. Knows(k, c, d) /\ Apt(k, event, c, d)
    BY <2>1, <2>3, EventsApart DEF Knows, Apt
  <2>. QED
    BY <2>1, <2>2, <2>3, <2>4, TurnsFollow DEF TABLE
<1>. QED
  BY <1>1, <1>2

\* A request that is turned down.
LEMMA BadFollows ==
  ASSUME NEW c \in Setting, NEW d \in Setting, NEW s, Timed(s), s.protocol \in Ipcp,
         Knows(s, c, d), Told(s), NEW m \in Message, NEW o \in Options, NEW reject \in BOOLEAN,
         NEW failures \in Nat,
         [code |-> IF reject THEN "Reject" ELSE "Nak", id |-> m.id, options |-> o] \in Word(c, d)
  PROVE  Follows(s, Fire(Noted(s, m.id, o, failures, reject), RequestBad), c, d)
<1>. DEFINE k == Noted(s, m.id, o, failures, reject)
<1>1. m.id \in Id /\ s \in Session
  BY DEF Message, Timed
<1>2. /\ Timed(k) /\ k.state = s.state /\ k.reports = s.reports /\ k.protocol = s.protocol
      /\ k \in Session
  BY <1>1, SetAnswering DEF Timed
<1>3. k.out = s.out /\ k.answering = [id |-> m.id, options |-> o] /\ k.nak_is_reject = reject
  BY <1>1 DEF Noted, Session
<1>4. k.answering # Nobody /\ k.answering.id = m.id /\ k.answering.options = o
  BY <1>1, <1>3, OptionsType
<1>. HIDE DEF k
<1>5. Knows(k, c, d)
  BY <1>2, <1>3 DEF Knows
<1>6. Apt(k, RequestBad, c, d)
  BY <1>3, <1>4, EventsApart DEF Apt
<1>. QED
  BY <1>2, <1>5, <1>6, TurnsFollow DEF TABLE, k

LEMMA OnRequestFollows ==
  ASSUME NEW c \in Setting, NEW d \in Setting, NEW s, Timed(s), s.protocol \in Ipcp,
         Knows(s, c, d), Told(s), NEW m \in Word(d, c), m.code = "Request"
  PROVE  Follows(s, OnRequest(s, m), c, d)
<1>. DEFINE p == s.protocol
            o == m.options
            q == OnRequest(s, m)
<1>1. /\ o \in Options /\ m.id \in Id /\ s.failures \in Nat /\ s.nak_is_reject \in BOOLEAN
      /\ s \in Session /\ m \in Message /\ Means(p, c, d)
  BY DEF Timed, Session, Message, Word, Knows
<1>2. ASSUME NEW options \in Options, NEW reject \in BOOLEAN, NEW failures \in Nat
      PROVE  /\ Noted(s, m.id, options, failures, reject)
                  = [s EXCEPT !.failures = failures, !.answering = [id |-> m.id, options |-> options],
                              !.nak_is_reject = reject]
             /\ failures = s.failures => Noted(s, m.id, options, failures, reject)
                  = [s EXCEPT !.answering = [id |-> m.id, options |-> options],
                              !.nak_is_reject = reject]
  BY <1>1 DEF Session, Noted
<1>3. /\ [NoOptions EXCEPT !.compression = TRUE] \in Options
      /\ \A address \in Address \cup {"absent"} :
           /\ [NoOptions EXCEPT !.address = address] \in Options
           /\ [NoOptions EXCEPT !.address = address].address = address
           /\ [NoOptions EXCEPT !.address = address].compression = FALSE
  BY DEF Options, NoOptions, Method
<1>4. CASE Rejects(p, o)
  <2>. DEFINE options == [NoOptions EXCEPT !.compression = TRUE]
  <2>1. q = Fire(Noted(s, m.id, options, s.failures, TRUE), RequestBad)
    BY <1>1, <1>2, <1>3, <1>4 DEF OnRequest, Bad
  <2>2. options \in Options
    BY <1>3
  <2>3. ~ c.compress
    BY <1>1, <1>4 DEF Rejects, Means
  <2>. HIDE DEF options
  <2>4. [code |-> "Reject", id |-> m.id, options |-> options] \in Word(c, d)
    BY <1>1, <2>2, <2>3 DEF Word, Message, Code
  <2>. QED
    BY <1>1, <2>1, <2>2, <2>4, BadFollows
<1>5. CASE ~ Rejects(p, o) /\ Naks(p, o) /\ s.failures >= MaxFailure
  <2>. DEFINE options == [NoOptions EXCEPT !.address = o.address]
  <2>0. o.address \in Address \cup {"absent"}
    BY <1>1 DEF Options
  <2>1. options \in Options /\ options.compression = FALSE
    BY <1>3, <2>0
  <2>2. q = Fire(Noted(s, m.id, options, s.failures, TRUE), RequestBad)
    BY <1>1, <1>2, <1>5, <2>1 DEF OnRequest, Bad
  <2>. HIDE DEF options
  <2>3. [code |-> "Reject", id |-> m.id, options |-> options] \in Word(c, d)
    BY <1>1, <2>1 DEF Word, Message, Code
  <2>. QED
    BY <1>1, <2>1, <2>2, <2>3, BadFollows
<1>6. CASE ~ Rejects(p, o) /\ Naks(p, o) /\ ~ (s.failures >= MaxFailure)
  <2>. DEFINE options == [NoOptions EXCEPT !.address = p.remote]
              failures == s.failures + 1
  <2>0. p.remote = Settled(d, c) /\ p.remote \in Address
    BY <1>1, <1>6, NaksMeans
  <2>1. options \in Options /\ options.address = Settled(d, c) /\ failures \in Nat
    BY <1>1, <1>3, <2>0
  <2>2. q = Fire(Noted(s, m.id, options, failures, FALSE), RequestBad)
    <3>1. q = Bad([s EXCEPT !.failures = failures], m, options, FALSE)
      BY <1>1, <1>6 DEF OnRequest, Session
    <3>2. Noted(s, m.id, options, failures, FALSE)
            = [[s EXCEPT !.failures = failures]
                 EXCEPT !.answering = [id |-> m.id, options |-> options], !.nak_is_reject = FALSE]
      BY <1>1 DEF Session, Noted
    <3>. QED
      BY <3>1, <3>2 DEF Bad
  <2>. HIDE DEF options, failures
  <2>3. [code |-> "Nak", id |-> m.id, options |-> options] \in Word(c, d)
    BY <1>1, <2>1 DEF Word, Message, Code
  <2>. QED
    BY <1>1, <2>1, <2>2, <2>3, BadFollows
<1>7. CASE ~ Rejects(p, o) /\ ~ Naks(p, o)
  <2>. DEFINE n == Noted(s, m.id, o, 0, s.nak_is_reject)
              a == Agree(p, o)
              k == [n EXCEPT !.protocol = a]
  <2>1. q = Fire(k, RequestGood)
    <3>1. k = [s EXCEPT !.protocol = a, !.failures = 0,
                        !.answering = [id |-> m.id, options |-> o]]
      BY <1>1 DEF Session, Noted
    <3>. QED
      BY <1>7, <3>1 DEF OnRequest
  <2>2. /\ Means(a, c, d) /\ Granted(a, c, d) /\ (Assured(p, c, d) => Assured(a, c, d))
        /\ o.address = Settled(d, c) /\ o.compression = Both(c, d)
    BY <1>1, <1>7, AgreeMeans
  <2>3. a \in Ipcp
    BY <1>1, ProtocolsKin DEF Kin
  <2>4. /\ Timed(n) /\ n.state = s.state /\ n.reports = s.reports /\ n.out = s.out
        /\ n.answering = [id |-> m.id, options |-> o]
    BY <1>1, SetAnswering DEF Noted, Session
  <2>5. Nobody # [id |-> m.id, options |-> o]
    BY <1>1, OptionsType
  <2>. HIDE DEF n, a
  <2>6. /\ Timed(k) /\ k.state = s.state /\ k.reports = s.reports /\ k.protocol = a
        /\ k.out = s.out /\ k.answering = [id |-> m.id, options |-> o] /\ k \in Session
    BY <2>3, <2>4, SetProtocol DEF Timed, Session
  <2>. HIDE DEF k
  <2>7. Knows(k, c, d)
    BY <2>2, <2>6 DEF Knows
  <2>8. [code |-> "Ack", id |-> m.id, options |-> o] \in Word(c, d)
    BY <1>1, <2>2 DEF Word, Message, Code
  <2>9. Apt(k, RequestGood, c, d)
    <3>1. k.answering # Nobody /\ k.answering.id = m.id /\ k.answering.options = o
      BY <2>5, <2>6
    <3>. QED
      BY <2>2, <2>6, <2>8, <3>1, EventsApart DEF Apt
  <2>. QED
    BY <2>1, <2>3, <2>6, <2>7, <2>9, TurnsFollow DEF TABLE
<1>. QED
  BY <1>4, <1>5, <1>6, <1>7

LEMMA ReceiveFollows ==
  ASSUME NEW c \in Setting, NEW d \in Setting, NEW s, Timed(s), s.protocol \in Ipcp,
         Knows(s, c, d), Told(s), NEW m \in Word(d, c)
  PROVE  Follows(s, Receive(s, m), c, d)
<1>. DEFINE p == s.protocol
<1>1. /\ m.options \in Options /\ m.id \in Id /\ m.code \in Code /\ s \in Session
      /\ Means(p, c, d) /\ p \in Lcp \cup Ipcp
  BY DEF Timed, Session, Message, Word, Knows
<1>2. Follows(s, s, c, d)
  BY DEF Follows, Steady
<1>3. ASSUME NEW a \in Ipcp, NEW event \in {ConfigureAck, ConfigureNak}, Means(a, c, d),
             event = ConfigureAck => Assured(a, c, d),
             Assured(p, c, d) => Assured(a, c, d), Granted(p, c, d) => Granted(a, c, d)
      PROVE  Follows(s, Fire([s EXCEPT !.protocol = a], event), c, d)
  <2>. DEFINE k == [s EXCEPT !.protocol = a]
  <2>1. /\ Timed(k) /\ k.state = s.state /\ k.reports = s.reports /\ k.protocol = a
        /\ k.out = s.out /\ k \in Session
    BY <1>1, SetProtocol DEF Timed, Session
  <2>. HIDE DEF k
  <2>2. Knows(k, c, d)
    BY <1>3, <2>1 DEF Knows
  <2>3. Apt(k, event, c, d)
    BY <1>3, <2>1, EventsApart DEF Apt
  <2>4. Follows(s, Fire(k, event), c, d)
    BY <2>1, <2>2, <2>3, TurnsFollow DEF TABLE
  <2>. QED
    BY <2>4 DEF k
<1>4. m.code = "Request" => Follows(s, Receive(s, m), c, d)
  BY OnRequestFollows DEF Receive
<1>5. m.code = "Ack" => Follows(s, OnAck(s, m), c, d)
  <2>. SUFFICES ASSUME m.code = "Ack"
                PROVE  Follows(s, OnAck(s, m), c, d)
    OBVIOUS
  <2>. DEFINE a == Acked(p, m.options)
  <2>1. OnAck(s, m) = IF m.id # s.id THEN s ELSE Fire([s EXCEPT !.protocol = a], ConfigureAck)
    BY <1>1 DEF OnAck, Session
  <2>2. /\ a \in Ipcp /\ Means(a, c, d) /\ Assured(a, c, d)
        /\ Granted(p, c, d) => Granted(a, c, d)
    BY <1>1, AckedMeans, ProtocolsKin DEF Kin
  <2>. HIDE DEF a
  <2>. QED
    BY <1>2, <1>3, <2>1, <2>2
<1>6. m.code \in {"Nak", "Reject"} => Follows(s, OnNak(s, m), c, d)
  <2>. SUFFICES ASSUME m.code \in {"Nak", "Reject"}
                PROVE  Follows(s, OnNak(s, m), c, d)
    OBVIOUS
  <2>. DEFINE a == IF m.code = "Nak" THEN Naked(p, m.options) ELSE Rejected(p, m.options)
  <2>1. OnNak(s, m) = IF m.id # s.id THEN s ELSE Fire([s EXCEPT !.protocol = a], ConfigureNak)
    BY <1>1 DEF OnNak, Session
  <2>2. a \in Ipcp
    BY <1>1, ProtocolsKin DEF Kin
  <2>3. /\ Means(a, c, d) /\ (Assured(p, c, d) => Assured(a, c, d))
        /\ Granted(p, c, d) => Granted(a, c, d)
    BY <1>1, NakedMeans
  <2>. HIDE DEF a
  <2>. QED
    BY <1>2, <1>3, <2>1, <2>2, <2>3, EventsApart
<1>7. m.code = "TerminateRequest" => Follows(s, OnTerminateRequest(s, m), c, d)
  <2>. DEFINE k == Noted(s, m.id, NoOptions, s.failures, s.nak_is_reject)
  <2>1. NoOptions \in Options /\ s.failures \in Nat /\ s.nak_is_reject \in BOOLEAN
    BY <1>1, OptionsType DEF Session
  <2>2. /\ Timed(k) /\ k.state = s.state /\ k.reports = s.reports /\ k.protocol = s.protocol
        /\ k.out = s.out
    BY <1>1, <2>1, SetAnswering DEF Noted, Session
  <2>3. k = [s EXCEPT !.answering = [id |-> m.id, options |-> NoOptions]]
    BY <1>1 DEF Session, Noted
  <2>4. OnTerminateRequest(s, m) = Fire(k, TerminateRequest)
    BY <2>3 DEF OnTerminateRequest
  <2>. HIDE DEF k
  <2>5. Knows(k, c, d) /\ Apt(k, TerminateRequest, c, d) /\ k \in Session
    BY <2>2, EventsApart DEF Knows, Apt, Timed
  <2>. QED
    BY <2>2, <2>4, <2>5, TurnsFollow DEF TABLE
<1>8. Follows(s, Fire(s, TerminateAck), c, d)
  BY <1>1, PlainFollow
<1>. QED
  BY <1>1, <1>4, <1>5, <1>6, <1>7, <1>8 DEF Receive, Code

-----------------------------------------------------------------------------
(* One end of a link, with what it says of IPCP.                           *)

Speech(c, d) == {f \in Frame : f.protocol = "Ipcp" => f.body \in Word(c, d)}

\* An end that carries IP does so as its IPCP has agreed, or will be told not
\* to before it is done.
Carrying(l) ==
  l.phase = "Network" =>
    \/ Falls(l.ipcp)
    \/ /\ l.ipcp.state = "Opened"
       /\ l.compressor = l.ipcp.protocol.sending
       /\ l.decompressor = l.ipcp.protocol.receiving

Concurs(l, c, d) ==
  /\ Knows(l.ipcp, c, d) /\ Told(l.ipcp) /\ Carrying(l)
  /\ l.line \in Seq(Speech(c, d))

Few(l) == Len(l.lcp.reports) <= 1 /\ Len(l.ipcp.reports) <= 1

\* The end goes on carrying IP, if it does, as it did.
CarriesAlike(l, m) ==
  m.phase = "Network" => /\ l.phase = "Network" /\ m.compressor = l.compressor
                         /\ m.decompressor = l.decompressor

LEMMA ConcursOn ==
  ASSUME NEW c, NEW d, NEW l, NEW m, Concurs(l, c, d), Follows(l.ipcp, m.ipcp, c, d),
         CarriesAlike(l, m), m.line \in Seq(Speech(c, d))
  PROVE  Concurs(m, c, d)
BY DEF Concurs, Follows, Steady, Carrying, CarriesAlike

LEMMA FollowsSelf ==
  ASSUME NEW c, NEW d, NEW l, Concurs(l, c, d)
  PROVE  Follows(l.ipcp, l.ipcp, c, d)
BY DEF Concurs, Follows, Steady

LEMMA FollowsOn ==
  ASSUME NEW c, NEW d, NEW s, NEW u, NEW v, Follows(s, u, c, d), Follows(u, v, c, d)
  PROVE  Follows(s, v, c, d)
BY DEF Follows, Steady

LEMMA FramedSpeech ==
  ASSUME NEW c, NEW d, NEW l, l.coded \in BOOLEAN, NEW protocol, NEW bodies,
         \/ protocol = "Ipcp" /\ bodies \in Seq(Word(c, d))
         \/ protocol = "Lcp" /\ bodies \in Seq(Message)
         \/ protocol = "Auth" /\ bodies \in Seq(AuthPacket)
  PROVE  Framed(l, protocol, bodies) \in Seq(Speech(c, d))
<1>. DEFINE coded == protocol # "Lcp" /\ l.coded
            frame(i) == [protocol |-> protocol, coded |-> coded, body |-> bodies[i]]
<1>1. coded \in BOOLEAN /\ Len(bodies) \in Nat
  OBVIOUS
<1>2. ASSUME NEW i \in 1 .. Len(bodies)
      PROVE  frame(i) \in Speech(c, d)
  <2>. HIDE DEF coded
  <2>1. CASE protocol = "Ipcp" /\ bodies \in Seq(Word(c, d))
    <3>1. bodies[i] \in Word(c, d) /\ bodies[i] \in Message
      BY <2>1 DEF Word
    <3>. QED
      BY <1>1, <2>1, <3>1 DEF Speech, Frame
  <2>2. CASE protocol = "Lcp" /\ bodies \in Seq(Message)
    <3>1. bodies[i] \in Message
      BY <2>2
    <3>. QED
      BY <1>1, <2>2, <3>1 DEF Speech, Frame
  <2>3. CASE protocol = "Auth" /\ bodies \in Seq(AuthPacket)
    <3>1. bodies[i] \in AuthPacket
      BY <2>3
    <3>. QED
      BY <1>1, <2>3, <3>1 DEF Speech, Frame
  <2>. QED
    BY <2>1, <2>2, <2>3
<1>3. Framed(l, protocol, bodies) = [i \in 1 .. Len(bodies) |-> frame(i)]
  BY DEF Framed
<1>. HIDE DEF coded, frame
<1>. QED
  BY <1>1, <1>2, <1>3

LEMMA FlushAuthenticationConcurs ==
  ASSUME NEW c \in Setting, NEW d \in Setting, NEW l, NEW barred, Good(l, c, barred),
         Concurs(l, c, d)
  PROVE  /\ Concurs(FlushAuthentication(l), c, d)
         /\ FlushAuthentication(l).lcp = l.lcp /\ FlushAuthentication(l).ipcp = l.ipcp
<1>. DEFINE k == FlushAuthentication(l)
            frames == Framed(l, "Auth", AuthOut(l))
<1>1. l \in Link /\ l.coded \in BOOLEAN /\ AuthOut(l) \in Seq(AuthPacket)
  <2>1. AuthOut(l) \in Seq(PacketOf(c.account))
    BY AuthOutType
  <2>2. PacketOf(c.account) \subseteq AuthPacket
    BY DEF PacketOf
  <2>3. AuthOut(l) \in Seq(AuthPacket)
    BY <2>1, <2>2
  <2>4. l \in Link /\ l.coded \in BOOLEAN
    BY GoodParts
  <2>. QED
    BY <2>3, <2>4
<1>2. frames \in Seq(Speech(c, d))
  BY <1>1, FramedSpeech
<1>3. /\ k.ipcp = l.ipcp /\ k.lcp = l.lcp /\ k.phase = l.phase /\ k.line = l.line \o frames
      /\ k.compressor = l.compressor /\ k.decompressor = l.decompressor
  BY <1>1 DEF FlushAuthentication, Link
<1>. HIDE DEF k, frames
<1>4. k.line \in Seq(Speech(c, d))
  BY <1>2, <1>3, ConcatProperties DEF Concurs
<1>5. Concurs(k, c, d)
  BY <1>3, <1>4, ConcursOn, FollowsSelf DEF CarriesAlike
<1>. QED
  BY <1>3, <1>5 DEF k

LEMMA FlushConcurs ==
  ASSUME NEW c \in Setting, NEW d \in Setting, NEW l, NEW barred, Good(l, c, barred),
         Concurs(l, c, d)
  PROVE  Concurs(Flush(l), c, d) /\ (Few(l) => Few(Flush(l)))
<1>. DEFINE s   == [l.ipcp EXCEPT !.out = <<>>]
            one == Framed(l, "Lcp", l.lcp.out)
            two == Framed(l, "Auth", AuthOut(l))
            three == Framed(l, "Ipcp", l.ipcp.out)
            k   == Flush(l)
<1>1. /\ l \in Link /\ l.coded \in BOOLEAN /\ AuthOut(l) \in Seq(AuthPacket)
      /\ l.lcp \in Session /\ l.lcp.out \in Seq(Message)
      /\ l.ipcp \in Session /\ l.ipcp.out \in Seq(Word(c, d))
  <2>1. AuthOut(l) \in Seq(PacketOf(c.account))
    BY AuthOutType
  <2>2. AuthOut(l) \in Seq(AuthPacket)
    BY <2>1 DEF PacketOf
  <2>3. l.lcp \in Session /\ l.ipcp \in Session
    BY DEF Good, Timed
  <2>. QED
    BY <2>2, <2>3, GoodParts DEF Session, Concurs, Knows
<1>2. one \in Seq(Speech(c, d)) /\ two \in Seq(Speech(c, d)) /\ three \in Seq(Speech(c, d))
  BY <1>1, FramedSpeech
<1>3. /\ k.ipcp = s /\ k.lcp = [l.lcp EXCEPT !.out = <<>>] /\ k.phase = l.phase
      /\ k.compressor = l.compressor /\ k.decompressor = l.decompressor
  BY <1>1 DEF Flush, FlushAuthentication, Link
<1>4. k.line = ((l.line \o one) \o two) \o three
  <2>. DEFINE m == [l EXCEPT !.line = l.line \o one, !.lcp = [l.lcp EXCEPT !.out = <<>>]]
  <2>1. /\ m.line = l.line \o one /\ m.coded = l.coded /\ m.prover = l.prover
        /\ m.authenticator = l.authenticator /\ m.ipcp = l.ipcp
    BY <1>1 DEF Link
  <2>2. m = [l EXCEPT !.line = @ \o one, !.lcp.out = <<>>]
    BY <1>1 DEF Link
  <2>3. AuthOut(m) = AuthOut(l) /\ Framed(m, "Auth", AuthOut(m)) = two
    <3>. HIDE DEF m
    <3>1. AuthOut(m) = AuthOut(l)
      BY <2>1 DEF AuthOut
    <3>2. \A bodies : Framed(m, "Auth", bodies) = Framed(l, "Auth", bodies)
      BY <2>1 DEF Framed
    <3>. QED
      BY <3>1, <3>2
  <2>. QED
    BY <1>1, <2>1, <2>2, <2>3 DEF Flush, FlushAuthentication, Link
<1>. HIDE DEF one, two, three
<1>5. k.line \in Seq(Speech(c, d))
  <2>1. l.line \o one \in Seq(Speech(c, d))
    BY <1>2, ConcatProperties DEF Concurs
  <2>2. (l.line \o one) \o two \in Seq(Speech(c, d))
    BY <1>2, <2>1, ConcatProperties
  <2>. QED
    BY <1>2, <1>4, <2>2, ConcatProperties
<1>6. /\ s.protocol = l.ipcp.protocol /\ s.state = l.ipcp.state /\ s.reports = l.ipcp.reports
      /\ s.out = <<>> /\ [l.lcp EXCEPT !.out = <<>>].reports = l.lcp.reports
  BY <1>1 DEF Session
<1>. HIDE DEF k, s
<1>7. Follows(l.ipcp, s, c, d)
  <2>1. <<>> \in Seq(Word(c, d))
    OBVIOUS
  <2>2. Knows(s, c, d) /\ Told(s)
    BY <1>6, <2>1 DEF Concurs, Knows, Told
  <2>. QED
    BY <1>6, <2>2 DEF Follows, Steady, Falls
<1>8. Concurs(k, c, d)
  BY <1>3, <1>5, <1>7, ConcursOn DEF CarriesAlike
<1>9. Few(l) => Few(k)
  BY <1>3, <1>6 DEF Few
<1>. QED
  BY <1>8, <1>9 DEF k

\* Up reports nothing.
LEMMA UpReports ==
  ASSUME NEW s \in Session
  PROVE  Fire(s, Up).reports = s.reports
<1>1. s.state \in State /\ s.reports \o <<>> = s.reports
  BY DEF Session
<1>2. \A state \in State : Up[state].actions \cap {"tlu", "tld", "tls", "tlf"} = {}
  BY RowFields, ToFields DEF Up, State, Go, To, Illegal, Asked
<1>3. Up[s.state] # Illegal => Fire(s, Up).reports = s.reports \o Reported(Up[s.state].actions)
  BY FireShape
<1>4. Reported(Up[s.state].actions) = <<>>
  BY <1>1, <1>2 DEF Reported
<1>. QED
  BY <1>1, <1>3, <1>4 DEF Fire

LEMMA CloseLinkConcurs ==
  ASSUME NEW c \in Setting, NEW d \in Setting, NEW l, NEW barred, Good(l, c, barred),
         Concurs(l, c, d)
  PROVE  /\ Concurs(CloseLink(l), c, d) /\ OneMore(l.ipcp, CloseLink(l).ipcp)
         /\ OneMore(l.lcp, CloseLink(l).lcp)
<1>. DEFINE m == CloseLink(l)
<1>1. l \in Link /\ l.ipcp \in Session /\ l.lcp \in Session /\ l.ipcp.protocol \in Ipcp
  BY DEF Good, Timed
<1>2. /\ m.ipcp = Fire(l.ipcp, Close) /\ m.lcp = Fire(l.lcp, Close) /\ m.line = l.line
      /\ m.phase = "Terminate"
  BY <1>1 DEF CloseLink, Link
<1>3. Follows(l.ipcp, m.ipcp, c, d)
  BY <1>1, <1>2, PlainFollow DEF Concurs
<1>4. OneMore(l.ipcp, m.ipcp) /\ OneMore(l.lcp, m.lcp)
  BY <1>1, <1>2, FireReports
<1>. HIDE DEF m
<1>5. Concurs(m, c, d)
  BY <1>2, <1>3, ConcursOn DEF CarriesAlike, Concurs
<1>. QED
  BY <1>4, <1>5 DEF m

LEMMA BeginNetworkConcurs ==
  ASSUME NEW c \in Setting, NEW d \in Setting, NEW l, NEW barred, Good(l, c, barred),
         Concurs(l, c, d)
  PROVE  /\ Concurs(BeginNetwork(l), c, d) /\ OneMore(l.ipcp, BeginNetwork(l).ipcp)
         /\ BeginNetwork(l).lcp = l.lcp
<1>. DEFINE m == BeginNetwork(l)
            asks == Fire(l.ipcp, Open)
<1>1. l \in Link /\ l.ipcp \in Session /\ Timed(l.ipcp) /\ l.ipcp.protocol \in Ipcp
  BY DEF Good, Timed
<1>2. /\ m.ipcp = Fire(asks, Up) /\ m.line = l.line /\ m.phase = "Establish" /\ m.lcp = l.lcp
  BY <1>1 DEF BeginNetwork, Link
<1>3. Timed(asks) /\ asks \in Session /\ asks.protocol \in Ipcp
  BY <1>1, OrdinaryFire DEF Ordinary, Timed
<1>4. Follows(l.ipcp, asks, c, d) /\ OneMore(l.ipcp, asks)
  BY <1>1, PlainFollow, FireReports DEF Concurs
<1>. HIDE DEF asks, m
<1>5. Follows(asks, m.ipcp, c, d)
  BY <1>2, <1>3, <1>4, PlainFollow DEF Follows
<1>6. OneMore(l.ipcp, m.ipcp)
  BY <1>2, <1>3, <1>4, UpReports DEF OneMore
<1>7. Concurs(m, c, d)
  <2>1. Follows(l.ipcp, m.ipcp, c, d)
    BY <1>4, <1>5, FollowsOn
  <2>. QED
    BY <1>2, <2>1, ConcursOn DEF CarriesAlike, Concurs
<1>. QED
  BY <1>2, <1>6, <1>7 DEF m

LEMMA BeginAuthenticationConcurs ==
  ASSUME NEW c \in Setting, NEW d \in Setting, NEW l, NEW barred, Good(l, c, barred),
         Concurs(l, c, d)
  PROVE  /\ Concurs(BeginAuthentication(l), c, d)
         /\ OneMore(l.ipcp, BeginAuthentication(l).ipcp)
         /\ BeginAuthentication(l).lcp = l.lcp
<1>. DEFINE m == BeginAuthentication(l)
            none == l.lcp.protocol.agreed = "None" /\ l.lcp.protocol.wanted = "None"
<1>1. l \in Link /\ l.ipcp \in Session
  BY DEF Good, Timed
<1>2. CASE none
  BY <1>2, BeginNetworkConcurs DEF BeginAuthentication
<1>3. CASE ~ none
  <2>1. m.ipcp = l.ipcp /\ m.line = l.line /\ m.phase = "Authenticate" /\ m.lcp = l.lcp
    BY <1>1, <1>3 DEF BeginAuthentication, Link
  <2>. HIDE DEF m
  <2>2. Concurs(m, c, d)
    BY <2>1, ConcursOn, FollowsSelf DEF CarriesAlike, Concurs
  <2>3. OneMore(l.ipcp, m.ipcp)
    BY <1>1, <2>1 DEF OneMore, Session
  <2>. QED
    BY <2>1, <2>2, <2>3 DEF m
<1>. QED
  BY <1>2, <1>3

LEMMA LcpReportConcurs ==
  ASSUME NEW c \in Setting, NEW d \in Setting, NEW l, NEW barred, Good(l, c, barred),
         Concurs(l, c, d), NEW report \in {"Up", "Down", "Started", "Finished"}
  PROVE  /\ Concurs(LcpReport(l, report), c, d) /\ OneMore(l.ipcp, LcpReport(l, report).ipcp)
         /\ LcpReport(l, report).lcp = l.lcp
<1>1. l \in Link /\ l.ipcp \in Session /\ l.ipcp.protocol \in Ipcp
  BY DEF Good, Timed
<1>2. CASE report = "Up"
  <2>. DEFINE k == [l EXCEPT !.coded = TRUE, !.reads = TRUE]
  <2>1. Good(k, c, barred)
    <3>1. k = [l EXCEPT !.coded = TRUE, !.reads = TRUE, !.compressor = l.compressor,
                        !.decompressor = l.decompressor]
      BY <1>1 DEF Link
    <3>. QED
      BY <3>1, GoodParts, SetFlags
  <2>2. /\ k.ipcp = l.ipcp /\ k.line = l.line /\ k.phase = l.phase /\ k.lcp = l.lcp
        /\ k.compressor = l.compressor /\ k.decompressor = l.decompressor
    BY <1>1 DEF Link
  <2>3. LcpReport(l, report) = BeginAuthentication(k)
    BY <1>2 DEF LcpReport, LcpUp
  <2>. HIDE DEF k
  <2>4. Concurs(k, c, d)
    BY <2>2, ConcursOn, FollowsSelf DEF CarriesAlike, Concurs
  <2>. QED
    BY <2>1, <2>2, <2>3, <2>4, BeginAuthenticationConcurs
<1>3. CASE report \in {"Down", "Finished"}
  <2>. DEFINE m == LcpDown(l)
  <2>1. LcpReport(l, report) = m
    BY <1>3 DEF LcpReport
  <2>2. /\ m.ipcp = Fire(l.ipcp, Down) /\ m.line = l.line /\ m.phase = "Dead" /\ m.lcp = l.lcp
    BY <1>1 DEF LcpDown, Link
  <2>. HIDE DEF m
  <2>3. Follows(l.ipcp, m.ipcp, c, d) /\ OneMore(l.ipcp, m.ipcp)
    BY <1>1, <2>2, PlainFollow, FireReports DEF Concurs
  <2>. QED
    BY <2>1, <2>2, <2>3, ConcursOn DEF CarriesAlike, Concurs
<1>4. CASE report = "Started"
  <2>1. LcpReport(l, report) = l
    BY <1>4 DEF LcpReport
  <2>. QED
    BY <1>1, <2>1 DEF OneMore, Session
<1>. QED
  BY <1>2, <1>3, <1>4

LEMMA FollowAuthenticationConcurs ==
  ASSUME NEW c \in Setting, NEW d \in Setting, NEW l, NEW barred, Good(l, c, barred),
         Concurs(l, c, d)
  PROVE  /\ Concurs(FollowAuthentication(l), c, d)
         /\ OneMore(l.ipcp, FollowAuthentication(l).ipcp)
         /\ OneMore(l.lcp, FollowAuthentication(l).lcp)
<1>. DEFINE k == FlushAuthentication(l)
<1>1. l.ipcp \in Session /\ l.lcp \in Session
  BY DEF Good, Timed
<1>2. OneMore(l.ipcp, l.ipcp) /\ OneMore(l.lcp, l.lcp)
  BY <1>1 DEF OneMore, Session
<1>3. Good(k, c, barred) /\ Concurs(k, c, d) /\ k.lcp = l.lcp /\ k.ipcp = l.ipcp
  BY FlushAuthenticationKeeps, FlushAuthenticationConcurs
<1>. HIDE DEF k
<1>4. /\ Concurs(CloseLink(k), c, d) /\ OneMore(l.ipcp, CloseLink(k).ipcp)
      /\ OneMore(l.lcp, CloseLink(k).lcp)
  BY <1>3, CloseLinkConcurs
<1>. QED
  BY <1>2, <1>4, BeginNetworkConcurs DEF FollowAuthentication, k

LEMMA FollowLcpConcurs ==
  ASSUME NEW c \in Setting, NEW d \in Setting, NEW l, NEW barred, Good(l, c, barred),
         Concurs(l, c, d), Few(l)
  PROVE  /\ Concurs(FollowLcp(l), c, d) /\ OneMore(l.ipcp, FollowLcp(l).ipcp)
         /\ FollowLcp(l).lcp.reports = <<>>
<1>. DEFINE s == [l.lcp EXCEPT !.reports = <<>>]
            k == [l EXCEPT !.lcp = s]
            reports   == l.lcp.reports
            Nth(m, i) == IF i > Len(reports) THEN m ELSE LcpReport(m, reports[i])
<1>1. /\ Timed(s) /\ s.protocol \in Lcp /\ s.protocol.wanted = c.demands /\ s.reports = <<>>
      /\ l \in Link /\ l.ipcp \in Session
  BY Emptied DEF Good, Timed, Session
<1>2. reports \in Seq({"Up", "Down", "Started", "Finished"}) /\ Len(reports) <= 1
  BY DEF Good, Timed, Session, Few
<1>3. k = [l EXCEPT !.lcp.reports = <<>>]
  OBVIOUS
<1>. HIDE DEF s
<1>4. /\ k.ipcp = l.ipcp /\ k.lcp = s /\ k.line = l.line /\ k.phase = l.phase
      /\ k.compressor = l.compressor /\ k.decompressor = l.decompressor
  BY <1>1 DEF Link
<1>5. Good(k, c, barred)
  BY <1>1, SetLcp
<1>. HIDE DEF k
<1>6. FollowLcp(l) = Nth(Nth(Nth(k, 1), 2), 3)
  BY <1>3 DEF FollowLcp, InTurn
<1>. HIDE DEF reports
<1>7. FollowLcp(l) = Nth(k, 1)
  <2>1. Len(reports) \in Nat /\ 2 > Len(reports) /\ 3 > Len(reports)
    BY <1>2
  <2>. QED
    BY <1>6, <2>1
<1>8. Concurs(k, c, d)
  BY <1>4, ConcursOn, FollowsSelf DEF CarriesAlike, Concurs
<1>9. OneMore(l.ipcp, k.ipcp)
  BY <1>1, <1>4 DEF OneMore, Session
<1>10. CASE 1 > Len(reports)
  BY <1>1, <1>4, <1>7, <1>8, <1>9, <1>10
<1>11. CASE ~ 1 > Len(reports)
  <2>1. reports[1] \in {"Up", "Down", "Started", "Finished"}
    BY <1>2, <1>11
  <2>2. /\ Concurs(LcpReport(k, reports[1]), c, d)
        /\ OneMore(k.ipcp, LcpReport(k, reports[1]).ipcp)
        /\ LcpReport(k, reports[1]).lcp = k.lcp
    BY <1>5, <1>8, <2>1, LcpReportConcurs
  <2>. QED
    BY <1>1, <1>4, <1>7, <1>11, <2>2
<1>. QED
  BY <1>10, <1>11

\* After the reports before the i-th: the end carries IP as its IPCP has
\* agreed, or one of those to come says that it does not.
Pending(m, reports, i) ==
  m.phase = "Network" =>
    \/ \E j \in i .. Len(reports) : reports[j] \in Ending
    \/ /\ m.ipcp.state = "Opened"
       /\ m.compressor = m.ipcp.protocol.sending
       /\ m.decompressor = m.ipcp.protocol.receiving

LEMMA IpcpReportPending ==
  ASSUME NEW m \in Link, NEW reports \in Seq(Report), NEW i \in 1 .. Len(reports),
         Pending(m, reports, i),
         reports[i] = "Up" =>
           m.ipcp.state = "Opened" \/ \E j \in i + 1 .. Len(reports) : reports[j] \in Ending
  PROVE  /\ Pending(IpcpReport(m, reports[i]), reports, i + 1)
         /\ IpcpReport(m, reports[i]).ipcp = m.ipcp /\ IpcpReport(m, reports[i]).line = m.line
<1>. DEFINE n == IpcpReport(m, reports[i])
<1>1. reports[i] \in Report /\ Len(reports) \in Nat
  OBVIOUS
<1>2. CASE reports[i] = "Up"
  <2>1. n = [m EXCEPT !.phase = "Network", !.compressor = m.ipcp.protocol.sending,
                      !.decompressor = m.ipcp.protocol.receiving]
    BY <1>2 DEF IpcpReport
  <2>2. /\ n.ipcp = m.ipcp /\ n.line = m.line /\ n.compressor = m.ipcp.protocol.sending
        /\ n.decompressor = m.ipcp.protocol.receiving
    BY <2>1 DEF Link
  <2>. HIDE DEF n
  <2>3. Pending(n, reports, i + 1)
    BY <1>2, <2>2 DEF Pending
  <2>. QED
    BY <2>2, <2>3 DEF n
<1>3. CASE reports[i] \in {"Down", "Finished"}
  <2>1. n = [m EXCEPT !.phase = IF @ = "Network" THEN "Establish" ELSE @,
                      !.compressor = FALSE, !.decompressor = FALSE]
    BY <1>3 DEF IpcpReport
  <2>2. n.ipcp = m.ipcp /\ n.line = m.line /\ n.phase # "Network"
    BY <2>1 DEF Link
  <2>. HIDE DEF n
  <2>3. Pending(n, reports, i + 1)
    BY <2>2 DEF Pending
  <2>. QED
    BY <2>2, <2>3 DEF n
<1>4. CASE reports[i] = "Started"
  <2>1. n = m
    BY <1>4 DEF IpcpReport
  <2>2. ASSUME NEW j \in i .. Len(reports), reports[j] \in Ending
        PROVE  j \in i + 1 .. Len(reports)
    <3>1. j # i
      BY <1>4, <2>2 DEF Ending
    <3>. QED
      BY <1>1, <2>2, <3>1
  <2>3. Pending(m, reports, i + 1)
    BY <2>2 DEF Pending
  <2>. HIDE DEF n
  <2>. QED
    BY <2>1, <2>3 DEF n
<1>. QED
  BY <1>1, <1>2, <1>3, <1>4 DEF Report

LEMMA FollowIpcpConcurs ==
  ASSUME NEW c \in Setting, NEW d \in Setting, NEW l, NEW barred, Good(l, c, barred),
         Concurs(l, c, d), Len(l.ipcp.reports) <= 3
  PROVE  Concurs(FollowIpcp(l), c, d) /\ FollowIpcp(l).ipcp.reports = <<>>
<1>. DEFINE s == [l.ipcp EXCEPT !.reports = <<>>]
            k == [l EXCEPT !.ipcp = s]
            reports   == l.ipcp.reports
            Nth(m, i) == IF i > Len(reports) THEN m ELSE IpcpReport(m, reports[i])
            P(m, i)   == /\ m \in Link /\ m.ipcp = s /\ m.line = l.line
                         /\ Pending(m, reports, i)
            u         == FollowIpcp(l)
<1>1. /\ Timed(s) /\ s.protocol = l.ipcp.protocol /\ s.reports = <<>> /\ l \in Link
      /\ s \in Session /\ s.state = l.ipcp.state /\ s.out = l.ipcp.out /\ s.protocol \in Ipcp
  BY Emptied DEF Good, Timed, Session
<1>2. reports \in Seq(Report) /\ Len(reports) <= 3 /\ Len(reports) \in Nat
  BY DEF Good, Timed, Session, Report
<1>3. k = [l EXCEPT !.ipcp.reports = <<>>]
  OBVIOUS
<1>4. \A i \in 1 .. Len(reports) : reports[i] = "Up" =>
        s.state = "Opened" \/ \E j \in i + 1 .. Len(reports) : reports[j] \in Ending
  BY <1>1 DEF Concurs, Told
<1>. HIDE DEF s
<1>5. /\ k \in Link /\ k.ipcp = s /\ k.line = l.line /\ k.phase = l.phase
      /\ k.compressor = l.compressor /\ k.decompressor = l.decompressor
  BY <1>1 DEF Link
<1>. HIDE DEF k
<1>6. P(k, 1)
  <2>1. Pending(k, reports, 1)
    BY <1>1, <1>5 DEF Concurs, Carrying, Falls, Pending
  <2>. QED
    BY <1>5, <2>1
<1>7. u = Nth(Nth(Nth(k, 1), 2), 3)
  BY <1>3 DEF FollowIpcp, InTurn
<1>. HIDE DEF reports, u
<1>8. ASSUME NEW m, NEW i \in {1, 2, 3}, P(m, i)
      PROVE  P(Nth(m, i), i + 1)
  <2>1. CASE i > Len(reports)
    <3>1. Pending(m, reports, i + 1)
      BY <1>2, <1>8, <2>1 DEF Pending
    <3>. QED
      BY <1>8, <2>1, <3>1
  <2>2. CASE ~ i > Len(reports)
    <3>1. i \in 1 .. Len(reports) /\ reports[i] \in Report
      BY <1>2, <2>2
    <3>2. /\ Pending(IpcpReport(m, reports[i]), reports, i + 1)
          /\ IpcpReport(m, reports[i]).ipcp = m.ipcp
          /\ IpcpReport(m, reports[i]).line = m.line
      BY <1>2, <1>4, <1>8, <3>1, IpcpReportPending
    <3>3. IpcpReport(m, reports[i]) \in Link
      <4>1. m.ipcp.protocol.sending \in BOOLEAN /\ m.ipcp.protocol.receiving \in BOOLEAN
        BY <1>1, <1>8 DEF Ipcp
      <4>. QED
        BY <1>8, <3>1, <4>1 DEF IpcpReport, Link, Phase, Report
    <3>. QED
      BY <1>8, <2>2, <3>2, <3>3
  <2>. QED
    BY <2>1, <2>2
<1>. HIDE DEF Nth
<1>9. P(Nth(k, 1), 2)
  <2>1. P(Nth(k, 1), 1 + 1)
    BY <1>6, <1>8
  <2>. QED
    BY <2>1
<1>10. P(Nth(Nth(k, 1), 2), 3)
  <2>1. P(Nth(Nth(k, 1), 2), 2 + 1)
    BY <1>8, <1>9
  <2>. QED
    BY <2>1
<1>11. P(u, 4)
  <2>1. P(u, 3 + 1)
    BY <1>7, <1>8, <1>10
  <2>. QED
    BY <2>1
<1>12. Carrying(u)
  <2>1. \A j : j \notin 4 .. Len(reports)
    BY <1>2
  <2>. QED
    BY <1>11, <2>1 DEF Pending, Carrying
<1>13. Knows(s, c, d) /\ Told(s)
  BY <1>1 DEF Concurs, Knows, Told
<1>14. u.line \in Seq(Speech(c, d))
  BY <1>11 DEF Concurs
<1>15. Concurs(u, c, d) /\ u.ipcp.reports = <<>>
  BY <1>1, <1>11, <1>12, <1>13, <1>14 DEF Concurs
<1>. QED
  BY <1>15 DEF u

\* The comment of InTurn: no more than three reports of IPCP ever wait.
LEMMA RoundConcurs ==
  ASSUME NEW c \in Setting, NEW d \in Setting, NEW l, NEW barred, Good(l, c, barred),
         Concurs(l, c, d), Few(l)
  PROVE  Concurs(Round(l), c, d) /\ Few(Round(l))
<1>. DEFINE one   == Flush(l)
            two   == FollowLcp(one)
            three == FollowAuthentication(two)
            four  == FollowIpcp(three)
<1>1. Good(one, c, barred) /\ Concurs(one, c, d) /\ Few(one)
  BY FlushKeeps, FlushConcurs
<1>2. Round(l) = four
  BY DEF Round
<1>. HIDE DEF one
<1>3. /\ Good(two, c, barred) /\ Concurs(two, c, d) /\ OneMore(one.ipcp, two.ipcp)
      /\ two.lcp.reports = <<>>
  BY <1>1, FollowLcpKeeps, FollowLcpConcurs
<1>. HIDE DEF two
<1>4. /\ Good(three, c, barred) /\ Concurs(three, c, d) /\ OneMore(two.ipcp, three.ipcp)
      /\ OneMore(two.lcp, three.lcp)
  BY <1>3, FollowAuthenticationKeeps, FollowAuthenticationConcurs
<1>. HIDE DEF three
<1>5. /\ Len(one.ipcp.reports) \in Nat /\ Len(two.ipcp.reports) \in Nat
      /\ Len(three.ipcp.reports) \in Nat
  <2>1. ASSUME NEW m, Good(m, c, barred)
        PROVE  Len(m.ipcp.reports) \in Nat
    BY <2>1 DEF Good, Timed, Session
  <2>. QED
    BY <1>1, <1>3, <1>4, <2>1
<1>6. Len(three.ipcp.reports) <= 3 /\ Len(three.lcp.reports) <= 1
  BY <1>1, <1>3, <1>4, <1>5 DEF Few, OneMore
<1>7. Concurs(four, c, d) /\ four.ipcp.reports = <<>>
  BY <1>4, <1>6, FollowIpcpConcurs
<1>8. four.lcp = three.lcp
  BY <1>4, FollowIpcpLeaves
<1>. HIDE DEF four
<1>. QED
  BY <1>2, <1>6, <1>7, <1>8 DEF Few

LEMMA PumpConcurs ==
  ASSUME NEW c \in Setting, NEW d \in Setting, NEW l, NEW barred, Good(l, c, barred),
         Concurs(l, c, d), Few(l)
  PROVE  Concurs(Pump(l), c, d)
<1>1. ASSUME NEW m, Good(m, c, barred), Concurs(m, c, d), Few(m)
      PROVE  Good(Round(m), c, barred) /\ Concurs(Round(m), c, d) /\ Few(Round(m))
  BY <1>1, RoundKeeps, RoundConcurs
<1>. QED
  BY <1>1 DEF Pump

-----------------------------------------------------------------------------
(* What the modem, the user and the clock do to what an end says.          *)

\* An end at rest turns to what is new and goes through pump.
LEMMA TurnsConcur ==
  ASSUME NEW c \in Setting, NEW d \in Setting, NEW l, NEW m, NEW barred, Good(m, c, barred),
         Concurs(l, c, d), Follows(l.ipcp, m.ipcp, c, d), CarriesAlike(l, m),
         m.line = l.line, Few(m)
  PROVE  Concurs(Pump(m), c, d)
<1>1. Concurs(m, c, d)
  <2>1. m.line \in Seq(Speech(c, d))
    BY DEF Concurs
  <2>. QED
    BY <2>1, ConcursOn
<1>. QED
  BY <1>1, PumpConcurs

\* At rest, one more report of each is few.
LEMMA RestFew ==
  ASSUME NEW l, Clear(l), NEW m, OneMore(l.lcp, m.lcp), OneMore(l.ipcp, m.ipcp)
  PROVE  Few(m)
<1>1. l.lcp.reports = <<>> /\ l.ipcp.reports = <<>> /\ Len(<<>>) = 0
  BY DEF Clear
<1>. QED
  BY <1>1 DEF OneMore, Few

LEMMA RestMore ==
  ASSUME NEW l, NEW c \in Setting, NEW barred, Good(l, c, barred)
  PROVE  /\ OneMore(l.lcp, l.lcp) /\ OneMore(l.ipcp, l.ipcp)
         /\ l \in Link /\ l.lcp \in Session /\ l.ipcp \in Session /\ l.ipcp.protocol \in Ipcp
         /\ Timed(l.lcp) /\ Timed(l.ipcp)
<1>1. l \in Link /\ l.lcp \in Session /\ l.ipcp \in Session /\ l.ipcp.protocol \in Ipcp
      /\ Timed(l.lcp) /\ Timed(l.ipcp)
  BY DEF Good, Timed
<1>2. \A s \in Session : OneMore(s, s)
  BY DEF OneMore, Session
<1>. QED
  BY <1>1, <1>2

LEMMA OpenLinkConcurs ==
  ASSUME NEW c \in Setting, NEW d \in Setting, NEW l, NEW barred, Good(l, c, barred),
         Concurs(l, c, d), Clear(l)
  PROVE  Concurs(OpenLink(l), c, d)
<1>. DEFINE asks == Fire(l.lcp, Open)
            lcp  == Fire(asks, Up)
            k    == [l EXCEPT !.phase = "Establish"]
            m    == [k EXCEPT !.lcp = lcp]
<1>1. Timed(asks) /\ asks.protocol \in Lcp /\ asks.protocol.wanted = c.demands
  BY LcpFires DEF Ordinary
<1>2. /\ Timed(lcp) /\ lcp.protocol \in Lcp /\ lcp.protocol.wanted = c.demands
      /\ OneMore(l.lcp, lcp)
  <2>1. OneMore(l.lcp, asks) /\ asks \in Session
    BY <1>1, RestMore, FireReports DEF Timed
  <2>. HIDE DEF asks
  <2>2. lcp.reports = asks.reports
    BY <2>1, UpReports
  <2>. QED
    BY <1>1, <2>1, <2>2, OrdinaryFire DEF Ordinary, OneMore
<1>3. /\ m = [l EXCEPT !.phase = "Establish", !.lcp = Fire(Fire(@, Open), Up)]
      /\ m.ipcp = l.ipcp /\ m.lcp = lcp /\ m.line = l.line /\ m.phase = "Establish"
  BY RestMore DEF Link
<1>4. Good(m, c, barred)
  <2>1. Good(k, c, barred)
    BY SetPhase DEF Phase
  <2>. HIDE DEF k, lcp
  <2>. QED
    BY <1>2, <2>1, SetLcp
<1>5. OpenLink(l) = Pump(m)
  BY <1>3 DEF OpenLink
<1>. HIDE DEF m, lcp
<1>6. Few(m) /\ Follows(l.ipcp, m.ipcp, c, d) /\ CarriesAlike(l, m)
  BY <1>2, <1>3, RestFew, RestMore, FollowsSelf DEF CarriesAlike
<1>7. m.line = l.line
  BY <1>3
<1>. QED
  BY <1>4, <1>5, <1>6, <1>7, TurnsConcur

LEMMA UserClosesConcurs ==
  ASSUME NEW c \in Setting, NEW d \in Setting, NEW l, NEW barred, Good(l, c, barred),
         Concurs(l, c, d), Clear(l)
  PROVE  Concurs(UserCloses(l), c, d)
<1>. DEFINE lcp  == Fire(l.lcp, Close)
            ipcp == Fire(l.ipcp, Close)
            k    == [l EXCEPT !.phase = "Terminate"]
            j    == [k EXCEPT !.ipcp = ipcp]
            m    == [j EXCEPT !.lcp = lcp]
<1>1. /\ Timed(lcp) /\ lcp.protocol \in Lcp /\ lcp.protocol.wanted = c.demands
      /\ Timed(ipcp) /\ ipcp.protocol \in Ipcp /\ (barred => Shut(ipcp))
  BY LcpFires, IpcpFires DEF Ordinary, Passive
<1>2. /\ OneMore(l.lcp, lcp) /\ OneMore(l.ipcp, ipcp) /\ Follows(l.ipcp, ipcp, c, d)
  BY RestMore, FireReports, PlainFollow DEF Concurs
<1>. HIDE DEF lcp, ipcp
<1>0. l \in Link
  BY DEF Good
<1>3. /\ m = [l EXCEPT !.ipcp = ipcp, !.lcp = lcp, !.phase = "Terminate"]
      /\ m.ipcp = ipcp /\ m.lcp = lcp /\ m.line = l.line /\ m.phase = "Terminate"
  BY <1>0 DEF Link
<1>4. Good(m, c, barred)
  <2>1. Good(k, c, barred)
    BY SetPhase DEF Phase
  <2>. HIDE DEF k
  <2>2. Good(j, c, barred)
    BY <1>1, <2>1, SetIpcp
  <2>. HIDE DEF j
  <2>. QED
    BY <1>1, <2>2, SetLcp
<1>5. UserCloses(l) = Pump(m)
  BY <1>0, <1>3 DEF UserCloses, lcp, ipcp, Link
<1>. HIDE DEF m
<1>6. Few(m) /\ CarriesAlike(l, m)
  BY <1>2, <1>3, RestFew DEF CarriesAlike
<1>7. m.line = l.line /\ Follows(l.ipcp, m.ipcp, c, d)
  BY <1>2, <1>3
<1>. QED
  BY <1>4, <1>5, <1>6, <1>7, TurnsConcur

LEMMA TickConcurs ==
  ASSUME NEW c \in Setting, NEW d \in Setting, NEW l, NEW barred, Good(l, c, barred),
         Concurs(l, c, d), Clear(l)
  PROVE  Concurs(Tick(l), c, d)
<1>. DEFINE m == Expired(l)
<1>0. l \in Link /\ Good(m, c, barred) /\ Tick(l) = Pump(m)
  <2>1. l \in Link
    BY DEF Good
  <2>2. Good(m, c, barred)
    BY ExpiredKeeps
  <2>3. Tick(l) = Pump(m)
    BY DEF Tick, Expired
  <2>. QED
    BY <2>1, <2>2, <2>3
<1>1. /\ m.ipcp = Expire(l.ipcp) /\ m.lcp = Expire(l.lcp) /\ m.line = l.line
      /\ m.phase = l.phase /\ m.compressor = l.compressor /\ m.decompressor = l.decompressor
  BY <1>0 DEF Link, Expired
<1>. HIDE DEF m
<1>2. \A s : Timed(s) => OneMore(s, Expire(s))
  <2>. SUFFICES ASSUME NEW s, Timed(s)
                PROVE  OneMore(s, Expire(s))
    OBVIOUS
  <2>1. CASE ~ s.timer
    BY <2>1 DEF Expire, Timed, OneMore, Session
  <2>2. CASE s.timer
    <3>. DEFINE k == [s EXCEPT !.timer = FALSE]
                event == IF s.restarts > 0 THEN TimeoutWithRestarts ELSE TimeoutNoRestarts
    <3>1. k \in Session /\ k.reports = s.reports
      BY DEF Timed, Session
    <3>2. Expire(s) = Fire(k, event)
      BY <2>2 DEF Expire
    <3>. HIDE DEF k, event
    <3>. QED
      BY <3>1, <3>2, FireReports DEF OneMore
  <2>. QED
    BY <2>1, <2>2
<1>3. Few(m)
  BY <1>1, <1>2, RestFew, RestMore
<1>4. Follows(l.ipcp, m.ipcp, c, d) /\ CarriesAlike(l, m)
  BY <1>1, RestMore, ExpireFollows DEF Concurs, CarriesAlike
<1>. QED
  BY <1>0, <1>1, <1>3, <1>4, TurnsConcur

LEMMA DeliverAuthAlike ==
  ASSUME NEW l \in Link, NEW m
  PROVE  LET k == DeliverAuth(l, m) IN
         /\ k.lcp = l.lcp /\ k.ipcp = l.ipcp /\ k.line = l.line /\ k.phase = l.phase
         /\ k.compressor = l.compressor /\ k.decompressor = l.decompressor
BY DEF DeliverAuth, Link

\* What the far end says of IPCP concurs, so this end goes on doing so.
LEMMA FeedConcurs ==
  ASSUME NEW c \in Setting, NEW d \in Setting, NEW l, NEW barred, Good(l, c, barred),
         Concurs(l, c, d), Clear(l), NEW account, barred => account = "wrong",
         NEW f \in FrameOf(account), f \in Speech(d, c)
  PROVE  Concurs(Feed(l, f), c, d)
<1>. DEFINE m == Deliver(l, f)
<1>1. /\ f.protocol \in {"Lcp", "Ipcp", "Auth"}
      /\ f.protocol \in {"Lcp", "Ipcp"} => f.body \in Message
      /\ f.protocol = "Ipcp" => f.body \in Word(d, c)
      /\ l \in Link
  BY DEF FrameOf, Frame, Speech, Good
<1>2. Good(m, c, barred)
  BY DeliverKeeps
<1>3. /\ Follows(l.ipcp, m.ipcp, c, d) /\ m.line = l.line /\ CarriesAlike(l, m)
      /\ OneMore(l.lcp, m.lcp) /\ OneMore(l.ipcp, m.ipcp)
  <2>1. CASE f.protocol = "Lcp"
    <3>. DEFINE s == Receive(l.lcp, f.body)
    <3>1. m = [l EXCEPT !.lcp = s]
      BY <2>1 DEF Deliver
    <3>2. OneMore(l.lcp, s)
      BY <1>1, <2>1, RestMore, ReceiveKeeps
    <3>. HIDE DEF s
    <3>3. /\ m.ipcp = l.ipcp /\ m.line = l.line /\ m.lcp = s /\ m.phase = l.phase
          /\ m.compressor = l.compressor /\ m.decompressor = l.decompressor
      BY <1>1, <3>1 DEF Link
    <3>. HIDE DEF m
    <3>. QED
      BY <3>2, <3>3, RestMore, FollowsSelf DEF CarriesAlike
  <2>2. CASE f.protocol = "Ipcp"
    <3>. DEFINE s == Receive(l.ipcp, f.body)
    <3>1. m = [l EXCEPT !.ipcp = s]
      BY <2>2 DEF Deliver
    <3>2. OneMore(l.ipcp, s) /\ Follows(l.ipcp, s, c, d)
      BY <1>1, <2>2, RestMore, ReceiveKeeps, ReceiveFollows DEF Concurs
    <3>. HIDE DEF s
    <3>3. /\ m.ipcp = s /\ m.line = l.line /\ m.lcp = l.lcp /\ m.phase = l.phase
          /\ m.compressor = l.compressor /\ m.decompressor = l.decompressor
      BY <1>1, <3>1 DEF Link
    <3>. HIDE DEF m
    <3>. QED
      BY <3>2, <3>3, RestMore DEF CarriesAlike
  <2>3. CASE f.protocol = "Auth"
    <3>1. m = DeliverAuth(l, f.body)
      BY <2>3 DEF Deliver
    <3>. HIDE DEF m
    <3>2. /\ m.ipcp = l.ipcp /\ m.line = l.line /\ m.lcp = l.lcp /\ m.phase = l.phase
          /\ m.compressor = l.compressor /\ m.decompressor = l.decompressor
      BY <1>1, <3>1, DeliverAuthAlike
    <3>. QED
      BY <3>2, RestMore, FollowsSelf DEF CarriesAlike
  <2>. QED
    BY <1>1, <2>1, <2>2, <2>3
<1>4. Few(m) /\ Few(l)
  BY <1>3, RestFew, RestMore
<1>5. Feed(l, f) \in {Pump(m), Pump(l)}
  BY DEF Feed
<1>. HIDE DEF m
<1>6. Concurs(Pump(m), c, d)
  BY <1>2, <1>3, <1>4, TurnsConcur
<1>. QED
  BY <1>4, <1>5, <1>6, PumpConcurs

LEMMA NewLinkConcurs ==
  ASSUME NEW c \in Setting, NEW d \in Setting
  PROVE  Concurs(NewLink(c), c, d)
<1>. DEFINE p == NewIpcp(c.local, c.remote, c.compress)
            s == NewSession(p)
            l == NewLink(c)
<1>1. <<>> \in Seq(Word(c, d)) /\ <<>> \in Seq(Speech(c, d)) /\ Len(<<>>) = 0
  OBVIOUS
<1>2. /\ s.protocol = p /\ s.state = "Initial" /\ s.out = <<>> /\ s.reports = <<>>
      /\ l.ipcp = s /\ l.phase = "Dead" /\ l.line = <<>>
  BY DEF NewSession, NewLink
<1>3. Means(p, c, d)
  BY DEF NewIpcp, Means, Both
<1>. HIDE DEF p, s, l
<1>4. Knows(s, c, d) /\ Told(s)
  BY <1>1, <1>2, <1>3 DEF Knows, Told, Granting, Assuring
<1>5. Concurs(l, c, d)
  BY <1>1, <1>2, <1>4 DEF Concurs, Carrying
<1>. QED
  BY <1>5 DEF l

-----------------------------------------------------------------------------
(* Two ends that come to mean the same.                                    *)

Concurring == \A e \in Ends :
  /\ Concurs(link[e], call[e], call[Peer(e)])
  /\ wire[e] \in Seq(Speech(call[e], call[Peer(e)]))

LEMMA NowConcurs ==
  ASSUME Linked, Concurring, NEW e \in Ends, NEW l \in Link,
         Concurs(l, call[e], call[Peer(e)]), NEW heard \in {0, 1},
         heard <= Len(wire[Peer(e)]), Now(e, l, heard)
  PROVE  Concurring'
<1>. DEFINE d == Peer(e)
            k == [l EXCEPT !.line = <<>>]
            mine   == wire[e] \o l.line
            theirs == SubSeq(wire[d], heard + 1, Len(wire[d]))
<1>1. /\ link \in [Ends -> Link] /\ wire \in [Ends -> Seq(Frame)] /\ call' = call
  BY DEF Linked, Now
<1>2. d \in Ends /\ d # e /\ Peer(d) = e /\ \A f \in Ends : f = e \/ f = d
  BY Peers
<1>3. Concurs(k, call[e], call[d])
  <2>1. /\ k.ipcp = l.ipcp /\ k.phase = l.phase /\ k.compressor = l.compressor
        /\ k.decompressor = l.decompressor /\ k.line = <<>>
    BY DEF Link
  <2>2. <<>> \in Seq(Speech(call[e], call[d]))
    OBVIOUS
  <2>. HIDE DEF k
  <2>. QED
    BY <2>1, <2>2, ConcursOn, FollowsSelf DEF CarriesAlike
<1>4. mine \in Seq(Speech(call[e], call[d]))
  <2>1. /\ wire[e] \in Seq(Speech(call[e], call[d]))
        /\ l.line \in Seq(Speech(call[e], call[d]))
    BY DEF Concurring, Concurs
  <2>. QED
    BY <2>1, ConcatProperties
<1>5. theirs \in Seq(Speech(call[d], call[e]))
  <2>1. wire[d] \in Seq(Speech(call[d], call[e]))
    BY <1>2 DEF Concurring
  <2>2. heard + 1 \in 1 .. Len(wire[d]) + 1 /\ Len(wire[d]) \in heard + 1 - 1 .. Len(wire[d])
    BY <2>1
  <2>. QED
    BY <2>1, <2>2, SubSeqProperties
<1>6. link' = [link EXCEPT ![e] = k] /\ wire' = [wire EXCEPT ![e] = mine, ![d] = theirs]
  BY <1>1, <1>2 DEF Now
<1>. HIDE DEF k, mine, theirs, d
<1>7. /\ link'[e] = k /\ link'[d] = link[d] /\ wire'[e] = mine /\ wire'[d] = theirs
  BY <1>1, <1>2, <1>6
<1>8. /\ Concurs(link'[e], call'[e], call'[d]) /\ Concurs(link'[d], call'[d], call'[e])
      /\ wire'[e] \in Seq(Speech(call'[e], call'[d]))
      /\ wire'[d] \in Seq(Speech(call'[d], call'[e]))
  BY <1>1, <1>2, <1>3, <1>4, <1>5, <1>7 DEF Concurring
<1>9. \A f \in Ends : /\ Concurs(link'[f], call'[f], call'[Peer(f)])
                      /\ wire'[f] \in Seq(Speech(call'[f], call'[Peer(f)]))
  BY <1>2, <1>8 DEF d
<1>. QED
  BY <1>9 DEF Concurring, Peer, Ends

LEMMA InitConcurring == Init => Concurring
<1>. SUFFICES ASSUME Init
              PROVE  Concurring
  OBVIOUS
<1>1. \A e \in Ends : call[e] \in Setting /\ call[Peer(e)] \in Setting
  BY Settings, Peers DEF Init
<1>2. \A e \in Ends : <<>> \in Seq(Speech(call[e], call[Peer(e)]))
  OBVIOUS
<1>. QED
  BY <1>1, <1>2, NewLinkConcurs DEF Init, Concurring

\* What an end has to go by when it takes a step.
LEMMA AtEnd ==
  ASSUME IInv, Concurring, NEW e \in Ends
  PROVE  /\ Linked /\ call[e] \in Setting /\ call[Peer(e)] \in Setting
         /\ Good(link[e], call[e], Barred(e)) /\ Clear(link[e])
         /\ Concurs(link[e], call[e], call[Peer(e)])
BY Settings, Peers DEF IInv, Linked, Concurring

LEMMA OwnStepConcurs ==
  ASSUME IInv, Concurring, NEW e \in Ends,
         OpenEnd(e) \/ CloseEnd(e) \/ Interval(e) \/ EarlyInterval(e)
  PROVE  Concurring'
<1>. DEFINE l == link[e]
            d == call[Peer(e)]
<1>1. /\ Linked /\ call[e] \in Setting /\ d \in Setting /\ Good(l, call[e], Barred(e))
      /\ Clear(l) /\ Concurs(l, call[e], d)
  BY AtEnd
<1>2. ASSUME NEW m, Good(m, call[e], Barred(e)), Concurs(m, call[e], d), Now(e, m, 0)
      PROVE  Concurring'
  <2>1. m \in Link
    BY <1>2 DEF Good
  <2>. QED
    BY <1>1, <1>2, <2>1, NoneHeard, NowConcurs
<1>3. CASE OpenEnd(e)
  <2>1. Now(e, OpenLink(l), 0)
    BY <1>3 DEF OpenEnd
  <2>2. Good(OpenLink(l), call[e], Barred(e)) /\ Concurs(OpenLink(l), call[e], d)
    BY <1>1, OpenLinkKeeps, OpenLinkConcurs
  <2>. QED
    BY <1>2, <2>1, <2>2
<1>4. CASE CloseEnd(e)
  <2>1. Now(e, UserCloses(l), 0)
    BY <1>4 DEF CloseEnd
  <2>2. Good(UserCloses(l), call[e], Barred(e)) /\ Concurs(UserCloses(l), call[e], d)
    BY <1>1, UserClosesKeeps, UserClosesConcurs
  <2>. QED
    BY <1>2, <2>1, <2>2
<1>5. CASE Interval(e) \/ EarlyInterval(e)
  <2>1. Now(e, Tick(l), 0)
    BY <1>5 DEF Interval, EarlyInterval
  <2>2. Good(Tick(l), call[e], Barred(e)) /\ Concurs(Tick(l), call[e], d)
    BY <1>1, TickKeeps, TickConcurs
  <2>. QED
    BY <1>2, <2>1, <2>2
<1>. QED
  BY <1>3, <1>4, <1>5

LEMMA ReceivesConcurs ==
  ASSUME IInv, Concurring, NEW e \in Ends, NEW protocol, Receives(e, protocol)
  PROVE  Concurring'
<1>. DEFINE l == link[e]
            o == Peer(e)
            d == call[o]
            f == Head(wire[o])
            m == Feed(l, f)
<1>1. /\ Linked /\ call[e] \in Setting /\ d \in Setting /\ Good(l, call[e], Barred(e))
      /\ Clear(l) /\ Concurs(l, call[e], d)
  BY AtEnd
<1>2. /\ o \in Ends /\ Peer(o) = e /\ wire[o] \in Seq(FrameOf(d.account)) /\ wire[o] # <<>>
      /\ wire[o] \in Seq(Speech(d, call[e]))
  BY <1>1, Peers DEF Linked, Receives, Arrives, Concurring
<1>3. f \in FrameOf(d.account) /\ f \in Speech(d, call[e]) /\ 1 <= Len(wire[o])
  BY <1>2
<1>4. Barred(e) => d.account = "wrong"
  BY DEF Barred
<1>5. Now(e, m, 1)
  BY DEF Receives
<1>. HIDE DEF f
<1>6. Good(m, call[e], Barred(e)) /\ Concurs(m, call[e], d)
  BY <1>1, <1>3, <1>4, FeedKeeps, FeedConcurs
<1>. HIDE DEF m
<1>7. m \in Link
  BY <1>6 DEF Good
<1>. QED
  BY <1>1, <1>3, <1>5, <1>6, <1>7, NowConcurs

LEMMA LoseConcurs ==
  ASSUME IInv, Concurring, NEW e \in Ends, Lose(e)
  PROVE  Concurring'
<1>. DEFINE rest == Tail(wire[e])
            speech == Speech(call[e], call[Peer(e)])
<1>1. wire[e] # <<>> /\ wire' = [wire EXCEPT ![e] = rest] /\ UNCHANGED <<call, link>>
  BY DEF Lose
<1>2. wire \in [Ends -> Seq(Frame)] /\ wire[e] \in Seq(speech)
  BY DEF IInv, Linked, Concurring
<1>3. rest \in Seq(speech)
  <2>. HIDE DEF speech
  <2>. QED
    BY <1>1, <1>2
<1>. HIDE DEF rest
<1>4. \A d \in Ends : wire'[d] \in Seq(Speech(call[d], call[Peer(d)]))
  BY <1>1, <1>2, <1>3 DEF Concurring
<1>. QED
  BY <1>1, <1>4 DEF Concurring

LEMMA NextConcurring == IInv /\ Concurring /\ [Next]_vars => Concurring'
<1>. SUFFICES ASSUME IInv, Concurring, [Next]_vars
              PROVE  Concurring'
  OBVIOUS
<1>1. CASE UNCHANGED vars
  BY <1>1 DEF Concurring, vars
<1>2. ASSUME NEW e \in Ends, Step(e)
      PROVE  Concurring'
  <2>1. CASE OpenEnd(e) \/ CloseEnd(e) \/ Interval(e) \/ EarlyInterval(e)
    BY <2>1, OwnStepConcurs
  <2>2. CASE ReceiveLcp(e) \/ ReceiveIpcp(e) \/ ReceiveAuth(e)
    BY <2>2, ReceivesConcurs DEF ReceiveLcp, ReceiveIpcp, ReceiveAuth
  <2>3. CASE Lose(e)
    BY <2>3, LoseConcurs
  <2>. QED
    BY <1>2, <2>1, <2>2, <2>3 DEF Step
<1>. QED
  BY <1>1, <1>2 DEF Next

LEMMA ConcurringGives == IInv /\ Concurring => NetworkAgreed
<1>. SUFFICES ASSUME IInv, Concurring, \A e \in Ends : Carries(e), NEW e \in Ends
              PROVE  /\ link[e].ipcp.protocol.remote = link[Peer(e)].ipcp.protocol.local
                     /\ link[e].compressor = link[Peer(e)].decompressor
  BY DEF NetworkAgreed
<1>1. ASSUME NEW f \in Ends
      PROVE  LET l == link[f]
                 c == call[f]
                 d == call[Peer(f)]
             IN  /\ l.compressor = Both(c, d) /\ l.decompressor = Both(c, d)
                 /\ l.ipcp.protocol.remote = Settled(d, c)
                 /\ l.ipcp.protocol.local = Settled(c, d)
  <2>. DEFINE l == link[f]
  <2>1. Clear(l) /\ Concurs(l, call[f], call[Peer(f)]) /\ l.phase = "Network"
    BY AtEnd DEF Carries
  <2>2. ~ Falls(l.ipcp)
    BY <2>1 DEF Clear, Falls
  <2>. QED
    BY <2>1, <2>2 DEF Concurs, Carrying, Knows, Granting, Assuring, Granted, Assured
<1>2. Peer(e) \in Ends /\ Peer(Peer(e)) = e
  BY Peers
<1>3. Both(call[e], call[Peer(e)]) = Both(call[Peer(e)], call[e])
  BY AtEnd DEF Both, Setting
<1>. QED
  BY <1>1, <1>2, <1>3

\* ipcp.rs: two ends that both carry IP mean the same addresses and read each
\* other's headers, whatever they are set to, whatever is lost and however
\* often either has changed its mind on the way.
THEOREM EndsMeanTheSame == Spec => []NetworkAgreed
BY Inductive, InitConcurring, NextConcurring, ConcurringGives, PTL DEF Spec
=============================================================================
