----------------------------- MODULE PppSession -----------------------------
(***************************************************************************)
(* One control protocol's negotiation: Session of crates/ppp/src/          *)
(* session.rs, with what LCP (lcp.rs) and IPCP (ipcp.rs) make of each      *)
(* other's options.                                                        *)
(*                                                                         *)
(* LCP negotiates how the far end proves who it is; the options that only  *)
(* shape frames are always asked for and always agreed to between two ends *)
(* of this program, and stand for one switch ("coded" of PppLink).  IPCP   *)
(* negotiates an address and header compression.                           *)
(***************************************************************************)
EXTENDS PppAutomaton

CONSTANTS MaxConfigure,   \* Limits: 10
          MaxTerminate,   \* Limits: 2
          MaxFailure,     \* Limits: 5
          IdModulus       \* identifiers are octets: 256

ASSUME SessionLimits ==
  /\ MaxConfigure \in Nat \ {0} /\ MaxTerminate \in Nat \ {0}
  /\ MaxFailure \in Nat /\ IdModulus \in Nat \ {0}

Method      == {"None", "Pap", "Chap"}
Unspecified == "zeroes"
Address     == {Unspecified, "server", "caller"}

\* What a packet asks for or answers.  An address may be left out.
Options   == [auth : Method, address : Address \cup {"absent"}, compression : BOOLEAN]
NoOptions == [auth |-> "None", address |-> "absent", compression |-> FALSE]

Code    == {"Request", "Ack", "Nak", "Reject", "TerminateRequest", "TerminateAck"}
Id      == 0 .. IdModulus - 1
Message == [code : Code, id : Id, options : Options]
Nobody  == [id |-> -1, options |-> NoOptions]

Lcp == [name : {"Lcp"}, wanted : Method, agreed : Method]

Ipcp == [name : {"Ipcp"}, local : Address, remote : Address,
         header_compression : BOOLEAN, offering : BOOLEAN,
         sending : BOOLEAN, receiving : BOOLEAN]

Session ==
  [protocol : Lcp \cup Ipcp, state : State, restarts : Nat, timer : BOOLEAN,
   id : Id, next_id : Id, answering : [id : Id, options : Options] \cup {Nobody},
   nak_is_reject : BOOLEAN, failures : Nat, out : Seq(Message),
   reports : Seq({"Up", "Down", "Started", "Finished"})]

NewLcp(method) == [name |-> "Lcp", wanted |-> method, agreed |-> "None"]

NewIpcp(local, remote, compress) ==
  [name |-> "Ipcp", local |-> local, remote |-> remote, header_compression |-> compress,
   offering |-> compress, sending |-> FALSE, receiving |-> FALSE]

NewSession(protocol) ==
  [protocol |-> protocol, state |-> "Initial", restarts |-> 0, timer |-> FALSE,
   id |-> 0, next_id |-> 1 % IdModulus, answering |-> Nobody, nak_is_reject |-> FALSE,
   failures |-> 0, out |-> <<>>, reports |-> <<>>]

-----------------------------------------------------------------------------
(* perform: what the actions of a transition do.                           *)

Send(s, code, id, options) ==
  [s EXCEPT !.out = Append(@, [code |-> code, id |-> id, options |-> options])]

RequestOptions(p) ==
  IF p.name = "Lcp"
  THEN [NoOptions EXCEPT !.auth = p.wanted]
  ELSE [NoOptions EXCEPT !.address = p.local, !.compression = p.offering]

\* A mutant: the pause after a Terminate-Request has no timer.
CountUntimed(s, actions) ==
  IF "irc" \in actions
  THEN [s EXCEPT !.restarts = IF "str" \in actions THEN MaxTerminate ELSE MaxConfigure]
  ELSE IF "zrc" \in actions THEN [s EXCEPT !.restarts = 0] ELSE s

\* irc and zrc.  Only the action beside irc says which count is meant.
Count(s, actions) ==
  IF "irc" \in actions
  THEN [s EXCEPT !.restarts = IF "str" \in actions THEN MaxTerminate ELSE MaxConfigure]
  ELSE IF "zrc" \in actions THEN [s EXCEPT !.restarts = 0, !.timer = TRUE]
  ELSE s

\* A mutant: identifiers that do not wrap.
AskingUnwrapped(s, code, options) ==
  [Send(s, code, s.next_id, options) EXCEPT
     !.id = s.next_id, !.next_id = s.next_id + 1,
     !.restarts = IF @ > 0 THEN @ - 1 ELSE 0, !.timer = TRUE]

\* scr and str, each with a new identifier and the timer started.
Asking(s, code, options) ==
  [Send(s, code, s.next_id, options) EXCEPT
     !.id = s.next_id, !.next_id = (s.next_id + 1) % IdModulus,
     !.restarts = IF @ > 0 THEN @ - 1 ELSE 0, !.timer = TRUE]

Ask(s, actions) ==
  IF "scr" \in actions THEN Asking(s, "Request", RequestOptions(s.protocol))
  ELSE IF "str" \in actions THEN Asking(s, "TerminateRequest", NoOptions)
  ELSE s

\* sca, scn and sta, to what is being answered.
AnswerCode(s, actions) ==
  IF "sca" \in actions THEN "Ack" ELSE IF s.nak_is_reject THEN "Reject" ELSE "Nak"

Answer(s, actions) ==
  IF "sta" \in actions
  THEN Send([s EXCEPT !.answering = Nobody], "TerminateAck",
            IF s.answering = Nobody THEN s.id ELSE s.answering.id, NoOptions)
  ELSE IF actions \cap {"sca", "scn"} # {} /\ s.answering # Nobody
  THEN Send([s EXCEPT !.answering = Nobody], AnswerCode(s, actions),
            s.answering.id, s.answering.options)
  ELSE s

Reported(actions) ==
  IF "tlu" \in actions THEN <<"Up">>
  ELSE IF "tld" \in actions THEN <<"Down">>
  ELSE IF "tls" \in actions THEN <<"Started">>
  ELSE IF "tlf" \in actions THEN <<"Finished">>
  ELSE <<>>

Fire(s, event) ==
  LET t == event[s.state] IN
  IF t = Illegal THEN s
  ELSE LET done == Answer(Ask(Count(s, t.actions), t.actions), t.actions)
       IN  [done EXCEPT !.state = t.next, !.timer = @ /\ Waits(t.next),
                        !.reports = @ \o Reported(t.actions)]

\* A mutant: the last expiry is not an event.
ExpireQuietly(s) ==
  IF ~ s.timer \/ s.restarts = 0 THEN s
  ELSE Fire([s EXCEPT !.timer = FALSE], TimeoutWithRestarts)

\* tick, when the Restart timer has run out.
Expire(s) ==
  IF ~ s.timer THEN s
  ELSE Fire([s EXCEPT !.timer = FALSE],
            IF s.restarts > 0 THEN TimeoutWithRestarts ELSE TimeoutNoRestarts)

-----------------------------------------------------------------------------
(* review: what an end makes of a Configure-Request, and what it remembers *)
(* when the answer is an acknowledgement.                                  *)

\* An address this end does not want to hear: zeroes when it knows better,
\* or another one than it knows.
Naks(p, o) ==
  /\ p.name = "Ipcp" /\ o.address # "absent"
  /\ p.remote # Unspecified /\ o.address # p.remote

Rejects(p, o) == p.name = "Ipcp" /\ o.compression /\ ~ p.header_compression

\* A mutant: the far end's address is not remembered.
AgreeUnnamed(p, o) ==
  IF p.name = "Lcp" THEN [p EXCEPT !.agreed = o.auth]
  ELSE [p EXCEPT !.sending = o.compression]

Agree(p, o) ==
  IF p.name = "Lcp" THEN [p EXCEPT !.agreed = o.auth]
  ELSE [p EXCEPT !.remote = IF o.address \in {"absent", Unspecified} THEN @ ELSE o.address,
                 !.sending = o.compression]

Bad(s, m, options, reject) ==
  Fire([s EXCEPT !.answering = [id |-> m.id, options |-> options],
                 !.nak_is_reject = reject], RequestBad)

OnRequest(s, m) ==
  LET p == s.protocol
      o == m.options
  IN  IF Rejects(p, o) THEN Bad(s, m, [NoOptions EXCEPT !.compression = TRUE], TRUE)
      ELSE IF Naks(p, o) /\ s.failures >= MaxFailure
      THEN Bad(s, m, [NoOptions EXCEPT !.address = o.address], TRUE)
      ELSE IF Naks(p, o)
      THEN Bad([s EXCEPT !.failures = @ + 1], m, [NoOptions EXCEPT !.address = p.remote], FALSE)
      ELSE Fire([s EXCEPT !.protocol = Agree(p, o), !.failures = 0,
                          !.answering = [id |-> m.id, options |-> o]], RequestGood)

-----------------------------------------------------------------------------
(* receive: the answers.  One to any request but the last is discarded.    *)

Acked(p, o) ==
  IF p.name = "Lcp" THEN p
  ELSE [p EXCEPT !.local = IF o.address = "absent" THEN @ ELSE o.address,
                 !.receiving = o.compression]

Naked(p, o) ==
  IF p.name = "Ipcp" /\ o.address # "absent" THEN [p EXCEPT !.local = o.address] ELSE p

\* The address is not something to stop asking for.
Rejected(p, o) ==
  IF p.name = "Ipcp" /\ o.compression THEN [p EXCEPT !.offering = FALSE] ELSE p

OnAck(s, m) ==
  IF m.id # s.id THEN s
  ELSE Fire([s EXCEPT !.protocol = Acked(@, m.options)], ConfigureAck)

OnNak(s, m) ==
  IF m.id # s.id THEN s
  ELSE Fire([s EXCEPT !.protocol = IF m.code = "Nak" THEN Naked(@, m.options)
                                   ELSE Rejected(@, m.options)], ConfigureNak)

OnTerminateRequest(s, m) ==
  Fire([s EXCEPT !.answering = [id |-> m.id, options |-> NoOptions]], TerminateRequest)

Receive(s, m) ==
  CASE m.code = "Request"          -> OnRequest(s, m)
    [] m.code = "Ack"              -> OnAck(s, m)
    [] m.code \in {"Nak", "Reject"} -> OnNak(s, m)
    [] m.code = "TerminateRequest" -> OnTerminateRequest(s, m)
    [] m.code = "TerminateAck"     -> Fire(s, TerminateAck)
=============================================================================
