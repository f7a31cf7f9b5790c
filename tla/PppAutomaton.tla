---------------------------- MODULE PppAutomaton ----------------------------
(***************************************************************************)
(* RFC 1661's option negotiation automaton as crates/ppp/src/control.rs    *)
(* keeps it: a table of events by states.  Every cell of TABLE names its   *)
(* actions in the order tld, irc or zrc, a request (scr, str), an answer   *)
(* (sca, scn, sta), tlu, tls or tlf, so that a set of them says as much.   *)
(*                                                                         *)
(* The rows of packets this program answers but never sends (unknown       *)
(* codes, rejects, echoes) are left out.                                   *)
(***************************************************************************)
EXTENDS Integers, Sequences

State == {"Initial", "Starting", "Closed", "Stopped", "Closing",
          "Stopping", "ReqSent", "AckRcvd", "AckSent", "Opened"}

Action == {"tlu", "tld", "tls", "tlf", "irc", "zrc", "scr", "sca", "scn", "str", "sta"}

\* One row of the table: a cell for each state, in the order of State.
Row(a, b, c, d, e, f, g, h, i, j) ==
  [Initial |-> a, Starting |-> b, Closed |-> c, Stopped |-> d, Closing |-> e,
   Stopping |-> f, ReqSent |-> g, AckRcvd |-> h, AckSent |-> i, Opened |-> j]

To(actions, next) == [actions |-> actions, next |-> next]
Go(next)          == To({}, next)
Illegal           == [actions |-> {}, next |-> "-"]

Asked     == To({"irc", "scr"}, "ReqSent")
Ended     == To({"irc", "str"}, "Closing")
Refused   == To({"sta"}, "Closed")
Finished  == To({"tlf"}, "Stopped")
Dropped   == Go("Starting")
Crossed   == To({"scr"}, "ReqSent")
Reopened  == To({"tld", "scr"}, "ReqSent")

Up == Row(Go("Closed"), Asked, Illegal, Illegal, Illegal,
          Illegal, Illegal, Illegal, Illegal, Illegal)

Down == Row(Illegal, Illegal, Go("Initial"), To({"tls"}, "Starting"), Go("Initial"),
            Dropped, Dropped, Dropped, Dropped, To({"tld"}, "Starting"))

Open == Row(To({"tls"}, "Starting"), Go("Starting"), Asked, Go("Stopped"), Go("Stopping"),
            Go("Stopping"), Go("ReqSent"), Go("AckRcvd"), Go("AckSent"), Go("Opened"))

Close == Row(Go("Initial"), To({"tlf"}, "Initial"), Go("Closed"), Go("Closed"), Go("Closing"),
             Go("Closing"), Ended, Ended, Ended, To({"tld", "irc", "str"}, "Closing"))

TimeoutWithRestarts ==
  Row(Illegal, Illegal, Illegal, Illegal, To({"str"}, "Closing"),
      To({"str"}, "Stopping"), Crossed, Crossed, To({"scr"}, "AckSent"), Illegal)

TimeoutNoRestarts ==
  Row(Illegal, Illegal, Illegal, Illegal, To({"tlf"}, "Closed"),
      Finished, Finished, Finished, Finished, Illegal)

RequestGood ==
  Row(Illegal, Illegal, Refused, To({"irc", "scr", "sca"}, "AckSent"), Go("Closing"),
      Go("Stopping"), To({"sca"}, "AckSent"), To({"sca", "tlu"}, "Opened"),
      To({"sca"}, "AckSent"), To({"tld", "scr", "sca"}, "AckSent"))

RequestBad ==
  Row(Illegal, Illegal, Refused, To({"irc", "scr", "scn"}, "ReqSent"), Go("Closing"),
      Go("Stopping"), To({"scn"}, "ReqSent"), To({"scn"}, "AckRcvd"),
      To({"scn"}, "ReqSent"), To({"tld", "scr", "scn"}, "ReqSent"))

ConfigureAck ==
  Row(Illegal, Illegal, Refused, To({"sta"}, "Stopped"), Go("Closing"),
      Go("Stopping"), To({"irc"}, "AckRcvd"), Crossed,
      To({"irc", "tlu"}, "Opened"), Reopened)

ConfigureNak ==
  Row(Illegal, Illegal, Refused, To({"sta"}, "Stopped"), Go("Closing"),
      Go("Stopping"), Asked, Crossed, To({"irc", "scr"}, "AckSent"), Reopened)

TerminateRequest ==
  Row(Illegal, Illegal, Refused, To({"sta"}, "Stopped"), To({"sta"}, "Closing"),
      To({"sta"}, "Stopping"), To({"sta"}, "ReqSent"), To({"sta"}, "ReqSent"),
      To({"sta"}, "ReqSent"), To({"tld", "zrc", "sta"}, "Stopping"))

TerminateAck ==
  Row(Illegal, Illegal, Go("Closed"), Go("Stopped"), To({"tlf"}, "Closed"),
      Finished, Go("ReqSent"), Go("ReqSent"), Go("AckSent"), Reopened)

\* Every row, for what holds of them all.
TABLE == {Up, Down, Open, Close, TimeoutWithRestarts, TimeoutNoRestarts, RequestGood,
          RequestBad, ConfigureAck, ConfigureNak, TerminateRequest, TerminateAck}

\* fire's "runs": the Restart timer runs in the states that can time out.
Waits(state) == TimeoutWithRestarts[state] # Illegal
=============================================================================
