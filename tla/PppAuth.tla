------------------------------ MODULE PppAuth -------------------------------
(***************************************************************************)
(* The two ends of an authentication, Prover and Authenticator of          *)
(* crates/ppp/src/auth.rs.  A name with its password, or the hash of it,   *)
(* is only right or wrong here.                                            *)
(***************************************************************************)
EXTENDS Integers, Sequences

CONSTANT Tries   \* TRIES: 10

ASSUME AuthLimits == Tries \in Nat /\ Tries > 1

Outcome == {"Waiting", "Passed", "Failed"}
Account == {"right", "wrong"}

PacketCode == {"AuthenticateRequest", "AuthenticateAck", "AuthenticateNak",
               "Challenge", "Response", "Success", "Failure"}

\* What an end that checks reads; everything else is for an end that proves.
ForChecker == {"AuthenticateRequest", "Response"}

AuthPacket == [code : PacketCode, id : Nat, account : Account \cup {"none"}]
Packet(code, id, account) == [code |-> code, id |-> id, account |-> account]

Prover ==
  [method : {"Pap", "Chap"}, account : Account, id : Nat, tries : Nat,
   answered : SUBSET Nat, outcome : Outcome, out : Seq(AuthPacket)]

Authenticator ==
  [method : {"Pap", "Chap"}, id : Nat, tries : Nat,
   verdict : {"none", "yes", "no"}, outcome : Outcome, out : Seq(AuthPacket)]

\* Not proving, or not checking.
Idle == [method |-> "None"]

-----------------------------------------------------------------------------
(* This end, proving who it is.                                            *)

SendRequest(p) ==
  [p EXCEPT !.id = @ + 1, !.tries = @ + 1,
            !.out = Append(@, Packet("AuthenticateRequest", p.id + 1, p.account))]

\* CHAP's timer starts at nothing, so the first tick already counts as a try.
NewProver(method, account) ==
  LET p == [method |-> method, account |-> account, id |-> 0,
            tries |-> IF method = "Pap" THEN 0 ELSE 1,
            answered |-> {}, outcome |-> "Waiting", out |-> <<>>]
  IN  IF method = "Pap" THEN SendRequest(p) ELSE p

\* tick, when its time is up: PAP asks again, CHAP waits to be challenged.
ProverWaited(p) ==
  IF p = Idle \/ p.outcome # "Waiting" THEN p
  ELSE IF p.method = "Pap"
  THEN IF p.tries < Tries THEN SendRequest(p) ELSE [p EXCEPT !.outcome = "Failed"]
  ELSE [p EXCEPT !.tries = @ + 1,
                 !.outcome = IF p.tries + 1 >= Tries THEN "Failed" ELSE @]

OnPapReply(p, m) ==
  IF m.id \notin 1 .. p.id \/ p.outcome # "Waiting" THEN p
  ELSE [p EXCEPT !.outcome = IF m.code = "AuthenticateAck" THEN "Passed" ELSE "Failed"]

OnChallenge(p, m) ==
  [p EXCEPT !.answered = @ \cup {m.id},
            !.out = Append(@, Packet("Response", m.id, p.account))]

\* The verdict on a challenge this end answered.
OnVerdict(p, m) ==
  IF m.id \notin p.answered THEN p
  ELSE IF m.code = "Failure" THEN [p EXCEPT !.outcome = "Failed"]
  ELSE [p EXCEPT !.outcome = IF @ = "Waiting" THEN "Passed" ELSE @]

ProverReceives(p, m) ==
  CASE m.code \in {"AuthenticateAck", "AuthenticateNak"} -> OnPapReply(p, m)
    [] m.code = "Challenge"                             -> OnChallenge(p, m)
    [] m.code \in {"Success", "Failure"}                 -> OnVerdict(p, m)

-----------------------------------------------------------------------------
(* This end, checking the far end.                                         *)

SendChallenge(a) ==
  [a EXCEPT !.id = @ + 1, !.tries = @ + 1,
            !.out = Append(@, Packet("Challenge", a.id + 1, "none"))]

NewAuthenticator(method) ==
  LET a == [method |-> method, id |-> 0, tries |-> 0, verdict |-> "none",
            outcome |-> "Waiting", out |-> <<>>]
  IN  IF method = "Chap" THEN SendChallenge(a) ELSE a

CheckerWaited(a) ==
  IF a = Idle \/ a.outcome # "Waiting" THEN a
  ELSE IF a.method = "Chap"
  THEN IF a.tries < Tries THEN SendChallenge(a) ELSE [a EXCEPT !.outcome = "Failed"]
  ELSE [a EXCEPT !.tries = @ + 1,
                 !.outcome = IF a.tries + 1 >= Tries THEN "Failed" ELSE @]

\* A mutant: a name that was let in is not known the second time.
SettleOnce(a, account) ==
  [a EXCEPT !.verdict = IF account = "right" /\ a.verdict = "none" THEN "yes" ELSE "no",
            !.outcome = IF account = "right" /\ a.verdict = "none" THEN "Passed" ELSE "Failed"]

\* settle: the first verdict stands, and every repeat is answered alike.
Settle(a, account) ==
  IF a.verdict # "none" THEN a
  ELSE [a EXCEPT !.verdict = IF account = "right" THEN "yes" ELSE "no",
                 !.outcome = IF account = "right" THEN "Passed" ELSE "Failed"]

Verdict(a, m) ==
  IF m.code = "Response"
  THEN IF a.verdict = "yes" THEN "Success" ELSE "Failure"
  ELSE IF a.verdict = "yes" THEN "AuthenticateAck" ELSE "AuthenticateNak"

CheckerReceives(a, m) ==
  IF m.code = "Response" /\ m.id \notin 1 .. a.id THEN a
  ELSE LET settled == Settle(a, m.account)
       IN  [settled EXCEPT !.out = Append(@, Packet(Verdict(settled, m), m.id, "none"))]
=============================================================================
