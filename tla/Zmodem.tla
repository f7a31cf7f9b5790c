------------------------------- MODULE Zmodem -------------------------------
(***************************************************************************)
(* A ZMODEM session: a Sender of one file and a Receiver, driven as        *)
(* step_job of crates/gui/src/live.rs drives them, over a line without     *)
(* error control.  The line keeps pieces in order and may damage any; it   *)
(* never takes one away whole.                                             *)
(*                                                                         *)
(* The sequence to_receiver stands for the line and for Receiver::inbox at *)
(* once: what has arrived but cannot be read yet is at its head.           *)
(*                                                                         *)
(* Nothing here knows the time.  When nothing more is on its way a         *)
(* response interval passes at both ends (Silence); a timer that fires     *)
(* earlier is one of MaxEarly: the receiver's does so all through a long   *)
(* file, since it counts from what the receiver last said; the sender's    *)
(* when the line is slow or stopped for a retrain.  Neither end's patience *)
(* runs out while pieces still cross.                                      *)
(***************************************************************************)
EXTENDS ZmodemEnds, FiniteSets

CONSTANTS MaxDamage,   \* pieces the line may damage
          MaxEarly,    \* at each end, timers that fire with pieces on their way
          MaxCancel    \* cancels from a user

ASSUME ZmodemBounds ==
  /\ MaxDamage \in Nat /\ MaxCancel \in Nat
  /\ MaxEarly \in [sender : Nat, receiver : Nat]

VARIABLES
  sender, receiver,
  to_receiver, to_sender,   \* the two directions of the line
  damage, early, cancels,
  only_checks               \* all the damage so far: checks of file data that fail

vars == <<sender, receiver, to_receiver, to_sender, damage, early, cancels,
          only_checks>>

environment == <<damage, early, cancels, only_checks>>

TypeOK ==
  /\ sender \in Sender /\ sender.out = <<>>
  /\ receiver \in Receiver /\ receiver.out = <<>>
  /\ to_receiver \in Seq(Piece) /\ to_sender \in Seq(Piece)
  /\ damage \in Nat /\ only_checks \in BOOLEAN /\ cancels \in Nat
  /\ early \in [sender : Nat, receiver : Nat]

Taken(end) == [end EXCEPT !.out = <<>>]

Init ==
  /\ sender = Taken(NewSender) /\ to_receiver = NewSender.out
  /\ receiver = Taken(NewReceiver) /\ to_sender = NewReceiver.out
  /\ damage = 0 /\ only_checks = TRUE /\ cancels = 0
  /\ early = [sender |-> 0, receiver |-> 0]

\* The sender is now s, having left "rest" of what was on its way to it, and
\* the line has taken what it said.
SenderNow(s, rest) ==
  /\ sender' = Taken(s)
  /\ to_receiver' = to_receiver \o s.out
  /\ to_sender' = rest
  /\ UNCHANGED receiver

ReceiverNow(r, rest) ==
  /\ receiver' = Taken(r)
  /\ to_sender' = to_sender \o r.out
  /\ to_receiver' = rest
  /\ UNCHANGED sender

-----------------------------------------------------------------------------
(* The line.                                                               *)

\* What a piece may be taken for once the line has hit it.
Damaged(piece) == IF EndsPacket(piece) THEN {"Noise", "Spoiled"} ELSE {"Noise"}

Hit(line, kind, i) == [line EXCEPT ![i] = Say(kind)]

Damage ==
  /\ damage < MaxDamage
  /\ damage' = damage + 1
  /\ \/ \E i \in 1 .. Len(to_receiver) :
          /\ \E kind \in Damaged(to_receiver[i]) :
               /\ to_receiver' = Hit(to_receiver, kind, i)
               /\ only_checks' =
                    (only_checks /\ to_receiver[i].kind = "Data" /\ kind = "Spoiled")
          /\ UNCHANGED to_sender
     \/ \E i \in 1 .. Len(to_sender) :
          /\ \E kind \in Damaged(to_sender[i]) : to_sender' = Hit(to_sender, kind, i)
          /\ only_checks' = FALSE
          /\ UNCHANGED to_receiver
  /\ UNCHANGED <<sender, receiver, early, cancels>>

-----------------------------------------------------------------------------
(* The sender's steps.                                                     *)

InFlight == Cardinality({i \in 1 .. Len(to_receiver) : EndsPacket(to_receiver[i])})
Space    == IF InFlight >= Room THEN 0 ELSE Room - InFlight

NoCancel(line) == \A i \in 1 .. Len(line) : line[i].kind # "CAN"

\* feed with one header, or with two that came in one burst, and then fill.
SenderHears(n) ==
  /\ ~ Over(sender) /\ n <= Len(to_sender)
  /\ NoCancel(SubSeq(to_sender, 1, n))
  /\ LET first == SenderActs(sender, to_sender[1])
         acted == IF n = 1 THEN first ELSE SenderActs(first, to_sender[2])
     IN  SenderNow(Fill(acted, Space), SubSeq(to_sender, n + 1, Len(to_sender)))
  /\ UNCHANGED environment

\* set_room: the line has drained and takes more.
SenderFills ==
  /\ ~ Over(sender)
  /\ Fill(sender, Space) # sender
  /\ SenderNow(Fill(sender, Space), to_sender)
  /\ UNCHANGED environment

SenderTimesOut ==
  /\ ~ Over(sender) /\ early.sender < MaxEarly.sender
  /\ early' = [early EXCEPT !.sender = @ + 1]
  /\ SenderNow(SenderRepeats(sender, Space), to_sender)
  /\ UNCHANGED <<damage, cancels, only_checks>>

SenderCancels ==
  /\ ~ Over(sender) /\ cancels < MaxCancel
  /\ cancels' = cancels + 1
  /\ SenderNow(Cancel(sender), to_sender)
  /\ UNCHANGED <<damage, early, only_checks>>

\* The far end's CANs act on arrival, ahead of what is not read yet.
SenderCancelled ==
  /\ ~ Over(sender) /\ ~ NoCancel(to_sender)
  /\ SenderNow(Fail(sender), to_sender)
  /\ UNCHANGED environment

-----------------------------------------------------------------------------
(* The receiver's steps.                                                   *)

Next1 == Head(to_receiver)

\* The next piece can be read for what it is.
ReceiverReads ==
  /\ ~ Over(receiver) /\ to_receiver # <<>> /\ Next1.kind # "CAN"
  /\ \/ ~ receiver.in_data
        /\ ReceiverNow(ReceiverActs(receiver, Next1), Tail(to_receiver))
     \/ receiver.in_data /\ Next1.kind \in {"Data", "Info"}
        /\ ReceiverNow(OnPacket(receiver, Next1), Tail(to_receiver))
     \/ receiver.in_data /\ Next1.kind = "Spoiled"
        /\ ReceiverNow(OnBadPacket(receiver), Tail(to_receiver))
  /\ UNCHANGED environment

\* What stands where a subpacket was expected is read as data up to the next
\* ending, which fails the check.  One octet is dropped, and a binary header
\* with it; a hex header, with a ZPAD to spare, is found again.
ReceiverMisreads ==
  /\ ~ Over(receiver) /\ receiver.in_data
  /\ to_receiver # <<>> /\ ~ EndsPacket(Next1)
  /\ \E i \in 2 .. Len(to_receiver) : EndsPacket(to_receiver[i])
  /\ ReceiverNow(OnBadPacket(receiver),
                 IF Next1.kind \in HexKind THEN to_receiver ELSE Tail(to_receiver))
  /\ UNCHANGED environment

ReceiverTimesOut ==
  /\ ~ Over(receiver) /\ early.receiver < MaxEarly.receiver
  /\ early' = [early EXCEPT !.receiver = @ + 1]
  /\ ReceiverNow(ReceiverRepeats(receiver), to_receiver)
  /\ UNCHANGED <<damage, cancels, only_checks>>

ReceiverCancels ==
  /\ ~ Over(receiver) /\ cancels < MaxCancel
  /\ cancels' = cancels + 1
  /\ ReceiverNow(Cancel(receiver), to_receiver)
  /\ UNCHANGED <<damage, early, only_checks>>

ReceiverCancelled ==
  /\ ~ Over(receiver) /\ ~ NoCancel(to_receiver)
  /\ ReceiverNow(Fail(receiver), to_receiver)
  /\ UNCHANGED environment

-----------------------------------------------------------------------------
(* Time.                                                                   *)

\* Nothing is on its way that anyone can read, and the sender has no more.
Quiet ==
  /\ Over(sender) \/ (to_sender = <<>> /\ Fill(sender, Space) = sender)
  /\ \/ Over(receiver) \/ to_receiver = <<>>
     \/ /\ receiver.in_data
        /\ \A i \in 1 .. Len(to_receiver) :
             ~ EndsPacket(to_receiver[i]) /\ to_receiver[i].kind # "CAN"

\* A mutant: nobody's patience ends.
WaitedForEver(end, repeated) == IF Over(end) THEN end ELSE repeated

\* A response interval at one end, where the repeat would make it "repeated".
Waited(end, repeated) ==
  CASE Over(end)                  -> end
    [] end.waited + 1 >= Patience -> Fail(end)
    [] OTHER                      -> [repeated EXCEPT !.waited = end.waited + 1]

Silence ==
  /\ Quiet /\ ~ (Over(sender) /\ Over(receiver))
  /\ LET s == Waited(sender, SenderRepeats(sender, Space))
         r == Waited(receiver, ReceiverRepeats(receiver))
     IN  /\ sender' = Taken(s) /\ to_receiver' = to_receiver \o s.out
         /\ receiver' = Taken(r) /\ to_sender' = to_sender \o r.out
  /\ UNCHANGED environment

-----------------------------------------------------------------------------
Next ==
  \/ Damage
  \/ \E n \in 1 .. 2 : SenderHears(n)
  \/ SenderFills \/ SenderTimesOut \/ SenderCancels \/ SenderCancelled
  \/ ReceiverReads \/ ReceiverMisreads
  \/ ReceiverTimesOut \/ ReceiverCancels \/ ReceiverCancelled
  \/ Silence

\* The audio loop feeds both ends and ticks both for as long as a job is
\* active, so what can be read is read and silence ends.  The line is not
\* obliged to damage, nor a user to cancel.
Fairness ==
  /\ WF_vars(SenderHears(1)) /\ WF_vars(SenderFills) /\ WF_vars(SenderCancelled)
  /\ WF_vars(ReceiverReads \/ ReceiverMisreads \/ ReceiverCancelled)
  /\ WF_vars(Silence)

Spec     == Init /\ [][Next]_vars
FairSpec == Spec /\ Fairness

=============================================================================
