----------------------------- MODULE ZmodemEnds -----------------------------
(***************************************************************************)
(* The two halves of a ZMODEM session (crates/transfer/src/zmodem), each   *)
(* as a record, and the methods of Sender and Receiver as operators from   *)
(* the record before the call to the record after it.                      *)
(*                                                                         *)
(* What travels is cut into the pieces the protocol reads as one: a        *)
(* header, a subpacket, "OO", the cancel sequence.  The file is FileLen    *)
(* subpackets, numbered from 1, and a position counts subpackets; chunk 0  *)
(* is the empty subpacket.  A piece the line damaged is Noise when neither *)
(* a header nor the end of a subpacket can be made out in it, and Spoiled  *)
(* when it reads as a subpacket up to an ending but fails its check.       *)
(***************************************************************************)
EXTENDS Integers, Sequences

CONSTANTS FileLen,   \* subpackets in the file
          Patience,  \* PATIENCE_MS / RESPONSE_MS: 4
          Room,      \* subpackets set_room lets onto the line at once
          Overlap    \* OVERLAP_IO in the receiver's ZRINIT: TRUE here

ASSUME ZmodemParams ==
  FileLen \in Nat /\ Patience \in Nat \ {0} /\ Room \in Nat \ {0} /\ Overlap \in BOOLEAN

Position == 0 .. FileLen
Ending   == {"Go", "Wait", "End"}

HexKind == {"ZRQINIT", "ZRINIT", "ZRPOS", "ZACK", "ZFIN"}
Plain   == {"ZRQINIT", "ZRINIT", "ZFILE", "ZFIN", "OO", "CAN",
            "Info", "Noise", "Spoiled"}
Placed  == {"ZDATA", "ZEOF", "ZRPOS", "ZACK"}

Say(kind)         == [kind |-> kind]
SayAt(kind, pos)  == [kind |-> kind, pos |-> pos]
Data(chunk, last) == [kind |-> "Data", chunk |-> chunk, ending |-> last]

Piece == [kind : Plain] \cup [kind : Placed, pos : Position]
           \cup [kind : {"Data"}, chunk : Position, ending : Ending]

\* Pieces in which the reader of a subpacket comes upon an ending.
EndsPacket(piece) == piece.kind \in {"Data", "Info", "Spoiled"}

State == {"Greeting", "Offering", "Sending", "Finishing", "Done", "Failed"}
Over(end) == end.state \in {"Done", "Failed"}

Out(end, pieces) == [end EXCEPT !.out = @ \o pieces]

Cancel(end) == [Out(end, <<Say("CAN")>>) EXCEPT !.state = "Failed"]

Fail(end) == [end EXCEPT !.state = "Failed"]

-----------------------------------------------------------------------------
(* The sender.                                                             *)

Sender == [state : State, at : Position, overlap : BOOLEAN, holding : BOOLEAN,
           owe_header : BOOLEAN, frame_open : BOOLEAN,
           waited : 0 .. Patience, out : Seq(Piece)]

Greet(s) == [Out(s, <<Say("ZRQINIT")>>) EXCEPT !.state = "Greeting"]
Offer(s) == [Out(s, <<Say("ZFILE"), Say("Info")>>) EXCEPT !.state = "Offering"]

NewSender ==
  Greet([state |-> "Greeting", at |-> 0, overlap |-> FALSE, holding |-> FALSE,
         owe_header |-> FALSE, frame_open |-> FALSE, waited |-> 0, out |-> <<>>])

Finished(s) == s.at >= FileLen

EndingOf(s, chunk) ==
  IF chunk = FileLen THEN "End" ELSE IF s.overlap THEN "Go" ELSE "Wait"

Least(a, b) == IF a <= b THEN a ELSE b

\* A mutant: the end of the file is not looked at.
BatchPastEnd(s, room) == IF s.overlap THEN room ELSE Least(room, 1)

\* How many subpackets fill sends into this much room: all that fit, or one
\* where each has to be acknowledged.
Batch(s, room) == Least(FileLen - s.at, IF s.overlap THEN room ELSE Least(room, 1))

\* The ZDATA header that is owed, once however often the position was asked.
OpenFrame(s) ==
  IF ~ s.owe_header THEN s ELSE
  [Out(s, <<SayAt("ZDATA", s.at)>>) EXCEPT !.owe_header = FALSE, !.frame_open = TRUE]

SendBatch(s, n) ==
  IF n = 0 THEN s ELSE
  LET last == EndingOf(s, s.at + n)
  IN  [Out(s, [i \in 1 .. n |-> Data(s.at + i, EndingOf(s, s.at + i))])
         EXCEPT !.at = s.at + n, !.holding = (last = "Wait"), !.frame_open = (last = "Go")]

\* Close an open frame with an empty subpacket, and say the file is out.
SayEof(s) ==
  IF ~ Finished(s) \/ s.holding THEN s ELSE
  [Out(s, (IF s.frame_open THEN <<Data(0, "End")>> ELSE <<>>) \o <<SayAt("ZEOF", FileLen)>>)
     EXCEPT !.frame_open = FALSE, !.state = "Finishing"]

Fill(s, room) ==
  IF s.state # "Sending" \/ s.holding THEN s ELSE
  LET opened == OpenFrame(s)
  IN  SayEof(SendBatch(opened, Batch(opened, room)))

\* A mutant: the header the position asks for is not owed.
GoBackUnannounced(s, pos) ==
  [s EXCEPT !.at = pos, !.holding = FALSE, !.state = "Sending", !.frame_open = FALSE]

\* A ZRPOS, whatever state it finds the sender in.
GoBack(s, pos) ==
  [s EXCEPT !.at = pos, !.holding = FALSE, !.state = "Sending",
            !.owe_header = TRUE, !.frame_open = FALSE]

OnRinit(s) ==
  LET told == [s EXCEPT !.overlap = Overlap]
  IN  CASE s.state \in {"Finishing", "Sending"} /\ Finished(s) ->
             [Out(told, <<Say("ZFIN")>>) EXCEPT !.state = "Finishing"]
        [] s.state = "Greeting" -> Offer(told)
        [] OTHER -> told

SenderActs(s, piece) ==
  LET heard == [s EXCEPT !.waited = 0]
  IN  CASE Over(s)                  -> s
        [] piece.kind = "Noise"     -> s
        [] piece.kind = "ZRINIT"    -> OnRinit(heard)
        [] piece.kind = "ZRPOS"     -> GoBack(heard, piece.pos)
        [] piece.kind = "ZACK"      -> [heard EXCEPT !.holding = FALSE]
        [] piece.kind = "ZFIN"      -> [Out(heard, <<Say("OO")>>) EXCEPT !.state = "Done"]
        [] OTHER                    -> heard

\* What the response timer repeats.
SenderRepeats(s, room) ==
  CASE s.state = "Greeting"  -> Greet(s)
    [] s.state = "Offering"  -> Offer(s)
    [] s.state = "Sending"   -> Fill([s EXCEPT !.holding = FALSE], room)
    [] s.state = "Finishing" -> Out(s, <<Say("ZFIN")>>)
    [] OTHER                 -> s

-----------------------------------------------------------------------------
(* The receiver.                                                           *)

NotAsked == -1

Receiver == [state : State, named : BOOLEAN, data : Seq(Position),
             arrived : Seq(Seq(Position)), in_data : BOOLEAN,
             asked_at : Position \cup {NotAsked}, complete : BOOLEAN,
             waited : 0 .. Patience, out : Seq(Piece)]

Announce(r) == Out(r, <<Say("ZRINIT")>>)

NewReceiver ==
  Announce([state |-> "Greeting", named |-> FALSE, data |-> <<>>, arrived |-> <<>>,
            in_data |-> FALSE, asked_at |-> NotAsked, complete |-> FALSE,
            waited |-> 0, out |-> <<>>])

RewindTo(r, pos) == [Out(r, <<SayAt("ZRPOS", pos)>>) EXCEPT !.in_data = FALSE]

\* Once for each position, until something arrives.
Rewind(r) ==
  IF r.asked_at = Len(r.data) THEN r
  ELSE RewindTo([r EXCEPT !.asked_at = Len(r.data)], Len(r.data))

\* The subpacket after a ZFILE: the file has a name, and starts from nothing.
TakeOffer(r) ==
  RewindTo([r EXCEPT !.named = TRUE, !.data = <<>>, !.complete = FALSE,
                     !.state = "Sending"], 0)

TakeData(r, piece) ==
  LET kept == IF piece.chunk = 0 THEN r.data ELSE Append(r.data, piece.chunk)
      took == [r EXCEPT !.data = kept, !.asked_at = NotAsked,
                        !.in_data = (piece.ending = "Go")]
  IN  IF piece.ending = "Wait" THEN Out(took, <<SayAt("ZACK", Len(kept))>>) ELSE took

\* A subpacket that passed its check, where one was looked for.
OnPacket(r, piece) ==
  LET heard == [r EXCEPT !.waited = 0]
  IN  IF r.state = "Offering" THEN TakeOffer([heard EXCEPT !.in_data = FALSE])
                              ELSE TakeData(heard, piece)

OnBadPacket(r) == Rewind([r EXCEPT !.in_data = FALSE])

OnData(r, pos) ==
  LET begun == [r EXCEPT !.state = "Sending"]
  IN  IF pos # Len(r.data) THEN Rewind(begun)
      ELSE [begun EXCEPT !.asked_at = NotAsked, !.in_data = TRUE]

\* A mutant: a repeated ZEOF keeps the file once more.
OnEofAgain(r, pos) ==
  IF pos # Len(r.data) THEN Rewind(r)
  ELSE Announce([r EXCEPT !.complete = TRUE, !.state = "Finishing",
                          !.arrived = IF r.named THEN Append(@, r.data) ELSE @])

\* All of the file is here: keep it, unless it was kept already or has no
\* name to be kept under.
OnEof(r, pos) ==
  IF pos # Len(r.data) THEN Rewind(r)
  ELSE Announce([r EXCEPT !.complete = TRUE, !.state = "Finishing",
                          !.arrived = IF ~ r.complete /\ r.named
                                      THEN Append(@, r.data) ELSE @])

\* A header, where one was looked for; anything else is stepped over.
ReceiverActs(r, piece) ==
  LET heard == [r EXCEPT !.waited = 0]
  IN  CASE piece.kind = "ZRQINIT" -> Announce(heard)
        [] piece.kind = "ZFILE"   -> [heard EXCEPT !.state = "Offering", !.in_data = TRUE]
        [] piece.kind = "ZDATA"   -> OnData(heard, piece.pos)
        [] piece.kind = "ZEOF"    -> OnEof(heard, piece.pos)
        [] piece.kind = "ZFIN"    -> [Out(heard, <<Say("ZFIN")>>) EXCEPT !.state = "Finishing"]
        [] piece.kind = "OO" /\ r.state = "Finishing" -> [r EXCEPT !.state = "Done"]
        [] OTHER                  -> r

ReceiverRepeats(r) ==
  CASE r.state = "Greeting" -> Announce(r)
    [] r.state = "Sending"  -> Rewind(r)
    [] OTHER                -> r

=============================================================================
