---------------------------- MODULE ZmodemProofs ----------------------------
(***************************************************************************)
(* What holds of a ZMODEM session for every file, room, patience and every *)
(* pattern of damage, early timers and cancels: its types, and that it     *)
(* implements FileTransfer.                                                *)
(*                                                                         *)
(* The inductive invariant IInv relates what the sender means to send next *)
(* and what the receiver means to take next to the pieces between them.    *)
(* Positions on the line and the length of what was received need not      *)
(* agree: a frame may be announced where nobody waits for it.  What is     *)
(* kept is that data never follows directly on a header or on data of      *)
(* another position, so that a receiver that is in a frame is at its       *)
(* place in it.                                                            *)
(***************************************************************************)
EXTENDS MCZmodem, SequenceTheorems, FiniteSetTheorems, TLAPS

-----------------------------------------------------------------------------
(* The invariant.                                                          *)

\* A subpacket that leaves its frame open holds data; the end of the file is
\* said where the file ends.
Shaped(p) == /\ p.kind = "Data" /\ p.ending = "Go" => p.chunk >= 1
             /\ p.kind = "ZEOF" => p.pos = FileLen

\* Behind p, a reader is in no frame, or in one and past subpacket "at".
Leads(p, at) == /\ p.kind = "ZDATA" => p.pos = at
                /\ p.kind = "Data" /\ p.ending = "Go" => p.chunk = at

\* q may stand behind p.
Linked(p, q) == /\ q.kind = "Data" /\ q.chunk # 0 => Leads(p, q.chunk - 1)
                /\ q.kind = "Info" => p.kind \in {"ZFILE", "Noise"}

Has(m, kind) == \E i \in 1 .. Len(m) : m[i].kind = kind

Chain(m) ==
  /\ \A i \in 1 .. Len(m) : Shaped(m[i])
  /\ \A i \in 1 .. Len(m) - 1 : Linked(m[i], m[i + 1])
  /\ \A i, j \in 1 .. Len(m) : i < j /\ m[i].kind = "ZEOF" => m[j].kind # "ZFILE"

Expecting(r) == ~ Over(r) /\ r.in_data

\* A receiver that is in a frame would take p for what it is.
Fits(r, p) ==
  /\ p.kind = "Info" => r.state = "Offering"
  /\ p.kind = "Data" /\ p.chunk # 0 /\ r.state # "Offering" => p.chunk = Len(r.data) + 1

HeadFits(r, m) == Expecting(r) /\ m # <<>> => Fits(r, m[1])

\* The sender will send data without a header first.
Unheaded(s) == s.state = "Sending" /\ ~ s.owe_header

LastLeads(s, r, m) ==
  Unheaded(s) =>
    IF m = <<>> THEN Expecting(r) /\ r.state # "Offering" => Len(r.data) = s.at
                ELSE Leads(m[Len(m)], s.at)

Offered(s) == s.state \notin {"Greeting", "Offering"}

Once(s, r, m) ==
  /\ Has(m, "ZEOF") => Offered(s)
  /\ \/ r.arrived = <<>>
     \/ /\ r.arrived = <<Transfer!File>>
        /\ r.complete /\ Offered(s) /\ ~ Has(m, "ZFILE")
        /\ ~ (r.in_data /\ r.state = "Offering")

Beginning(r) == \A i \in 1 .. Len(r.data) : r.data[i] = i

Good(s, r, m) ==
  Chain(m) /\ HeadFits(r, m) /\ LastLeads(s, r, m) /\ Once(s, r, m) /\ Beginning(r)

IInv == TypeOK /\ Good(sender, receiver, to_receiver)

-----------------------------------------------------------------------------
(* Pieces, and sequences of them.                                          *)

\* What a piece has, by its kind.
LEMMA PieceFields ==
  ASSUME NEW p \in Piece
  PROVE  /\ p.kind \in Plain \cup Placed \cup {"Data"}
         /\ p.kind \in Placed => p.pos \in Position
         /\ p.kind = "Data" => p.chunk \in Position /\ p.ending \in Ending
BY DEF Piece, Plain, Placed

\* Every piece an end says is one.
LEMMA PieceTypes ==
  /\ \A kind \in Plain : Say(kind) \in Piece
  /\ \A kind \in Placed, pos \in Position : SayAt(kind, pos) \in Piece
  /\ \A chunk \in Position, last \in Ending : Data(chunk, last) \in Piece
BY DEF Piece, Say, SayAt, Data

\* Two sequences of pieces, one behind the other.
LEMMA Behind ==
  ASSUME NEW m \in Seq(Piece), NEW b \in Seq(Piece)
  PROVE  /\ m \o b \in Seq(Piece)
         /\ Len(m \o b) = Len(m) + Len(b)
         /\ \A i \in 1 .. Len(m) : (m \o b)[i] = m[i]
         /\ \A i \in 1 .. Len(b) : (m \o b)[Len(m) + i] = b[i]
         /\ \A i \in Len(m) + 1 .. Len(m) + Len(b) : (m \o b)[i] = b[i - Len(m)]
BY ConcatProperties

\* The order in which what is said is put on the line does not matter.
LEMMA Associative ==
  ASSUME NEW x \in Seq(Piece), NEW y \in Seq(Piece), NEW z \in Seq(Piece)
  PROVE  (x \o y) \o z = x \o (y \o z)
BY ConcatAssociative

\* A chain goes on behind a chain that leads to it.
LEMMA Join ==
  ASSUME NEW m \in Seq(Piece), NEW b \in Seq(Piece), b # <<>>, Chain(m), Chain(b),
         m # <<>> => Linked(m[Len(m)], b[1]),
         Has(b, "ZFILE") => ~ Has(m, "ZEOF")
  PROVE  Chain(m \o b)
<1> DEFINE c == m \o b
<1>1. /\ Len(m) \in Nat /\ Len(b) \in Nat /\ Len(b) >= 1
      /\ Len(c) = Len(m) + Len(b)
      /\ \A i \in 1 .. Len(m) : c[i] = m[i]
      /\ \A i \in Len(m) + 1 .. Len(c) : i - Len(m) \in 1 .. Len(b) /\ c[i] = b[i - Len(m)]
  BY Behind, LenProperties, EmptySeq
<1> HIDE DEF c
<1>2. \A i \in 1 .. Len(c) : Shaped(c[i])
  BY <1>1 DEF Chain
<1>3. ASSUME NEW i \in 1 .. Len(c) - 1 PROVE Linked(c[i], c[i + 1])
  <2>1. CASE i + 1 <= Len(m) BY <1>1, <2>1 DEF Chain
  <2>2. CASE i = Len(m)
    <3>1. c[i] = m[Len(m)] /\ c[i + 1] = b[1] /\ m # <<>> BY <1>1, <2>2
    <3>2. QED BY <3>1
  <2>3. CASE i > Len(m)
    <3>1. i - Len(m) \in 1 .. Len(b) - 1 BY <1>1, <2>3
    <3>2. c[i] = b[i - Len(m)] /\ c[i + 1] = b[(i - Len(m)) + 1] BY <1>1, <2>3, SMTT(20)
    <3>3. QED BY <3>1, <3>2 DEF Chain
  <2>4. QED BY <1>1, <2>1, <2>2, <2>3
<1>4. ASSUME NEW i \in 1 .. Len(c), NEW j \in 1 .. Len(c), i < j, c[i].kind = "ZEOF"
      PROVE  c[j].kind # "ZFILE"
  <2>1. CASE j <= Len(m) BY <1>1, <1>4, <2>1, SMTT(20) DEF Chain
  <2>2. CASE j > Len(m) /\ i <= Len(m) BY <1>1, <1>4, <2>2 DEF Has
  <2>3. CASE i > Len(m)
    <3> DEFINE x == i - Len(m)
               y == j - Len(m)
    <3>1. i \in Len(m) + 1 .. Len(c) /\ j \in Len(m) + 1 .. Len(c) BY <1>1, <1>4, <2>3
    <3>2. x \in 1 .. Len(b) /\ y \in 1 .. Len(b) /\ c[i] = b[x] /\ c[j] = b[y]
      BY <1>1, <3>1
    <3>3. x < y BY <1>1, <1>4
    <3>4. b[x].kind = "ZEOF" BY <1>4, <3>2
    <3>5. QED BY <3>2, <3>3, <3>4 DEF Chain
  <2>4. QED BY <1>1, <2>1, <2>2, <2>3
<1>5. QED BY <1>2, <1>3, <1>4 DEF Chain, c

\* What is left of a chain when its head has been taken off.
LEMMA TailChain ==
  ASSUME NEW m \in Seq(Piece), m # <<>>, Chain(m)
  PROVE  /\ Tail(m) \in Seq(Piece) /\ Chain(Tail(m))
         /\ Head(m) \in Piece /\ Head(m) = m[1] /\ Shaped(m[1])
         /\ Tail(m) # <<>> => Linked(m[1], Tail(m)[1]) /\ Tail(m)[Len(Tail(m))] = m[Len(m)]
         /\ Tail(m) = <<>> => m[Len(m)] = m[1]
         /\ \A kind : Has(Tail(m), kind) => Has(m, kind)
         /\ m[1].kind = "ZEOF" => ~ Has(Tail(m), "ZFILE")
<1>1. /\ Len(m) \in Nat /\ Len(m) >= 1 /\ Head(m) = m[1] /\ m[1] \in Piece
      /\ Tail(m) \in Seq(Piece) /\ Len(Tail(m)) = Len(m) - 1
      /\ \A i \in 1 .. Len(Tail(m)) : Tail(m)[i] = m[i + 1]
  BY HeadTailProperties, LenProperties, EmptySeq, ElementOfSeq
<1>2. Tail(m) # <<>> => Len(Tail(m)) >= 1 BY <1>1
<1>3. Tail(m) = <<>> => Len(m) = 1 BY <1>1, EmptySeq
<1>4. Chain(Tail(m))
  <2>1. \A i \in 1 .. Len(Tail(m)) : Shaped(Tail(m)[i]) BY <1>1 DEF Chain
  <2>2. \A i \in 1 .. Len(Tail(m)) - 1 : Linked(Tail(m)[i], Tail(m)[i + 1])
    BY <1>1 DEF Chain
  <2>3. ASSUME NEW i \in 1 .. Len(Tail(m)), NEW j \in 1 .. Len(Tail(m)), i < j,
               Tail(m)[i].kind = "ZEOF"
        PROVE  Tail(m)[j].kind # "ZFILE"
    BY <1>1, <2>3 DEF Chain
  <2>4. QED BY <2>1, <2>2, <2>3 DEF Chain
<1>5. QED BY <1>1, <1>2, <1>3, <1>4 DEF Chain, Has

\* Damage to a piece leaves the chain one.
LEMMA HitChain ==
  ASSUME NEW m \in Seq(Piece), Chain(m), NEW i \in 1 .. Len(m), NEW kind \in Damaged(m[i])
  PROVE  /\ Hit(m, kind, i) \in Seq(Piece) /\ Chain(Hit(m, kind, i))
         /\ Len(Hit(m, kind, i)) = Len(m)
         /\ \A j \in 1 .. Len(m) : \/ Hit(m, kind, i)[j] = m[j]
                                   \/ Hit(m, kind, i)[j].kind \in {"Noise", "Spoiled"}
<1> DEFINE h == Hit(m, kind, i)
<1>1. kind \in {"Noise", "Spoiled"} /\ (kind = "Spoiled" => EndsPacket(m[i]))
  BY DEF Damaged
<1>2. Say(kind) \in Piece /\ Say(kind).kind = kind
  BY <1>1, PieceTypes DEF Say, Plain
<1>3. /\ h \in Seq(Piece) /\ Len(h) = Len(m) /\ Len(m) \in Nat
      /\ h[i] = Say(kind) /\ \A j \in 1 .. Len(m) : j # i => h[j] = m[j]
  BY <1>2, ExceptSeq DEF Hit
<1> HIDE DEF h
<1>4. \A j \in 1 .. Len(h) : Shaped(h[j])
  BY <1>1, <1>2, <1>3 DEF Chain, Shaped
<1>5. ASSUME NEW j \in 1 .. Len(h) - 1 PROVE Linked(h[j], h[j + 1])
  <2>1. Linked(m[j], m[j + 1]) BY <1>3 DEF Chain
  <2>2. CASE j + 1 = i BY <1>1, <1>2, <1>3, <2>2 DEF Linked
  <2>3. CASE j = i
    <3>1. h[j + 1] = m[j + 1] /\ h[j].kind = kind BY <1>2, <1>3, <2>3
    <3>2. \A at : Leads(h[j], at) BY <1>1, <3>1 DEF Leads
    <3>3. h[j + 1].kind = "Info" => h[j].kind = "Noise"
      BY <1>1, <2>1, <2>3, <3>1 DEF Linked, EndsPacket
    <3>4. QED BY <3>2, <3>3 DEF Linked
  <2>4. CASE j + 1 # i /\ j # i BY <1>3, <2>1, <2>4
  <2>5. QED BY <2>2, <2>3, <2>4
<1>6. \A j, n \in 1 .. Len(h) : j < n /\ h[j].kind = "ZEOF" => h[n].kind # "ZFILE"
  BY <1>1, <1>2, <1>3 DEF Chain
<1>7. Chain(h) BY <1>4, <1>5, <1>6 DEF Chain
<1>8. QED BY <1>1, <1>2, <1>3, <1>7 DEF h

-----------------------------------------------------------------------------
(* The sender.  The line in its lemmas is the one that already carries     *)
(* what it has said: l \o s.out.                                           *)

Kept(s, r, l) == s \in Sender /\ Good(s, r, l \o s.out)

\* The fields of a sender.
LEMMA SenderFields ==
  ASSUME NEW s \in Sender
  PROVE  /\ s.state \in State /\ s.at \in Position /\ s.out \in Seq(Piece)
         /\ s.overlap \in BOOLEAN /\ s.holding \in BOOLEAN
         /\ s.owe_header \in BOOLEAN /\ s.frame_open \in BOOLEAN
         /\ s.waited \in 0 .. Patience
BY DEF Sender

\* out.extend and nothing else.
LEMMA OutSender ==
  ASSUME NEW s \in Sender, NEW b \in Seq(Piece)
  PROVE  /\ Out(s, b) \in Sender /\ Out(s, b).out = s.out \o b
         /\ Out(s, b).state = s.state /\ Out(s, b).at = s.at
         /\ Out(s, b).owe_header = s.owe_header /\ Out(s, b).holding = s.holding
<1>1. s.out \o b \in Seq(Piece) BY SenderFields, ConcatProperties
<1>2. QED BY <1>1 DEF Out, Sender

\* A sender that says nothing keeps the invariant, unless it forgets a header.
LEMMA Silently ==
  ASSUME NEW s, NEW t, NEW r, NEW m, Good(s, r, m),
         Offered(s) => Offered(t), Unheaded(t) => Unheaded(s) /\ t.at = s.at
  PROVE  Good(t, r, m)
BY DEF Good, LastLeads, Once

\* A sender that says b keeps it, if b may stand where it comes to stand.
LEMMA Says ==
  ASSUME NEW s, NEW t, NEW r, NEW m \in Seq(Piece), NEW b \in Seq(Piece),
         b # <<>>, Good(s, r, m), Chain(b),
         m # <<>> => Linked(m[Len(m)], b[1]),
         m = <<>> /\ Expecting(r) => Fits(r, b[1]),
         Has(b, "ZFILE") => ~ Offered(s), Has(b, "ZEOF") => Offered(t),
         Offered(s) => Offered(t),
         Unheaded(t) => Leads(b[Len(b)], t.at)
  PROVE  Good(t, r, m \o b)
<1> DEFINE c == m \o b
<1>1. /\ Len(m) \in Nat /\ Len(b) \in Nat /\ Len(b) >= 1
      /\ Len(c) = Len(m) + Len(b) /\ c \in Seq(Piece)
      /\ \A i \in 1 .. Len(m) : c[i] = m[i]
      /\ \A i \in Len(m) + 1 .. Len(c) : i - Len(m) \in 1 .. Len(b) /\ c[i] = b[i - Len(m)]
  BY Behind, LenProperties, EmptySeq
<1>2. m = <<>> => Len(m) = 0 BY EmptySeq
<1>3. m # <<>> => Len(m) >= 1 BY <1>1, EmptySeq
<1>4. Chain(c) BY Join DEF Good, Once
<1> HIDE DEF c
<1>5. c # <<>> /\ c[Len(c)] = b[Len(b)]
  <2>1. Len(c) >= 1 BY <1>1
  <2>2. Len(c) \in Len(m) + 1 .. Len(c) /\ Len(c) - Len(m) = Len(b) BY <1>1
  <2>3. QED BY <1>1, <2>1, <2>2, EmptySeq
<1>6. HeadFits(r, c)
  <2>1. CASE m = <<>>
    <3>1. 1 \in Len(m) + 1 .. Len(c) /\ 1 - Len(m) = 1 BY <1>1, <1>2, <2>1
    <3>2. c[1] = b[1] BY <1>1, <3>1
    <3>3. QED BY <2>1, <3>2 DEF HeadFits
  <2>2. CASE m # <<>> BY <1>1, <1>3, <2>2 DEF Good, HeadFits
  <2>3. QED BY <2>1, <2>2
<1>7. LastLeads(t, r, c) BY <1>5 DEF LastLeads
<1>8. \A kind : Has(c, kind) => Has(m, kind) \/ Has(b, kind)
  <2>1. \A i \in 1 .. Len(c) : i \in 1 .. Len(m) \/ i \in Len(m) + 1 .. Len(c) BY <1>1
  <2>2. QED BY <1>1, <2>1 DEF Has
<1>9. Once(t, r, c) BY <1>8 DEF Good, Once
<1>10. QED BY <1>4, <1>6, <1>7, <1>9 DEF Good, c

\* Pieces that no frame before them has to lead to.
Loose(p) == p.kind # "Info" /\ (p.kind = "Data" => p.chunk = 0)

\* The same, for a sender and what it has said.
LEMMA SaysLoosely ==
  ASSUME NEW s, NEW t, NEW r, NEW l \in Seq(Piece), NEW b \in Seq(Piece),
         Kept(s, r, l), t \in Sender, t.out = s.out \o b,
         b # <<>>, Chain(b), Loose(b[1]),
         Has(b, "ZFILE") => ~ Offered(s), Has(b, "ZEOF") => Offered(t),
         Offered(s) => Offered(t),
         Unheaded(t) => Leads(b[Len(b)], t.at)
  PROVE  Kept(t, r, l)
<1>1. s.out \in Seq(Piece) /\ l \o s.out \in Seq(Piece)
  BY SenderFields, ConcatProperties DEF Kept
<1>2. \A p : Linked(p, b[1]) /\ Fits(r, b[1]) BY DEF Loose, Linked, Fits
<1>3. Good(t, r, (l \o s.out) \o b) BY <1>1, <1>2, Says DEF Kept
<1>4. (l \o s.out) \o b = l \o (s.out \o b) BY <1>1, Associative
<1>5. QED BY <1>3, <1>4 DEF Kept

\* And for one that says nothing.
LEMMA StaysSilent ==
  ASSUME NEW s, NEW t, NEW r, NEW l \in Seq(Piece), Kept(s, r, l),
         t \in Sender, t.out = s.out,
         Offered(s) => Offered(t), Unheaded(t) => Unheaded(s) /\ t.at = s.at
  PROVE  Kept(t, r, l)
BY Silently DEF Kept

\* A single piece with no constraint of its own.
LEMMA SaysOne ==
  ASSUME NEW s, NEW t, NEW r, NEW l \in Seq(Piece), NEW p \in Piece,
         Kept(s, r, l), t \in Sender, t.out = s.out \o <<p>>,
         Shaped(p), Loose(p), p.kind # "ZFILE", p.kind = "ZEOF" => Offered(t),
         Offered(s) => Offered(t), Unheaded(t) => Leads(p, t.at)
  PROVE  Kept(t, r, l)
<1> DEFINE b == <<p>>
<1>1. b \in Seq(Piece) /\ b # <<>> /\ Len(b) = 1 /\ b[1] = p OBVIOUS
<1> HIDE DEF b
<1>2. Chain(b) BY <1>1 DEF Chain
<1>3. ~ Has(b, "ZFILE") /\ (Has(b, "ZEOF") => Offered(t)) BY <1>1 DEF Has
<1>4. QED BY <1>1, <1>2, <1>3, SaysLoosely DEF b

\* greet: only a sender whose file is not offered yet says it.
LEMMA GreetKept ==
  ASSUME NEW s, NEW r, NEW l \in Seq(Piece), Kept(s, r, l), ~ Offered(s)
  PROVE  Kept(Greet(s), r, l)
<1> DEFINE p == Say("ZRQINIT")
<1>1. p \in Piece /\ p.kind = "ZRQINIT" BY PieceTypes DEF Say, Plain
<1>2. <<p>> \in Seq(Piece) BY <1>1
<1>3. s \in Sender BY DEF Kept
<1>4. /\ Greet(s) \in Sender /\ Greet(s).out = s.out \o <<p>>
      /\ Greet(s).state = "Greeting"
  BY <1>2, <1>3, OutSender DEF Greet, Sender, State
<1> HIDE DEF p
<1>5. QED BY <1>1, <1>4, SaysOne DEF Shaped, Loose, Offered, Unheaded

\* offer: the ZFILE, and the subpacket that names the file behind it.
LEMMA OfferKept ==
  ASSUME NEW s, NEW r, NEW l \in Seq(Piece), Kept(s, r, l), ~ Offered(s)
  PROVE  Kept(Offer(s), r, l)
<1> DEFINE b == <<Say("ZFILE"), Say("Info")>>
<1>1. /\ Say("ZFILE") \in Piece /\ Say("Info") \in Piece
      /\ Say("ZFILE").kind = "ZFILE" /\ Say("Info").kind = "Info"
  BY PieceTypes DEF Say, Plain
<1>2. /\ b \in Seq(Piece) /\ b # <<>> /\ Len(b) = 2
      /\ b[1].kind = "ZFILE" /\ b[2].kind = "Info"
  BY <1>1
<1>3. s \in Sender BY DEF Kept
<1>4. /\ Offer(s) \in Sender /\ Offer(s).out = s.out \o b
      /\ Offer(s).state = "Offering"
  BY <1>2, <1>3, OutSender DEF Offer, Sender, State
<1> HIDE DEF b
<1>5. Chain(b) BY <1>2 DEF Chain, Shaped, Linked
<1>6. Loose(b[1]) /\ ~ Has(b, "ZEOF") BY <1>2 DEF Loose, Has
<1>7. QED BY <1>2, <1>4, <1>5, <1>6, SaysLoosely DEF Offered, Unheaded

\* The header that is owed: behind it, data needs none.
LEMMA OpenFrameKept ==
  ASSUME NEW s, NEW r, NEW l \in Seq(Piece), Kept(s, r, l), s.state = "Sending"
  PROVE  /\ Kept(OpenFrame(s), r, l) /\ Unheaded(OpenFrame(s))
         /\ OpenFrame(s).at = s.at /\ OpenFrame(s).holding = s.holding
<1> DEFINE p == SayAt("ZDATA", s.at)
           t == OpenFrame(s)
<1>1. s \in Sender /\ s.at \in Position BY SenderFields DEF Kept
<1>2. CASE ~ s.owe_header BY <1>2 DEF OpenFrame, Unheaded
<1>3. CASE s.owe_header
  <2>1. p \in Piece /\ p.kind = "ZDATA" /\ p.pos = s.at
    BY <1>1, PieceTypes DEF SayAt, Placed
  <2>2. <<p>> \in Seq(Piece) BY <2>1
  <2>3. t = [Out(s, <<p>>) EXCEPT !.owe_header = FALSE, !.frame_open = TRUE]
    BY <1>3 DEF OpenFrame
  <2>4. /\ t \in Sender /\ t.out = s.out \o <<p>> /\ t.state = "Sending"
        /\ t.at = s.at /\ t.holding = s.holding /\ t.owe_header = FALSE
    <3> DEFINE o == Out(s, <<p>>)
    <3>1. /\ o \in Sender /\ o.out = s.out \o <<p>> /\ o.state = "Sending"
          /\ o.at = s.at /\ o.holding = s.holding
      BY <1>1, <2>2, OutSender
    <3> HIDE DEF o, p
    <3>2. t = [o EXCEPT !.owe_header = FALSE, !.frame_open = TRUE] BY <2>3 DEF o
    <3>3. QED BY <3>1, <3>2 DEF Sender
  <2> HIDE DEF p, t
  <2>5. Kept(t, r, l) BY <2>1, <2>4, SaysOne DEF Shaped, Loose, Leads, Offered
  <2>6. QED BY <2>4, <2>5 DEF Unheaded, t
<1>4. QED BY <1>1, <1>2, <1>3 DEF Sender

\* What a batch leaves on the line, and behind it.
LEMMA SendBatchKept ==
  ASSUME NEW s, NEW r, NEW l \in Seq(Piece), Kept(s, r, l), Unheaded(s),
         NEW n \in 0 .. FileLen - s.at
  PROVE  Kept(SendBatch(s, n), r, l) /\ SendBatch(s, n).state = "Sending"
<1> DEFINE b == [i \in 1 .. n |-> Data(s.at + i, EndingOf(s, s.at + i))]
           t == SendBatch(s, n)
           m == l \o s.out
<1>1. /\ s \in Sender /\ s.at \in Nat /\ s.at <= FileLen /\ FileLen \in Nat
      /\ s.state = "Sending" /\ s.out \in Seq(Piece) /\ m \in Seq(Piece)
      /\ s.overlap \in BOOLEAN
  BY SenderFields, ZmodemParams, ConcatProperties DEF Kept, Unheaded, Position
<1>2. CASE n = 0 BY <1>1, <1>2 DEF SendBatch
<1>3. CASE n # 0
  <2>1. \A chunk : /\ EndingOf(s, chunk) \in Ending
                   /\ EndingOf(s, chunk) = "Go" => chunk # FileLen
    BY DEF EndingOf, Ending
  <2>2. \A i \in 1 .. n : /\ b[i] \in Piece /\ b[i].kind = "Data"
                          /\ b[i].chunk = s.at + i
    BY <1>1, <2>1, PieceTypes DEF Data, Position
  <2>3. b \in Seq(Piece) /\ Len(b) = n /\ b # <<>> BY <1>3, <2>2
  <2>4. t = [Out(s, b) EXCEPT !.at = s.at + n,
                              !.holding = (EndingOf(s, s.at + n) = "Wait"),
                              !.frame_open = (EndingOf(s, s.at + n) = "Go")]
    BY <1>3 DEF SendBatch
  <2>5. s.at + n \in Position BY <1>1 DEF Position
  <2>6. /\ t \in Sender /\ t.out = s.out \o b /\ t.at = s.at + n /\ t.state = "Sending"
    <3> DEFINE o == Out(s, b)
               wait == EndingOf(s, s.at + n) = "Wait"
               go == EndingOf(s, s.at + n) = "Go"
    <3>1. o \in Sender /\ o.out = s.out \o b /\ o.state = "Sending"
      BY <1>1, <2>3, OutSender
    <3>2. wait \in BOOLEAN /\ go \in BOOLEAN OBVIOUS
    <3> HIDE DEF o, b, wait, go
    <3>3. t = [o EXCEPT !.at = s.at + n, !.holding = wait, !.frame_open = go]
      BY <2>4 DEF o, wait, go
    <3>4. QED BY <2>5, <3>1, <3>2, <3>3 DEF Sender
  <2> HIDE DEF b, t, m
  <2>7. Chain(b)
    <3>1. \A i \in 1 .. n : Shaped(b[i]) BY <1>1, <2>2 DEF Shaped
    <3>2. ASSUME NEW i \in 1 .. n - 1 PROVE Linked(b[i], b[i + 1])
      <4>1. i \in 1 .. n /\ i + 1 \in 1 .. n OBVIOUS
      <4>2. /\ b[i].kind = "Data" /\ b[i].chunk = s.at + i
            /\ b[i + 1].kind = "Data" /\ b[i + 1].chunk = s.at + (i + 1)
        BY <2>2, <4>1
      <4>3. b[i + 1].chunk - 1 = b[i].chunk
        <5> DEFINE x == b[i].chunk
                   y == b[i + 1].chunk
        <5>1. x = s.at + i /\ y = s.at + (i + 1) BY <4>2
        <5> HIDE DEF x, y
        <5>2. y - 1 = x BY <1>1, <5>1, SMTT(20)
        <5>3. QED BY <5>2 DEF x, y
      <4>4. QED BY <4>2, <4>3 DEF Linked, Leads
    <3>3. QED BY <2>2, <2>3, <3>1, <3>2 DEF Chain
  <2>8. m # <<>> => Linked(m[Len(m)], b[1])
    <3>1. m # <<>> => Leads(m[Len(m)], s.at)
      BY DEF Kept, Good, LastLeads, m
    <3>2. b[1].kind = "Data" /\ b[1].chunk = s.at + 1 BY <1>3, <2>2
    <3>3. b[1].chunk - 1 = s.at BY <1>1, <3>2
    <3>4. QED BY <3>1, <3>2, <3>3 DEF Linked
  <2>9. m = <<>> /\ Expecting(r) => Fits(r, b[1])
    <3>1. m = <<>> /\ Expecting(r) /\ r.state # "Offering" => Len(r.data) = s.at
      BY DEF Kept, Good, LastLeads, m
    <3>2. b[1].kind = "Data" /\ b[1].chunk = s.at + 1 BY <1>3, <2>2
    <3>3. QED BY <3>1, <3>2 DEF Fits
  <2>10. ~ Has(b, "ZFILE") /\ ~ Has(b, "ZEOF") BY <2>2, <2>3 DEF Has
  <2>11. Leads(b[Len(b)], t.at) BY <1>3, <2>2, <2>3, <2>6 DEF Leads
  <2>12. Good(t, r, m \o b)
    BY <1>1, <2>3, <2>6, <2>7, <2>8, <2>9, <2>10, <2>11, Says DEF Kept, Offered, m
  <2>13. m \o b = l \o t.out
    <3>1. (l \o s.out) \o b = l \o (s.out \o b) BY <1>1, <2>3, Associative
    <3>2. QED BY <2>6, <3>1 DEF m
  <2>14. QED BY <2>6, <2>12, <2>13 DEF Kept, t
<1>4. QED BY <1>2, <1>3

\* say_eof: whatever frame was open is closed, and the sender means no more.
LEMMA SayEofKept ==
  ASSUME NEW s, NEW r, NEW l \in Seq(Piece), Kept(s, r, l), s.state = "Sending"
  PROVE  Kept(SayEof(s), r, l)
<1> DEFINE shut == Data(0, "End")
           eof == SayAt("ZEOF", FileLen)
           b == (IF s.frame_open THEN <<shut>> ELSE <<>>) \o <<eof>>
           t == SayEof(s)
<1>1. s \in Sender BY DEF Kept
<1>2. CASE ~ Finished(s) \/ s.holding BY <1>2 DEF SayEof
<1>3. CASE ~ (~ Finished(s) \/ s.holding)
  <2>1. /\ shut \in Piece /\ eof \in Piece
        /\ shut.kind = "Data" /\ shut.chunk = 0 /\ shut.ending = "End"
        /\ eof.kind = "ZEOF" /\ eof.pos = FileLen
    <3>1. 0 \in Position /\ FileLen \in Position BY ZmodemParams DEF Position
    <3>2. shut \in Piece /\ eof \in Piece
      BY <3>1, PieceTypes DEF Placed, Ending
    <3>3. QED BY <3>2 DEF Data, SayAt
  <2> HIDE DEF shut, eof
  <2>2. \/ s.frame_open /\ Len(b) = 2 /\ b[1] = shut /\ b[2] = eof
        \/ ~ s.frame_open /\ Len(b) = 1 /\ b[1] = eof
    <3>1. <<shut>> \in Seq(Piece) /\ <<eof>> \in Seq(Piece) /\ <<>> \in Seq(Piece)
      BY <2>1
    <3>2. CASE s.frame_open
      <4>1. b = <<shut>> \o <<eof>> BY <3>2
      <4>2. QED BY <3>1, <3>2, <4>1, ConcatProperties
    <3>3. CASE ~ s.frame_open
      <4>1. b = <<eof>> BY <3>1, <3>3, ConcatEmptySeq
      <4>2. QED BY <3>3, <4>1
    <3>4. QED BY <3>2, <3>3
  <2>3. b \in Seq(Piece) /\ b # <<>>
    <3>1. b \in Seq(Piece)
      <4>1. <<shut>> \in Seq(Piece) /\ <<eof>> \in Seq(Piece) /\ <<>> \in Seq(Piece)
        BY <2>1
      <4>2. QED BY <4>1, ConcatProperties
    <3>2. QED BY <2>2, <3>1, EmptySeq
  <2> HIDE DEF b
  <2>4. /\ \A i \in 1 .. Len(b) : b[i] = shut \/ b[i] = eof
        /\ Chain(b) /\ Loose(b[1])
    BY <2>1, <2>2 DEF Chain, Shaped, Linked, Loose
  <2>5. t = [Out(s, b) EXCEPT !.frame_open = FALSE, !.state = "Finishing"]
    BY <1>3 DEF SayEof, b, shut, eof
  <2> HIDE DEF t
  <2>6. t \in Sender /\ t.out = s.out \o b /\ t.state = "Finishing"
    <3> DEFINE o == Out(s, b)
    <3>1. o \in Sender /\ o.out = s.out \o b BY <1>1, <2>3, OutSender
    <3> HIDE DEF o
    <3>2. t = [o EXCEPT !.frame_open = FALSE, !.state = "Finishing"] BY <2>5 DEF o
    <3>3. QED BY <3>1, <3>2 DEF Sender, State
  <2>7. ~ Has(b, "ZFILE") BY <2>1, <2>4 DEF Has
  <2>8. QED BY <2>3, <2>4, <2>6, <2>7, SaysLoosely DEF Offered, Unheaded, t
<1>4. QED BY <1>2, <1>3

\* A batch is no more than what is left of the file.
LEMMA BatchBound ==
  ASSUME NEW s \in Sender, NEW room \in Nat
  PROVE  Batch(s, room) \in 0 .. FileLen - s.at
<1>1. s.at \in Nat /\ s.at <= FileLen /\ FileLen \in Nat
  BY SenderFields, ZmodemParams DEF Position
<1>2. QED BY <1>1 DEF Batch, Least

\* fill.
LEMMA FillKept ==
  ASSUME NEW s, NEW r, NEW l \in Seq(Piece), Kept(s, r, l), NEW room \in Nat
  PROVE  Kept(Fill(s, room), r, l)
<1> DEFINE opened == OpenFrame(s)
           sent == SendBatch(opened, Batch(opened, room))
<1>1. CASE s.state # "Sending" \/ s.holding BY <1>1 DEF Fill
<1>2. CASE ~ (s.state # "Sending" \/ s.holding)
  <2>1. Kept(opened, r, l) /\ Unheaded(opened) BY <1>2, OpenFrameKept
  <2>2. Batch(opened, room) \in 0 .. FileLen - opened.at
    BY <2>1, BatchBound DEF Kept
  <2> HIDE DEF opened
  <2>3. Kept(sent, r, l) /\ sent.state = "Sending" BY <2>1, <2>2, SendBatchKept
  <2>4. Fill(s, room) = SayEof(sent) BY <1>2 DEF Fill, opened
  <2> HIDE DEF sent
  <2>5. QED BY <2>3, <2>4, SayEofKept
<1>3. QED BY <1>1, <1>2

\* go_back: the header it owes is what makes the jump safe.
LEMMA GoBackKept ==
  ASSUME NEW s, NEW r, NEW l \in Seq(Piece), Kept(s, r, l), NEW pos \in Position
  PROVE  Kept(GoBack(s, pos), r, l)
<1>1. s \in Sender BY DEF Kept
<1>2. /\ GoBack(s, pos) \in Sender /\ GoBack(s, pos).out = s.out
      /\ GoBack(s, pos).state = "Sending" /\ GoBack(s, pos).owe_header
  BY <1>1 DEF GoBack, Sender, State
<1>3. QED BY <1>2, StaysSilent DEF Offered, Unheaded

\* Whatever only touches patience, the far end's abilities or "holding".
LEMMA AsideKept ==
  ASSUME NEW s, NEW r, NEW l \in Seq(Piece), Kept(s, r, l), NEW n \in 0 .. Patience
  PROVE  /\ Kept([s EXCEPT !.waited = n], r, l)
         /\ Kept([s EXCEPT !.holding = FALSE], r, l)
         /\ Kept([s EXCEPT !.overlap = Overlap], r, l)
<1>1. s \in Sender BY DEF Kept
<1>2. ASSUME NEW t \in Sender, t.out = s.out, t.state = s.state,
             t.owe_header = s.owe_header, t.at = s.at
      PROVE  Kept(t, r, l)
  BY <1>2, StaysSilent DEF Offered, Unheaded
<1>3. Kept([s EXCEPT !.waited = n], r, l) BY <1>1, <1>2 DEF Sender
<1>4. Kept([s EXCEPT !.holding = FALSE], r, l) BY <1>1, <1>2 DEF Sender
<1>5. Kept([s EXCEPT !.overlap = Overlap], r, l) BY <1>1, <1>2, ZmodemParams DEF Sender
<1>6. QED BY <1>3, <1>4, <1>5

\* A header that says the same whatever came before it, and the state after it.
LEMMA ClosesWith ==
  ASSUME NEW s, NEW r, NEW l \in Seq(Piece), Kept(s, r, l),
         NEW kind \in {"ZFIN", "OO", "CAN"}, NEW state \in {"Finishing", "Done", "Failed"}
  PROVE  Kept([Out(s, <<Say(kind)>>) EXCEPT !.state = state], r, l)
<1> DEFINE p == Say(kind)
           o == Out(s, <<p>>)
           t == [o EXCEPT !.state = state]
<1>1. s \in Sender BY DEF Kept
<1>2. p \in Piece /\ p.kind = kind BY PieceTypes DEF Say, Plain
<1> HIDE DEF p
<1>3. <<p>> \in Seq(Piece) BY <1>2
<1>4. o \in Sender /\ o.out = s.out \o <<p>> BY <1>1, <1>3, OutSender
<1> HIDE DEF o
<1>5. t \in Sender /\ t.out = s.out \o <<p>> /\ t.state = state
  BY <1>4 DEF Sender, State
<1> HIDE DEF t
<1>6. Kept(t, r, l)
  BY <1>2, <1>5, SaysOne DEF Shaped, Loose, Offered, Unheaded
<1>7. QED BY <1>6 DEF t, o, p

\* cancel, and patience that is out.
LEMMA GiveUpKept ==
  ASSUME NEW s, NEW r, NEW l \in Seq(Piece), Kept(s, r, l)
  PROVE  Kept(Cancel(s), r, l) /\ Kept(Fail(s), r, l)
<1>1. s \in Sender BY DEF Kept
<1>2. Fail(s) \in Sender /\ Fail(s).out = s.out /\ Fail(s).state = "Failed"
  BY <1>1 DEF Fail, Sender, State
<1>3. Kept(Fail(s), r, l) BY <1>2, StaysSilent DEF Offered, Unheaded
<1>4. QED BY <1>3, ClosesWith DEF Cancel

\* on_rinit: the end of the file, or the offer, or a late one.
LEMMA OnRinitKept ==
  ASSUME NEW s, NEW r, NEW l \in Seq(Piece), Kept(s, r, l)
  PROVE  Kept(OnRinit(s), r, l)
<1> DEFINE told == [s EXCEPT !.overlap = Overlap]
<1>1. s \in Sender BY DEF Kept
<1>2. Kept(told, r, l) /\ told.state = s.state
  <2>1. 0 \in 0 .. Patience BY ZmodemParams
  <2>2. QED BY <1>1, <2>1, AsideKept DEF Sender
<1> HIDE DEF told
<1>3. Kept([Out(told, <<Say("ZFIN")>>) EXCEPT !.state = "Finishing"], r, l)
  BY <1>2, ClosesWith
<1>4. s.state = "Greeting" => Kept(Offer(told), r, l) BY <1>2, OfferKept DEF Offered
<1>5. CASE s.state \in {"Finishing", "Sending"} /\ Finished(s)
  BY <1>3, <1>5 DEF OnRinit, told
<1>6. CASE ~ (s.state \in {"Finishing", "Sending"} /\ Finished(s)) /\ s.state = "Greeting"
  BY <1>4, <1>6 DEF OnRinit, told
<1>7. CASE ~ (s.state \in {"Finishing", "Sending"} /\ Finished(s)) /\ s.state # "Greeting"
  BY <1>2, <1>7 DEF OnRinit, told
<1>8. QED BY <1>5, <1>6, <1>7

\* act, whatever the header.
LEMMA SenderActsKept ==
  ASSUME NEW s, NEW r, NEW l \in Seq(Piece), Kept(s, r, l), NEW piece \in Piece
  PROVE  Kept(SenderActs(s, piece), r, l)
<1> DEFINE heard == [s EXCEPT !.waited = 0]
<1>1. Kept(heard, r, l)
  <2>1. 0 \in 0 .. Patience BY ZmodemParams
  <2>2. QED BY <2>1, AsideKept
<1> HIDE DEF heard
<1>2. Kept(OnRinit(heard), r, l) BY <1>1, OnRinitKept
<1>3. piece.kind = "ZRPOS" => Kept(GoBack(heard, piece.pos), r, l)
  BY <1>1, PieceFields, GoBackKept DEF Placed
<1>4. Kept([heard EXCEPT !.holding = FALSE], r, l)
  <2>1. 0 \in 0 .. Patience BY ZmodemParams
  <2>2. QED BY <1>1, <2>1, AsideKept
<1>5. Kept([Out(heard, <<Say("OO")>>) EXCEPT !.state = "Done"], r, l)
  BY <1>1, ClosesWith
<1>6. \/ SenderActs(s, piece) = s \/ SenderActs(s, piece) = OnRinit(heard)
      \/ piece.kind = "ZRPOS" /\ SenderActs(s, piece) = GoBack(heard, piece.pos)
      \/ SenderActs(s, piece) = [heard EXCEPT !.holding = FALSE]
      \/ SenderActs(s, piece) = [Out(heard, <<Say("OO")>>) EXCEPT !.state = "Done"]
      \/ SenderActs(s, piece) = heard
  BY DEF SenderActs, heard
<1>7. QED BY <1>1, <1>2, <1>3, <1>4, <1>5, <1>6

\* What the response timer repeats.
LEMMA SenderRepeatsKept ==
  ASSUME NEW s, NEW r, NEW l \in Seq(Piece), Kept(s, r, l), NEW room \in Nat
  PROVE  Kept(SenderRepeats(s, room), r, l)
<1>1. s.state = "Greeting" => Kept(Greet(s), r, l) BY GreetKept DEF Offered
<1>2. s.state = "Offering" => Kept(Offer(s), r, l) BY OfferKept DEF Offered
<1>3. Kept(Fill([s EXCEPT !.holding = FALSE], room), r, l)
  <2>1. 0 \in 0 .. Patience BY ZmodemParams
  <2>2. QED BY <2>1, AsideKept, FillKept
<1>4. s.state = "Finishing" => Kept(Out(s, <<Say("ZFIN")>>), r, l)
  <2>1. ASSUME s.state = "Finishing"
        PROVE  Out(s, <<Say("ZFIN")>>) = [Out(s, <<Say("ZFIN")>>) EXCEPT !.state = "Finishing"]
    <3>1. s \in Sender /\ <<Say("ZFIN")>> \in Seq(Piece)
      BY PieceTypes DEF Kept, Plain
    <3>2. Out(s, <<Say("ZFIN")>>) \in Sender /\ Out(s, <<Say("ZFIN")>>).state = "Finishing"
      BY <2>1, <3>1, OutSender
    <3>3. QED BY <3>2 DEF Sender
  <2>2. Kept([Out(s, <<Say("ZFIN")>>) EXCEPT !.state = "Finishing"], r, l)
    BY ClosesWith
  <2> DEFINE o == Out(s, <<Say("ZFIN")>>)
             t == [o EXCEPT !.state = "Finishing"]
  <2>3. (s.state = "Finishing" => o = t) /\ Kept(t, r, l) BY <2>1, <2>2
  <2> HIDE DEF o, t
  <2>4. s.state = "Finishing" => Kept(o, r, l) BY <2>3
  <2>5. QED BY <2>4 DEF o
<1>5. QED BY <1>1, <1>2, <1>3, <1>4 DEF SenderRepeats

\* A response interval.
LEMMA SenderWaits ==
  ASSUME NEW s, NEW r, NEW l \in Seq(Piece), Kept(s, r, l), NEW room \in Nat
  PROVE  Kept(Waited(s, SenderRepeats(s, room)), r, l)
<1>1. Kept(Fail(s), r, l) /\ Kept(SenderRepeats(s, room), r, l)
  BY GiveUpKept, SenderRepeatsKept
<1>2. s.waited + 1 < Patience => s.waited + 1 \in 0 .. Patience
  BY SenderFields, ZmodemParams DEF Kept
<1>3. s.waited + 1 < Patience \/ s.waited + 1 >= Patience
  BY SenderFields, ZmodemParams DEF Kept
<1>4. s.waited + 1 < Patience =>
        Kept([SenderRepeats(s, room) EXCEPT !.waited = s.waited + 1], r, l)
  BY <1>1, <1>2, AsideKept
<1>5. QED BY <1>1, <1>3, <1>4 DEF Waited

-----------------------------------------------------------------------------
(* The receiver.                                                           *)

\* What a step of FileTransfer is of, for a receiver that was r and is now q.
Progress(r, q) ==
  \/ q.data = r.data /\ q.arrived = r.arrived
  \/ /\ Len(r.data) < FileLen
     /\ q.data = Append(r.data, Len(r.data) + 1) /\ q.arrived = r.arrived
  \/ q.data = <<>> /\ q.arrived = r.arrived
  \/ /\ r.data = Transfer!File /\ r.arrived = <<>>
     /\ q.data = r.data /\ q.arrived = <<Transfer!File>>

\* The fields of a receiver.
LEMMA ReceiverFields ==
  ASSUME NEW r \in Receiver
  PROVE  /\ r.state \in State /\ r.named \in BOOLEAN /\ r.data \in Seq(Position)
         /\ r.arrived \in Seq(Seq(Position)) /\ r.in_data \in BOOLEAN
         /\ r.asked_at \in Position \cup {NotAsked} /\ r.complete \in BOOLEAN
         /\ r.waited \in 0 .. Patience /\ r.out \in Seq(Piece)
BY DEF Receiver

\* A beginning of the file is no longer than the file, and the whole of it
\* if it is as long.
LEMMA BeginningLength ==
  ASSUME NEW r \in Receiver, Beginning(r)
  PROVE  /\ Len(r.data) \in Position
         /\ Len(r.data) = FileLen => r.data = Transfer!File
<1>1. r.data \in Seq(Position) /\ Len(r.data) \in Nat
  BY ReceiverFields, LenProperties
<1>2. Len(r.data) \in Position
  <2>1. CASE Len(r.data) = 0 BY <2>1, ZmodemParams DEF Position
  <2>2. CASE Len(r.data) # 0
    <3>1. Len(r.data) \in 1 .. Len(r.data) BY <1>1, <2>2
    <3>2. r.data[Len(r.data)] \in Position BY <1>1, <3>1, ElementOfSeq
    <3>3. QED BY <3>1, <3>2 DEF Beginning
  <2>3. QED BY <2>1, <2>2
<1>3. ASSUME Len(r.data) = FileLen PROVE r.data = Transfer!File
  <2>1. /\ Transfer!File \in [1 .. FileLen -> Nat] /\ FileLen \in Nat
        /\ \A i \in 1 .. FileLen : Transfer!File[i] = i
    BY ZmodemParams DEF Transfer!File
  <2>2. Transfer!File \in Seq(Nat) /\ Len(Transfer!File) = FileLen BY <2>1
  <2>3. r.data \in Seq(Nat)
    <3>1. Position \subseteq Nat BY ZmodemParams DEF Position
    <3>2. QED BY <1>1, <3>1, SeqMonotonic
  <2>4. \A i \in 1 .. Len(r.data) : r.data[i] = Transfer!File[i]
    BY <1>3, <2>1 DEF Beginning
  <2>5. QED BY <1>3, <2>2, <2>3, <2>4, SeqEqual
<1>4. QED BY <1>2, <1>3

\* out.extend, and at most a change of state with it.
LEMMA OutReceiver ==
  ASSUME NEW r \in Receiver, NEW p \in Piece
  PROVE  /\ Out(r, <<p>>) \in Receiver /\ Out(r, <<p>>).state = r.state
         /\ Out(r, <<p>>).data = r.data /\ Out(r, <<p>>).arrived = r.arrived
         /\ Out(r, <<p>>).complete = r.complete /\ Out(r, <<p>>).in_data = r.in_data
<1>1. r.out \o <<p>> \in Seq(Piece)
  <2>1. <<p>> \in Seq(Piece) OBVIOUS
  <2>2. QED BY <2>1, ReceiverFields, ConcatProperties
<1>2. QED BY <1>1 DEF Out, Receiver

\* q has received what r has, and is in no frame r is not in.
Calm(r, q) ==
  /\ q \in Receiver /\ q.data = r.data /\ q.arrived = r.arrived /\ q.complete = r.complete
  /\ q.in_data => r.in_data
  /\ Expecting(q) => ~ Over(r) /\ q.state = r.state

\* A receiver that takes nothing and enters no frame keeps the invariant.
LEMMA Calmly ==
  ASSUME NEW s, NEW r, NEW q, NEW m, Good(s, r, m), Calm(r, q)
  PROVE  Good(s, q, m) /\ Progress(r, q)
<1>1. HeadFits(q, m) BY DEF Calm, Good, HeadFits, Expecting, Fits
<1>2. LastLeads(s, q, m) BY DEF Calm, Good, LastLeads, Expecting
<1>3. q.in_data /\ q.state = "Offering" => r.in_data /\ r.state = "Offering"
  BY DEF Calm, Expecting, Over
<1>4. Once(s, q, m) BY <1>3 DEF Calm, Good, Once
<1>5. Beginning(q) BY DEF Calm, Good, Beginning
<1>6. QED BY <1>1, <1>2, <1>4, <1>5 DEF Calm, Good, Progress

\* Saying where the file goes on from.
LEMMA RewindToCalm ==
  ASSUME NEW r \in Receiver, NEW pos \in Position
  PROVE  Calm(r, RewindTo(r, pos)) /\ ~ RewindTo(r, pos).in_data
<1> DEFINE p == SayAt("ZRPOS", pos)
           o == Out(r, <<p>>)
<1>1. p \in Piece BY PieceTypes DEF Placed
<1> HIDE DEF p
<1>2. /\ o \in Receiver /\ o.state = r.state /\ o.data = r.data
      /\ o.arrived = r.arrived /\ o.complete = r.complete
  BY <1>1, OutReceiver
<1> HIDE DEF o
<1>3. RewindTo(r, pos) = [o EXCEPT !.in_data = FALSE] BY DEF RewindTo, o, p
<1>4. QED BY <1>2, <1>3 DEF Calm, Expecting, Receiver

\* rewind, whether it asks or has asked already.
LEMMA RewindCalm ==
  ASSUME NEW r \in Receiver, Len(r.data) \in Position
  PROVE  /\ Calm(r, Rewind(r))
         /\ ~ r.in_data => ~ Rewind(r).in_data
<1> DEFINE asked == [r EXCEPT !.asked_at = Len(r.data)]
<1>1. /\ asked \in Receiver /\ asked.data = r.data /\ asked.arrived = r.arrived
      /\ asked.complete = r.complete /\ asked.in_data = r.in_data
      /\ asked.state = r.state
  BY DEF Receiver
<1> HIDE DEF asked
<1>2. Calm(asked, RewindTo(asked, Len(r.data))) /\ ~ RewindTo(asked, Len(r.data)).in_data
  BY <1>1, RewindToCalm
<1>3. Rewind(r) = r \/ Rewind(r) = RewindTo(asked, Len(r.data)) BY DEF Rewind, asked
<1>4. QED BY <1>1, <1>2, <1>3 DEF Calm, Expecting

\* announce.
LEMMA AnnounceCalm ==
  ASSUME NEW r \in Receiver
  PROVE  Calm(r, Announce(r)) /\ Announce(r).in_data = r.in_data
<1>1. Say("ZRINIT") \in Piece BY PieceTypes DEF Plain
<1>2. QED BY <1>1, OutReceiver DEF Announce, Calm, Expecting, Over

\* cancel, and patience that is out.
LEMMA ReceiverGivesUp ==
  ASSUME NEW r \in Receiver
  PROVE  Calm(r, Cancel(r)) /\ Calm(r, Fail(r))
<1> DEFINE p == Say("CAN")
           o == Out(r, <<p>>)
<1>1. p \in Piece BY PieceTypes DEF Plain
<1> HIDE DEF p
<1>2. /\ o \in Receiver /\ o.data = r.data /\ o.arrived = r.arrived
      /\ o.complete = r.complete /\ o.in_data = r.in_data
  BY <1>1, OutReceiver
<1> HIDE DEF o
<1>3. Cancel(r) = [o EXCEPT !.state = "Failed"] BY DEF Cancel, o, p
<1>4. Calm(r, Cancel(r)) BY <1>2, <1>3 DEF Calm, Expecting, Over, Receiver, State
<1>5. Calm(r, Fail(r)) BY DEF Fail, Calm, Expecting, Over, Receiver, State
<1>6. QED BY <1>4, <1>5

\* What the receiver's timer repeats, and the interval it counts.
LEMMA ReceiverWaits ==
  ASSUME NEW r \in Receiver, Len(r.data) \in Position
  PROVE  /\ Calm(r, ReceiverRepeats(r))
         /\ Calm(r, Waited(r, ReceiverRepeats(r)))
<1> DEFINE q == ReceiverRepeats(r)
<1>1. Calm(r, r) BY DEF Calm, Expecting
<1>2. Calm(r, q) BY <1>1, AnnounceCalm, RewindCalm DEF ReceiverRepeats
<1>3. r.waited + 1 < Patience => r.waited + 1 \in 0 .. Patience
  BY ReceiverFields, ZmodemParams
<1>4. r.waited + 1 < Patience \/ r.waited + 1 >= Patience
  BY ReceiverFields, ZmodemParams
<1> HIDE DEF q
<1>5. r.waited + 1 < Patience => Calm(r, [q EXCEPT !.waited = r.waited + 1])
  BY <1>2, <1>3 DEF Calm, Expecting, Over, Receiver
<1>6. Calm(r, Waited(r, q)) BY <1>1, <1>4, <1>5, ReceiverGivesUp DEF Waited
<1>7. QED BY <1>2, <1>6 DEF q

-----------------------------------------------------------------------------
(* What the receiver reads: the head of the line m, leaving its tail.      *)

\* Reading left the receiver q, with the rest of m before it.
Read(s, r, q, m) == q \in Receiver /\ Good(s, q, Tail(m)) /\ Progress(r, q)

\* The head is stepped over, outside any frame or leaving one.
LEMMA StepsOver ==
  ASSUME NEW s, NEW r, NEW q, NEW m \in Seq(Piece), m # <<>>, Good(s, r, m),
         Calm(r, q), ~ q.in_data
  PROVE  Read(s, r, q, m)
<1>1. /\ Chain(Tail(m)) /\ \A kind : Has(Tail(m), kind) => Has(m, kind)
      /\ Tail(m) # <<>> => Tail(m)[Len(Tail(m))] = m[Len(m)]
  BY TailChain DEF Good
<1>2. HeadFits(q, Tail(m)) BY DEF HeadFits, Expecting
<1>3. LastLeads(s, q, Tail(m)) BY <1>1 DEF Good, LastLeads, Expecting
<1>4. Once(s, q, Tail(m)) BY <1>1 DEF Good, Once, Calm
<1>5. Beginning(q) BY DEF Good, Beginning, Calm
<1>6. QED BY <1>1, <1>2, <1>3, <1>4, <1>5 DEF Read, Good, Calm, Progress

\* A header that opens a frame: that of an offer, or of data where the file
\* goes on.
LEMMA EntersFrame ==
  ASSUME NEW s, NEW r, NEW q \in Receiver, NEW m \in Seq(Piece), m # <<>>, Good(s, r, m),
         q.data = r.data, q.arrived = r.arrived, q.complete = r.complete,
         \/ m[1].kind = "ZFILE" /\ q.state = "Offering"
         \/ m[1].kind = "ZDATA" /\ q.state = "Sending" /\ m[1].pos = Len(q.data)
  PROVE  Read(s, r, q, m)
<1> DEFINE t == Tail(m)
<1>1. /\ Chain(t) /\ t \in Seq(Piece) /\ \A kind : Has(t, kind) => Has(m, kind)
      /\ t # <<>> => Linked(m[1], t[1]) /\ t[Len(t)] = m[Len(m)]
      /\ t = <<>> => m[Len(m)] = m[1]
  BY TailChain DEF Good
<1>2. t # <<>> => t[1] \in Piece
  BY <1>1, LenProperties, EmptySeq, ElementOfSeq
<1>3. Len(q.data) \in Nat BY ReceiverFields, LenProperties
<1> HIDE DEF t
<1>4. HeadFits(q, t)
  <2>1. CASE m[1].kind = "ZFILE" BY <1>1, <2>1 DEF HeadFits, Fits, Linked
  <2>2. CASE m[1].kind = "ZDATA"
    <3>1. ASSUME t # <<>> PROVE Fits(q, t[1])
      <4>1. t[1].kind # "Info" BY <1>1, <2>2, <3>1 DEF Linked
      <4>2. ASSUME t[1].kind = "Data", t[1].chunk # 0
            PROVE  t[1].chunk = Len(q.data) + 1
        <5>1. m[1].pos = t[1].chunk - 1 BY <1>1, <2>2, <3>1, <4>2 DEF Linked, Leads
        <5>2. t[1].chunk \in Nat
          BY <1>2, <3>1, <4>2, PieceFields, ZmodemParams DEF Position
        <5>3. m[1].pos = Len(q.data) BY <2>2
        <5>4. QED BY <1>3, <5>1, <5>2, <5>3
      <4>3. QED BY <4>1, <4>2 DEF Fits
    <3>2. QED BY <3>1 DEF HeadFits
  <2>3. QED BY <2>1, <2>2
<1>5. LastLeads(s, q, t)
  <2>1. ASSUME Unheaded(s) PROVE Leads(m[Len(m)], s.at) BY <2>1 DEF Good, LastLeads
  <2>2. QED BY <1>1, <2>1 DEF LastLeads, Leads
<1>6. Once(s, q, t)
  <2>1. m[1].kind = "ZFILE" => Has(m, "ZFILE")
    <3>1. 1 \in 1 .. Len(m) BY LenProperties, EmptySeq
    <3>2. QED BY <3>1 DEF Has
  <2>2. QED BY <1>1, <2>1 DEF Good, Once
<1>7. Beginning(q) BY DEF Good, Beginning
<1>8. QED BY <1>1, <1>4, <1>5, <1>6, <1>7 DEF Read, Good, Progress, t

\* A ZDATA: taken where the file goes on, and asked again where it does not.
LEMMA OnDataRead ==
  ASSUME NEW s, NEW r \in Receiver, NEW m \in Seq(Piece), m # <<>>, Good(s, r, m),
         ~ r.in_data, ~ Over(r), m[1].kind = "ZDATA"
  PROVE  Read(s, r, OnData(r, m[1].pos), m)
<1> DEFINE begun == [r EXCEPT !.state = "Sending"]
           q == [begun EXCEPT !.asked_at = NotAsked, !.in_data = TRUE]
<1>1. Len(r.data) \in Position BY BeginningLength DEF Good
<1>2. Calm(r, begun) /\ begun.data = r.data /\ ~ begun.in_data
  BY DEF Calm, Expecting, Over, Receiver, State
<1>3. /\ q \in Receiver /\ q.data = r.data /\ q.arrived = r.arrived
      /\ q.complete = r.complete /\ q.state = "Sending"
  BY DEF Receiver, State
<1>4. CASE m[1].pos # Len(r.data)
  <2>1. OnData(r, m[1].pos) = Rewind(begun) BY <1>4 DEF OnData
  <2> HIDE DEF begun
  <2>2. Calm(begun, Rewind(begun)) /\ ~ Rewind(begun).in_data
    BY <1>1, <1>2, RewindCalm DEF Calm
  <2>3. Calm(r, Rewind(begun)) BY <1>2, <2>2 DEF Calm, Expecting
  <2>4. QED BY <2>1, <2>2, <2>3, StepsOver
<1>5. CASE m[1].pos = Len(r.data)
  <2>1. OnData(r, m[1].pos) = q BY <1>5 DEF OnData
  <2> HIDE DEF q
  <2>2. QED BY <1>3, <1>5, <2>1, EntersFrame
<1>6. QED BY <1>4, <1>5

\* A ZEOF: the file is kept where all of it is here, named and not yet kept.
LEMMA OnEofRead ==
  ASSUME NEW s, NEW r \in Receiver, NEW m \in Seq(Piece), m # <<>>, Good(s, r, m),
         ~ r.in_data, ~ Over(r), m[1].kind = "ZEOF"
  PROVE  Read(s, r, OnEof(r, m[1].pos), m)
<1> DEFINE keep == ~ r.complete /\ r.named
           more == IF keep THEN Append(r.arrived, r.data) ELSE r.arrived
           k == [r EXCEPT !.complete = TRUE, !.state = "Finishing", !.arrived = more]
           q == OnEof(r, m[1].pos)
           t == Tail(m)
<1>1. Len(r.data) \in Position /\ (Len(r.data) = FileLen => r.data = Transfer!File)
  BY BeginningLength DEF Good
<1>2. CASE m[1].pos # Len(r.data)
  <2>1. q = Rewind(r) BY <1>2 DEF OnEof
  <2>2. QED BY <1>1, <2>1, RewindCalm, StepsOver
<1>3. CASE m[1].pos = Len(r.data)
  <2>1. /\ Chain(t) /\ t \in Seq(Piece) /\ \A kind : Has(t, kind) => Has(m, kind)
        /\ ~ Has(t, "ZFILE") /\ Shaped(m[1])
        /\ t # <<>> => t[Len(t)] = m[Len(m)]
    BY TailChain DEF Good
  <2>2. r.data = Transfer!File BY <1>1, <1>3, <2>1 DEF Shaped
  <2>3. Offered(s)
    <3>1. 1 \in 1 .. Len(m) BY LenProperties, EmptySeq
    <3>2. Has(m, "ZEOF") BY <3>1 DEF Has
    <3>3. QED BY <3>2 DEF Good, Once
  <2>4. keep => r.arrived = <<>> BY DEF Good, Once
  <2>5. \/ more = r.arrived
        \/ r.arrived = <<>> /\ more = <<Transfer!File>>
    <3>1. keep => more = Append(<<>>, Transfer!File) BY <2>2, <2>4
    <3>2. Append(<<>>, Transfer!File) = <<Transfer!File>> OBVIOUS
    <3>3. QED BY <2>4, <3>1, <3>2
  <2>6. more \in Seq(Seq(Position))
    BY ReceiverFields, AppendProperties
  <2>7. q = Announce(k) BY <1>3 DEF OnEof
  <2> HIDE DEF keep, more
  <2>8. /\ k \in Receiver /\ k.data = r.data /\ k.arrived = more /\ k.complete
        /\ ~ k.in_data /\ k.state = "Finishing"
    BY <2>6 DEF Receiver, State
  <2> HIDE DEF k, q, t
  <2>9. /\ q \in Receiver /\ q.data = r.data /\ q.arrived = more /\ q.complete
        /\ ~ q.in_data
    BY <2>7, <2>8, AnnounceCalm DEF Calm
  <2>10. HeadFits(q, t) BY <2>9 DEF HeadFits, Expecting
  <2>11. LastLeads(s, q, t) BY <2>1, <2>9 DEF Good, LastLeads, Expecting
  <2>12. Once(s, q, t) BY <2>1, <2>3, <2>5, <2>9 DEF Good, Once
  <2>13. Beginning(q) BY <2>9 DEF Good, Beginning
  <2>14. Progress(r, q) BY <2>2, <2>5, <2>9 DEF Progress
  <2>15. QED BY <2>1, <2>9, <2>10, <2>11, <2>12, <2>13, <2>14 DEF Read, Good, t, q
<1>4. QED BY <1>2, <1>3

\* act, whatever the header, and whatever it steps over.
LEMMA ReceiverActsRead ==
  ASSUME NEW s, NEW r \in Receiver, NEW m \in Seq(Piece), m # <<>>, Good(s, r, m),
         ~ r.in_data, ~ Over(r)
  PROVE  Read(s, r, ReceiverActs(r, m[1]), m)
<1> DEFINE heard == [r EXCEPT !.waited = 0]
           q == ReceiverActs(r, m[1])
<1>1. 0 \in 0 .. Patience BY ZmodemParams
<1>2. Calm(r, heard) /\ Calm(heard, r)
  BY <1>1 DEF Calm, Expecting, Over, Receiver
<1>3. /\ heard \in Receiver /\ heard.data = r.data /\ heard.arrived = r.arrived
      /\ heard.complete = r.complete /\ ~ heard.in_data /\ ~ Over(heard)
      /\ heard.state = r.state
  BY <1>1 DEF Receiver, Over
<1>4. Good(s, heard, m) BY <1>2, Calmly
<1>5. \A x : Read(s, heard, x, m) => Read(s, r, x, m)
  BY <1>3 DEF Read, Progress
<1>6. CASE m[1].kind = "ZRQINIT"
  <2>1. q = Announce(heard) BY <1>6 DEF ReceiverActs
  <2> HIDE DEF heard, q
  <2>2. Read(s, heard, q, m) BY <1>3, <1>4, <2>1, AnnounceCalm, StepsOver
  <2>3. QED BY <1>5, <2>2 DEF q
<1>7. CASE m[1].kind = "ZFILE"
  <2>1. q = [heard EXCEPT !.state = "Offering", !.in_data = TRUE]
    BY <1>7 DEF ReceiverActs
  <2> HIDE DEF heard, q
  <2>2. /\ q \in Receiver /\ q.data = heard.data /\ q.arrived = heard.arrived
        /\ q.complete = heard.complete /\ q.state = "Offering"
    BY <1>3, <2>1 DEF Receiver, State
  <2>3. Read(s, heard, q, m) BY <1>4, <1>7, <2>2, EntersFrame
  <2>4. QED BY <1>5, <2>3 DEF q
<1>8. CASE m[1].kind = "ZDATA"
  <2>1. q = OnData(heard, m[1].pos) BY <1>8 DEF ReceiverActs
  <2> HIDE DEF heard, q
  <2>2. QED BY <1>3, <1>4, <1>5, <1>8, <2>1, OnDataRead DEF q
<1>9. CASE m[1].kind = "ZEOF"
  <2>1. q = OnEof(heard, m[1].pos) BY <1>9 DEF ReceiverActs
  <2> HIDE DEF heard, q
  <2>2. QED BY <1>3, <1>4, <1>5, <1>9, <2>1, OnEofRead DEF q
<1>10. CASE m[1].kind = "ZFIN"
  <2> DEFINE p == Say("ZFIN")
             o == Out(heard, <<p>>)
  <2>1. p \in Piece BY PieceTypes DEF Plain
  <2> HIDE DEF p, heard
  <2>2. /\ o \in Receiver /\ o.data = heard.data /\ o.arrived = heard.arrived
        /\ o.complete = heard.complete /\ o.in_data = heard.in_data
    BY <1>3, <2>1, OutReceiver
  <2>3. q = [o EXCEPT !.state = "Finishing"] BY <1>10 DEF ReceiverActs, heard, p
  <2> HIDE DEF o, q
  <2>4. Calm(heard, q) /\ ~ q.in_data
    BY <1>3, <2>2, <2>3 DEF Calm, Expecting, Receiver, State
  <2>5. QED BY <1>4, <1>5, <2>4, StepsOver DEF q
<1>11. CASE m[1].kind \notin {"ZRQINIT", "ZFILE", "ZDATA", "ZEOF", "ZFIN"}
  <2>1. q = r \/ q = [r EXCEPT !.state = "Done"] BY <1>11 DEF ReceiverActs
  <2> HIDE DEF q
  <2>2. Calm(r, q) /\ ~ q.in_data
    BY <2>1 DEF Calm, Expecting, Receiver, State
  <2>3. QED BY <2>2, StepsOver DEF q
<1>12. QED BY <1>6, <1>7, <1>8, <1>9, <1>10, <1>11

\* A subpacket that did not pass its check, or was none.
LEMMA BadPacketCalm ==
  ASSUME NEW r \in Receiver, Len(r.data) \in Position
  PROVE  Calm(r, OnBadPacket(r)) /\ ~ OnBadPacket(r).in_data
<1> DEFINE k == [r EXCEPT !.in_data = FALSE]
<1>1. k \in Receiver /\ Calm(r, k) /\ ~ k.in_data /\ k.data = r.data
  BY DEF Calm, Expecting, Receiver
<1> HIDE DEF k
<1>2. Calm(k, Rewind(k)) /\ ~ Rewind(k).in_data BY <1>1, RewindCalm
<1>3. Calm(r, Rewind(k)) /\ ~ Rewind(k).in_data BY <1>1, <1>2 DEF Calm, Expecting
<1>4. QED BY <1>3 DEF OnBadPacket, k

\* The subpacket behind a ZFILE starts the file from nothing.  It cannot be
\* one that was handed up.
LEMMA TakeOfferRead ==
  ASSUME NEW s, NEW r \in Receiver, NEW m \in Seq(Piece), m # <<>>, Good(s, r, m),
         r.in_data, r.state = "Offering"
  PROVE  Read(s, r, TakeOffer([[r EXCEPT !.waited = 0] EXCEPT !.in_data = FALSE]), m)
<1> DEFINE h == [[r EXCEPT !.waited = 0] EXCEPT !.in_data = FALSE]
           k == [h EXCEPT !.named = TRUE, !.data = <<>>, !.complete = FALSE,
                          !.state = "Sending"]
           q == RewindTo(k, 0)
           t == Tail(m)
<1>1. 0 \in 0 .. Patience /\ 0 \in Position BY ZmodemParams DEF Position
<1>2. h \in Receiver /\ h.arrived = r.arrived BY <1>1 DEF Receiver
<1> HIDE DEF h
<1>3. k \in Receiver /\ k.data = <<>> /\ k.arrived = r.arrived
  <2>1. <<>> \in Seq(Position) OBVIOUS
  <2>2. QED BY <1>2, <2>1 DEF Receiver, State
<1> HIDE DEF k
<1>4. q \in Receiver /\ q.data = <<>> /\ q.arrived = r.arrived /\ ~ q.in_data
  BY <1>1, <1>3, RewindToCalm DEF Calm
<1> HIDE DEF q, t
<1>5. r.arrived = <<>> BY DEF Good, Once
<1>6. Chain(t) /\ \A kind : Has(t, kind) => Has(m, kind)
  BY TailChain DEF Good, t
<1>7. t # <<>> => t[Len(t)] = m[Len(m)] BY TailChain DEF Good, t
<1>8. HeadFits(q, t) /\ LastLeads(s, q, t)
  BY <1>4, <1>7 DEF HeadFits, LastLeads, Expecting, Good
<1>9. Once(s, q, t) BY <1>4, <1>5, <1>6 DEF Good, Once
<1>10. Beginning(q) BY <1>4 DEF Beginning
<1>11. Good(s, q, t) /\ Progress(r, q)
  BY <1>4, <1>6, <1>8, <1>9, <1>10 DEF Good, Progress
<1>12. QED BY <1>4, <1>11 DEF Read, TakeOffer, q, t, k, h

\* A subpacket of the file, of a frame the receiver is in: it is the next.
LEMMA TakeDataRead ==
  ASSUME NEW s, NEW r \in Receiver, NEW m \in Seq(Piece), m # <<>>, Good(s, r, m),
         r.in_data, ~ Over(r), r.state # "Offering", m[1].kind = "Data"
  PROVE  Read(s, r, TakeData(r, m[1]), m)
<1> DEFINE p == m[1]
           kept == IF p.chunk = 0 THEN r.data ELSE Append(r.data, p.chunk)
           go == (p.ending = "Go")
           k == [r EXCEPT !.data = kept, !.asked_at = NotAsked, !.in_data = go]
           ack == SayAt("ZACK", Len(kept))
           q == TakeData(r, p)
           t == Tail(m)
<1>1. /\ p \in Piece /\ Shaped(p) /\ Chain(t) /\ t \in Seq(Piece)
      /\ \A kind : Has(t, kind) => Has(m, kind)
      /\ t # <<>> => Linked(p, t[1]) /\ t[Len(t)] = m[Len(m)]
      /\ t = <<>> => m[Len(m)] = p
  BY TailChain DEF Good
<1>2. p.kind = "Data" /\ p.chunk \in Position /\ p.chunk \in Nat /\ p.ending \in Ending
  BY <1>1, PieceFields, ZmodemParams DEF Position
<1>3. /\ Len(r.data) \in Position /\ Len(r.data) \in Nat /\ r.data \in Seq(Position)
  BY BeginningLength, ReceiverFields, ZmodemParams DEF Good, Position
<1>4. p.chunk # 0 => p.chunk = Len(r.data) + 1
  BY <1>2 DEF Good, HeadFits, Expecting, Fits
<1> HIDE DEF p, t
<1>5. /\ kept \in Seq(Position) /\ Len(kept) \in Position
      /\ \A i \in 1 .. Len(kept) : kept[i] = i
      /\ p.chunk # 0 => Len(kept) = p.chunk
  <2>1. CASE p.chunk = 0 BY <1>3, <2>1 DEF Good, Beginning
  <2>2. CASE p.chunk # 0
    <3>1. /\ kept \in Seq(Position) /\ Len(kept) = Len(r.data) + 1
          /\ \A i \in 1 .. Len(r.data) : kept[i] = r.data[i]
          /\ kept[Len(r.data) + 1] = p.chunk
      BY <1>2, <1>3, <2>2, AppendProperties
    <3>2. QED BY <1>2, <1>3, <1>4, <2>2, <3>1 DEF Good, Beginning
  <2>3. QED BY <2>1, <2>2
<1>6. go => p.chunk # 0 BY <1>1, <1>2 DEF Shaped
<1>7. \/ kept = r.data
      \/ Len(r.data) < FileLen /\ kept = Append(r.data, Len(r.data) + 1)
  <2>1. p.chunk # 0 => Len(r.data) < FileLen
    BY <1>2, <1>3, <1>4, ZmodemParams DEF Position
  <2>2. QED BY <1>4, <2>1
<1>8. go \in BOOLEAN /\ (go => p.ending = "Go") OBVIOUS
<1>9. q = IF p.ending = "Wait" THEN Out(k, <<ack>>) ELSE k
  BY DEF TakeData
<1> HIDE DEF kept, go
<1>10. /\ k \in Receiver /\ k.data = kept /\ k.in_data = go /\ k.state = r.state
       /\ k.arrived = r.arrived /\ k.complete = r.complete
  BY <1>5, <1>8 DEF Receiver
<1>11. ack \in Piece BY <1>5, PieceTypes DEF Placed
<1> HIDE DEF k, ack, q
<1>12. /\ q \in Receiver /\ q.data = kept /\ q.in_data = go /\ q.state = r.state
       /\ q.arrived = r.arrived /\ q.complete = r.complete
  BY <1>9, <1>10, <1>11, OutReceiver
<1>13. HeadFits(q, t)
  <2>1. ASSUME go, t # <<>> PROVE Fits(q, t[1])
    <3>1. t[1] \in Piece BY <1>1, <2>1, LenProperties, EmptySeq, ElementOfSeq
    <3>2. t[1].kind # "Info" BY <1>1, <1>2, <2>1 DEF Linked
    <3>3. ASSUME t[1].kind = "Data", t[1].chunk # 0
          PROVE  t[1].chunk = Len(q.data) + 1
      <4>1. p.chunk = t[1].chunk - 1
        BY <1>1, <1>2, <1>8, <2>1, <3>3 DEF Linked, Leads
      <4>2. t[1].chunk \in Nat BY <3>1, <3>3, PieceFields, ZmodemParams DEF Position
      <4>3. Len(q.data) = p.chunk BY <1>5, <1>6, <1>12, <2>1
      <4>4. QED BY <1>2, <4>1, <4>2, <4>3
    <3>4. QED BY <3>2, <3>3 DEF Fits
  <2>2. QED BY <1>12, <2>1 DEF HeadFits, Expecting
<1>14. LastLeads(s, q, t)
  <2>1. ASSUME Unheaded(s) PROVE Leads(m[Len(m)], s.at) BY <2>1 DEF Good, LastLeads
  <2>2. ASSUME Unheaded(s), t = <<>>, go PROVE Len(q.data) = s.at
    <3>1. p.chunk = s.at BY <1>1, <1>2, <1>8, <2>1, <2>2 DEF Leads
    <3>2. QED BY <1>5, <1>6, <1>12, <2>2, <3>1
  <2>3. QED BY <1>1, <1>12, <2>1, <2>2 DEF LastLeads, Expecting
<1>15. Once(s, q, t) BY <1>1, <1>12 DEF Good, Once
<1>16. Beginning(q) BY <1>5, <1>12 DEF Beginning
<1>17. Progress(r, q) BY <1>7, <1>12 DEF Progress
<1>18. QED BY <1>1, <1>12, <1>13, <1>14, <1>15, <1>16, <1>17 DEF Read, Good, q, t, p

\* A subpacket that passed its check, where one was looked for.
LEMMA OnPacketRead ==
  ASSUME NEW s, NEW r \in Receiver, NEW m \in Seq(Piece), m # <<>>, Good(s, r, m),
         r.in_data, ~ Over(r), m[1].kind \in {"Data", "Info"}
  PROVE  Read(s, r, OnPacket(r, m[1]), m)
<1> DEFINE heard == [r EXCEPT !.waited = 0]
<1>1. 0 \in 0 .. Patience BY ZmodemParams
<1>2. CASE r.state = "Offering"
  <2>1. heard.state = "Offering" BY <1>2 DEF Receiver
  <2>2. QED BY <1>2, <2>1, TakeOfferRead DEF OnPacket
<1>3. CASE r.state # "Offering"
  <2>1. m[1].kind = "Data" BY <1>3 DEF Good, HeadFits, Expecting, Fits
  <2>2. Calm(r, heard) BY <1>1 DEF Calm, Expecting, Over, Receiver
  <2>3. /\ heard \in Receiver /\ heard.in_data /\ heard.state = r.state
        /\ ~ Over(heard) /\ heard.data = r.data /\ heard.arrived = r.arrived
    BY <1>1 DEF Receiver, Over
  <2>4. Good(s, heard, m) BY <2>2, Calmly
  <2> HIDE DEF heard
  <2>5. Read(s, heard, TakeData(heard, m[1]), m)
    BY <1>3, <2>1, <2>3, <2>4, TakeDataRead
  <2>6. Read(s, r, TakeData(heard, m[1]), m) BY <2>3, <2>5 DEF Read, Progress
  <2>7. OnPacket(r, m[1]) = TakeData(heard, m[1]) BY <1>3 DEF OnPacket, heard
  <2>8. QED BY <2>6, <2>7
<1>4. QED BY <1>2, <1>3

-----------------------------------------------------------------------------
(* Steps of the session.                                                   *)

\* What the environment counts.
EnvironmentOK == /\ damage \in Nat /\ only_checks \in BOOLEAN /\ cancels \in Nat
                 /\ early \in [sender : Nat, receiver : Nat]

\* The parts of the invariant a step starts from.
LEMMA Now ==
  ASSUME IInv
  PROVE  /\ Kept(sender, receiver, to_receiver)
         /\ sender \in Sender /\ receiver \in Receiver
         /\ to_receiver \in Seq(Piece) /\ to_sender \in Seq(Piece)
         /\ Good(sender, receiver, to_receiver)
         /\ Len(receiver.data) \in Position
         /\ EnvironmentOK
<1>1. to_receiver \o sender.out = to_receiver
  BY ConcatEmptySeq DEF IInv, TypeOK
<1>2. Len(receiver.data) \in Position BY BeginningLength DEF IInv, TypeOK, Good
<1>3. QED BY <1>1, <1>2 DEF IInv, TypeOK, Kept, EnvironmentOK

\* The line takes what an end has said.
LEMMA TakenTypes ==
  /\ \A s \in Sender : /\ Taken(s) \in Sender /\ Taken(s).out = <<>>
                       /\ Taken(s).state = s.state /\ Taken(s).at = s.at
                       /\ Taken(s).owe_header = s.owe_header
  /\ \A r \in Receiver : /\ Taken(r).out = <<>> /\ Calm(r, Taken(r)) /\ Calm(Taken(r), r)
<1>1. <<>> \in Seq(Piece) OBVIOUS
<1>2. QED BY <1>1 DEF Taken, Sender, Receiver, Calm, Expecting, Over

\* A step that leaves the sender s and the receiver q, having taken what
\* they said, with "rest" of what was on its way to the receiver.
LEMMA Step ==
  ASSUME NEW s, NEW q, NEW rest \in Seq(Piece), Kept(s, q, rest), q \in Receiver,
         Progress(receiver, q),
         sender' = Taken(s), receiver' = Taken(q), to_receiver' = rest \o s.out,
         to_sender' \in Seq(Piece), EnvironmentOK'
  PROVE  IInv' /\ Progress(receiver, receiver')
<1>1. s \in Sender /\ s.out \in Seq(Piece) /\ Good(s, q, rest \o s.out)
  BY SenderFields DEF Kept
<1>2. rest \o s.out \in Seq(Piece) BY <1>1, ConcatProperties
<1>3. /\ sender' \in Sender /\ sender'.out = <<>>
      /\ receiver' \in Receiver /\ receiver'.out = <<>> /\ Calm(q, receiver')
      /\ sender'.state = s.state /\ sender'.at = s.at /\ sender'.owe_header = s.owe_header
  BY <1>1, TakenTypes DEF Calm
<1>4. TypeOK' BY <1>2, <1>3 DEF TypeOK, EnvironmentOK
<1>5. Good(sender', q, to_receiver') BY <1>1, <1>3, Silently DEF Offered, Unheaded
<1>6. Good(sender', receiver', to_receiver') BY <1>3, <1>5, Calmly
<1>7. Progress(receiver, receiver') BY <1>3 DEF Progress, Calm
<1>8. QED BY <1>4, <1>6, <1>7 DEF IInv

\* A step of the sender.
LEMMA SenderStep ==
  ASSUME IInv, NEW s, NEW rest \in Seq(Piece), Kept(s, receiver, to_receiver),
         SenderNow(s, rest), EnvironmentOK'
  PROVE  IInv' /\ Progress(receiver, receiver')
<1>1. receiver \in Receiver /\ receiver.out = <<>> BY DEF IInv, TypeOK
<1>2. receiver = Taken(receiver) BY <1>1 DEF Taken, Receiver
<1>3. to_receiver \in Seq(Piece) BY DEF IInv, TypeOK
<1>4. QED BY <1>1, <1>2, <1>3, Step DEF SenderNow, Progress

\* A step of the receiver.
LEMMA ReceiverStep ==
  ASSUME IInv, NEW q \in Receiver, NEW rest \in Seq(Piece), Good(sender, q, rest),
         Progress(receiver, q), ReceiverNow(q, rest), EnvironmentOK'
  PROVE  IInv' /\ Progress(receiver, receiver')
<1>1. sender \in Sender /\ sender.out = <<>> /\ to_sender \in Seq(Piece)
  BY DEF IInv, TypeOK
<1>2. sender = Taken(sender) BY <1>1 DEF Taken, Sender
<1>3. rest \o sender.out = rest BY <1>1, ConcatEmptySeq
<1>4. to_sender' \in Seq(Piece) BY <1>1, ReceiverFields, ConcatProperties DEF ReceiverNow
<1>5. Kept(sender, q, rest) BY <1>1, <1>3 DEF Kept
<1>6. to_receiver' = rest \o sender.out BY <1>3 DEF ReceiverNow
<1>7. QED BY <1>2, <1>4, <1>5, <1>6, Step DEF ReceiverNow

\* A step in which the receiver reads nothing.
LEMMA CalmStep ==
  ASSUME IInv, NEW q, Calm(receiver, q), ReceiverNow(q, to_receiver), EnvironmentOK'
  PROVE  IInv' /\ Progress(receiver, receiver')
<1>1. Good(sender, q, to_receiver) /\ Progress(receiver, q) BY Now, Calmly
<1>2. QED BY <1>1, Now, ReceiverStep DEF Calm

\* A step in which it reads the head of the line.
LEMMA ReadStep ==
  ASSUME IInv, NEW q, to_receiver # <<>>, Read(sender, receiver, q, to_receiver),
         ReceiverNow(q, Tail(to_receiver)), EnvironmentOK'
  PROVE  IInv' /\ Progress(receiver, receiver')
<1>1. Tail(to_receiver) \in Seq(Piece) BY Now, HeadTailProperties
<1>2. QED BY <1>1, ReceiverStep DEF Read

\* There is never less than no room.
LEMMA SpaceType == IInv => Space \in Nat
<1> DEFINE ends == {i \in 1 .. Len(to_receiver) : EndsPacket(to_receiver[i])}
<1>1. SUFFICES ASSUME IInv PROVE Space \in Nat OBVIOUS
<1>2. IsFiniteSet(1 .. Len(to_receiver))
  BY <1>1, Now, LenProperties, FS_Interval
<1>3. IsFiniteSet(ends) BY <1>2, FS_Subset
<1>4. Cardinality(ends) \in Nat BY <1>3, FS_CardinalityType
<1>5. InFlight \in Nat BY <1>4 DEF InFlight
<1>6. QED BY <1>5, ZmodemParams DEF Space

\* Whatever the line hits, the invariant is left.
LEMMA DamageStep ==
  ASSUME IInv, Damage
  PROVE  IInv' /\ Progress(receiver, receiver')
<1>1. UNCHANGED <<sender, receiver>> /\ EnvironmentOK'
  <2>1. UNCHANGED <<sender, receiver, early, cancels>> /\ damage' = damage + 1
    BY DEF Damage
  <2>2. \/ \E i \in 1 .. Len(to_receiver) : \E kind \in Damaged(to_receiver[i]) :
             only_checks' = (only_checks /\ to_receiver[i].kind = "Data" /\ kind = "Spoiled")
        \/ only_checks' = FALSE
    BY Zenon DEF Damage
  <2>3. only_checks' \in BOOLEAN BY <2>2, Zenon
  <2>4. QED BY <2>1, <2>3, Now DEF EnvironmentOK
<1>2. Progress(receiver, receiver') BY <1>1 DEF Progress
<1>3. CASE UNCHANGED to_receiver
  <2>1. to_sender' \in Seq(Piece)
    <3>1. CASE UNCHANGED to_sender BY <3>1, Now
    <3>2. CASE ~ UNCHANGED to_sender
      <4>1. PICK i \in 1 .. Len(to_sender) :
              \E kind \in Damaged(to_sender[i]) : to_sender' = Hit(to_sender, kind, i)
        BY <3>2 DEF Damage
      <4>2. PICK kind \in Damaged(to_sender[i]) : to_sender' = Hit(to_sender, kind, i)
        BY <4>1
      <4>3. Say(kind) \in Piece BY PieceTypes DEF Damaged, Plain
      <4>4. QED BY <4>2, <4>3, Now, ExceptSeq DEF Hit
    <3>3. QED BY <3>1, <3>2
  <2>2. QED BY <1>1, <1>2, <1>3, <2>1, Now DEF IInv, TypeOK, EnvironmentOK
<1>4. CASE ~ UNCHANGED to_receiver
  <2>1. /\ UNCHANGED to_sender
        /\ \E i \in 1 .. Len(to_receiver) : \E kind \in Damaged(to_receiver[i]) :
             to_receiver' = Hit(to_receiver, kind, i)
    BY <1>4 DEF Damage
  <2>2. PICK i \in 1 .. Len(to_receiver) : \E kind \in Damaged(to_receiver[i]) :
             to_receiver' = Hit(to_receiver, kind, i)
    BY <2>1
  <2>3. PICK kind \in Damaged(to_receiver[i]) : to_receiver' = Hit(to_receiver, kind, i)
    BY <2>2
  <2> DEFINE m == to_receiver
             h == Hit(m, kind, i)
  <2>4. m \in Seq(Piece) /\ Good(sender, receiver, m) BY Now
  <2>5. /\ h \in Seq(Piece) /\ Chain(h) /\ Len(h) = Len(m) /\ Len(m) \in Nat
        /\ \A j \in 1 .. Len(m) : h[j] = m[j] \/ h[j].kind \in {"Noise", "Spoiled"}
    BY <2>4, HitChain, LenProperties DEF Good
  <2>6. to_receiver' = h BY <2>3
  <2>7. Len(m) >= 1 /\ m # <<>> /\ h # <<>> BY <2>5, EmptySeq
  <2> HIDE DEF m, h
  <2>8. \A r : Fits(r, m[1]) => Fits(r, h[1]) BY <2>5, <2>7 DEF Fits
  <2>9. HeadFits(receiver, h) BY <2>4, <2>7, <2>8 DEF Good, HeadFits
  <2>10. \A at : Leads(m[Len(m)], at) => Leads(h[Len(h)], at) BY <2>5, <2>7 DEF Leads
  <2>11. LastLeads(sender, receiver, h) BY <2>4, <2>7, <2>10 DEF Good, LastLeads
  <2>12. \A k \in {"ZFILE", "ZEOF"} : Has(h, k) => Has(m, k) BY <2>5 DEF Has
  <2>13. Once(sender, receiver, h) BY <2>4, <2>12 DEF Good, Once
  <2>14. Good(sender, receiver, h) BY <2>4, <2>5, <2>9, <2>11, <2>13 DEF Good
  <2>15. QED
    BY <1>1, <1>2, <2>1, <2>5, <2>6, <2>14, Now DEF IInv, TypeOK, EnvironmentOK
<1>5. QED BY <1>3, <1>4

\* feed and fill.
LEMMA SenderHearsStep ==
  ASSUME IInv, NEW n \in 1 .. 2, SenderHears(n)
  PROVE  IInv' /\ Progress(receiver, receiver')
<1> DEFINE first == SenderActs(sender, to_sender[1])
           acted == IF n = 1 THEN first ELSE SenderActs(first, to_sender[2])
           rest == SubSeq(to_sender, n + 1, Len(to_sender))
<1>1. Len(to_sender) \in Nat /\ n <= Len(to_sender) BY Now, LenProperties DEF SenderHears
<1>2. \A i \in 1 .. n : to_sender[i] \in Piece BY <1>1, Now, ElementOfSeq
<1>3. Kept(first, receiver, to_receiver)
  <2>1. to_sender[1] \in Piece BY <1>2
  <2>2. QED BY <2>1, Now, SenderActsKept
<1> HIDE DEF first
<1>4. Kept(acted, receiver, to_receiver)
  <2>1. n = 2 => to_sender[2] \in Piece BY <1>2
  <2>2. n = 2 => Kept(SenderActs(first, to_sender[2]), receiver, to_receiver)
    BY <1>3, <2>1, Now, SenderActsKept
  <2>3. QED BY <1>3, <2>2
<1> HIDE DEF acted
<1>5. Kept(Fill(acted, Space), receiver, to_receiver) BY <1>4, Now, SpaceType, FillKept
<1>6. rest \in Seq(Piece)
  <2>1. \A i \in n + 1 .. Len(to_sender) : to_sender[i] \in Piece
    BY <1>1, Now, ElementOfSeq
  <2>2. QED BY <1>1, <2>1, SubSeqProperties
<1>7. SenderNow(Fill(acted, Space), rest) BY DEF SenderHears, acted, first
<1>8. EnvironmentOK' BY Now DEF SenderHears, environment, EnvironmentOK
<1>9. QED BY <1>5, <1>6, <1>7, <1>8, SenderStep

\* The other steps of the sender.
LEMMA SenderOtherStep ==
  ASSUME IInv, SenderFills \/ SenderTimesOut \/ SenderCancels \/ SenderCancelled
  PROVE  IInv' /\ Progress(receiver, receiver')
<1>1. EnvironmentOK'
  BY Now DEF SenderFills, SenderTimesOut, SenderCancels, SenderCancelled, environment,
             EnvironmentOK
<1>2. /\ Kept(Fill(sender, Space), receiver, to_receiver)
      /\ Kept(SenderRepeats(sender, Space), receiver, to_receiver)
      /\ Kept(Cancel(sender), receiver, to_receiver)
      /\ Kept(Fail(sender), receiver, to_receiver)
  BY Now, SpaceType, FillKept, SenderRepeatsKept, GiveUpKept
<1>3. \/ SenderNow(Fill(sender, Space), to_sender)
      \/ SenderNow(SenderRepeats(sender, Space), to_sender)
      \/ SenderNow(Cancel(sender), to_sender)
      \/ SenderNow(Fail(sender), to_sender)
  BY DEF SenderFills, SenderTimesOut, SenderCancels, SenderCancelled
<1>4. QED BY <1>1, <1>2, <1>3, Now, SenderStep

\* step.
LEMMA ReceiverReadsStep ==
  ASSUME IInv, ReceiverReads
  PROVE  IInv' /\ Progress(receiver, receiver')
<1> DEFINE m == to_receiver
<1>1. /\ m # <<>> /\ m \in Seq(Piece) /\ ~ Over(receiver) /\ Next1 = m[1]
      /\ receiver \in Receiver /\ Good(sender, receiver, m)
      /\ Len(receiver.data) \in Position
  BY Now, HeadTailProperties DEF ReceiverReads, Next1
<1>2. EnvironmentOK' BY Now DEF ReceiverReads, environment, EnvironmentOK
<1>3. CASE ~ receiver.in_data /\ ReceiverNow(ReceiverActs(receiver, Next1), Tail(m))
  BY <1>1, <1>2, <1>3, ReceiverActsRead, ReadStep
<1>4. CASE /\ receiver.in_data /\ Next1.kind \in {"Data", "Info"}
           /\ ReceiverNow(OnPacket(receiver, Next1), Tail(m))
  BY <1>1, <1>2, <1>4, OnPacketRead, ReadStep
<1>5. CASE /\ receiver.in_data /\ Next1.kind = "Spoiled"
           /\ ReceiverNow(OnBadPacket(receiver), Tail(m))
  BY <1>1, <1>2, <1>5, BadPacketCalm, StepsOver, ReadStep
<1>6. QED BY <1>3, <1>4, <1>5 DEF ReceiverReads

\* What the search for an ending ran over.
LEMMA ReceiverMisreadsStep ==
  ASSUME IInv, ReceiverMisreads
  PROVE  IInv' /\ Progress(receiver, receiver')
<1> DEFINE q == OnBadPacket(receiver)
           m == to_receiver
<1>1. m # <<>> /\ EnvironmentOK'
  BY Now DEF ReceiverMisreads, environment, EnvironmentOK
<1>2. Calm(receiver, q) /\ ~ q.in_data BY Now, BadPacketCalm
<1> HIDE DEF q
<1>3. CASE ReceiverNow(q, m) BY <1>1, <1>2, <1>3, CalmStep
<1>4. CASE ReceiverNow(q, Tail(m))
  <2>1. Read(sender, receiver, q, m) BY <1>1, <1>2, Now, StepsOver
  <2>2. QED BY <1>1, <1>4, <2>1, ReadStep
<1>5. ReceiverNow(q, m) \/ ReceiverNow(q, Tail(m)) BY DEF ReceiverMisreads, q
<1>6. QED BY <1>3, <1>4, <1>5

\* The other steps of the receiver.
LEMMA ReceiverOtherStep ==
  ASSUME IInv, ReceiverTimesOut \/ ReceiverCancels \/ ReceiverCancelled
  PROVE  IInv' /\ Progress(receiver, receiver')
<1>1. EnvironmentOK'
  BY Now DEF ReceiverTimesOut, ReceiverCancels, ReceiverCancelled, environment,
             EnvironmentOK
<1>2. /\ Calm(receiver, ReceiverRepeats(receiver)) /\ Calm(receiver, Cancel(receiver))
      /\ Calm(receiver, Fail(receiver))
  BY Now, ReceiverWaits, ReceiverGivesUp
<1>3. \/ ReceiverNow(ReceiverRepeats(receiver), to_receiver)
      \/ ReceiverNow(Cancel(receiver), to_receiver)
      \/ ReceiverNow(Fail(receiver), to_receiver)
  BY DEF ReceiverTimesOut, ReceiverCancels, ReceiverCancelled
<1>4. QED BY <1>1, <1>2, <1>3, CalmStep

\* A response interval at both ends.
LEMMA SilenceStep ==
  ASSUME IInv, Silence
  PROVE  IInv' /\ Progress(receiver, receiver')
<1> DEFINE s == Waited(sender, SenderRepeats(sender, Space))
           q == Waited(receiver, ReceiverRepeats(receiver))
<1>1. Kept(s, receiver, to_receiver) BY Now, SpaceType, SenderWaits
<1>2. Calm(receiver, q) BY Now, ReceiverWaits
<1>3. /\ sender' = Taken(s) /\ to_receiver' = to_receiver \o s.out
      /\ receiver' = Taken(q) /\ to_sender' = to_sender \o q.out
      /\ EnvironmentOK'
  BY Now DEF Silence, environment, EnvironmentOK
<1> HIDE DEF s, q
<1>4. Kept(s, q, to_receiver) /\ Progress(receiver, q) BY <1>1, <1>2, Calmly DEF Kept
<1>5. q \in Receiver BY <1>2 DEF Calm
<1>6. to_sender' \in Seq(Piece)
  BY <1>3, <1>5, Now, ReceiverFields, ConcatProperties
<1>7. QED BY <1>3, <1>4, <1>5, <1>6, Now, Step

\* Every step keeps the invariant, and is one of FileTransfer or none.
LEMMA NextStep ==
  ASSUME IInv, [Next]_vars
  PROVE  IInv' /\ Progress(receiver, receiver')
<1>1. CASE UNCHANGED vars
  BY <1>1 DEF vars, IInv, TypeOK, Progress
<1>2. CASE Next
  BY <1>2, DamageStep, SenderHearsStep, SenderOtherStep, ReceiverReadsStep,
     ReceiverMisreadsStep, ReceiverOtherStep, SilenceStep DEF Next
<1>3. QED BY <1>1, <1>2

\* Two ends that have just been made, and what each says first.
LEMMA InitHolds == Init => IInv
<1>1. SUFFICES ASSUME Init PROVE IInv OBVIOUS
<1>2. /\ Say("ZRQINIT") \in Piece /\ Say("ZRQINIT").kind = "ZRQINIT"
      /\ Say("ZRINIT") \in Piece
  BY PieceTypes DEF Say, Plain
<1>3. /\ 0 \in Position /\ 0 \in 0 .. Patience /\ <<>> \in Seq(Position)
      /\ <<>> \in Seq(Seq(Position)) /\ <<>> \in Seq(Piece)
  BY ZmodemParams DEF Position
<1> DEFINE new == [state |-> "Greeting", at |-> 0, overlap |-> FALSE, holding |-> FALSE,
                   owe_header |-> FALSE, frame_open |-> FALSE, waited |-> 0, out |-> <<>>]
           fresh == [state |-> "Greeting", named |-> FALSE, data |-> <<>>, arrived |-> <<>>,
                     in_data |-> FALSE, asked_at |-> NotAsked, complete |-> FALSE,
                     waited |-> 0, out |-> <<>>]
<1>4. new \in Sender /\ new.state = "Greeting" /\ new.out = <<>>
  BY <1>3 DEF Sender, State
<1>5. /\ fresh \in Receiver /\ fresh.data = <<>> /\ fresh.arrived = <<>>
      /\ ~ fresh.in_data /\ fresh.out = <<>>
  BY <1>3 DEF Receiver, State
<1>6. NewSender = Greet(new) /\ NewReceiver = Announce(fresh)
  BY DEF NewSender, NewReceiver
<1> HIDE DEF new, fresh
<1>7. Good(new, fresh, <<>>)
  BY <1>4, <1>5 DEF Good, Chain, HeadFits, LastLeads, Once, Beginning, Has, Unheaded
<1>8. Kept(new, fresh, <<>>)
  <2>1. <<>> \o <<>> = <<>> BY <1>3, ConcatEmptySeq
  <2>2. QED BY <1>4, <1>7, <2>1 DEF Kept
<1>9. Kept(NewSender, fresh, <<>>) BY <1>3, <1>4, <1>6, <1>8, GreetKept DEF Offered
<1>10. Calm(fresh, NewReceiver) BY <1>5, <1>6, AnnounceCalm
<1>11. Kept(NewSender, NewReceiver, <<>>) /\ NewReceiver \in Receiver
  BY <1>9, <1>10, Calmly DEF Kept, Calm
<1>12. NewSender.out \in Seq(Piece) /\ NewReceiver.out \in Seq(Piece)
  BY <1>11, SenderFields, ReceiverFields DEF Kept
<1>13. <<>> \o NewSender.out = NewSender.out BY <1>12, ConcatEmptySeq
<1>14. Good(NewSender, NewReceiver, NewSender.out) /\ NewSender \in Sender
  BY <1>11, <1>13 DEF Kept
<1>15. /\ Taken(NewSender) \in Sender /\ Taken(NewSender).out = <<>>
       /\ Taken(NewReceiver) \in Receiver /\ Taken(NewReceiver).out = <<>>
       /\ Calm(NewReceiver, Taken(NewReceiver))
       /\ Taken(NewSender).state = NewSender.state /\ Taken(NewSender).at = NewSender.at
       /\ Taken(NewSender).owe_header = NewSender.owe_header
  BY <1>11, <1>14, TakenTypes DEF Calm
<1>16. Good(Taken(NewSender), NewReceiver, NewSender.out)
  BY <1>14, <1>15, Silently DEF Offered, Unheaded
<1>17. Good(Taken(NewSender), Taken(NewReceiver), NewSender.out)
  BY <1>15, <1>16, Calmly
<1>18. QED BY <1>1, <1>12, <1>15, <1>17 DEF Init, IInv, TypeOK

-----------------------------------------------------------------------------
\* The inductive invariant: at all times, a receiver that is in a frame is at
\* its place in the file, and so is a sender that owes no header.
THEOREM Inductive == Spec => []IInv
<1>1. IInv /\ [Next]_vars => IInv' BY NextStep
<1>2. QED BY <1>1, InitHolds, PTL DEF Spec

\* Every reachable state of a session is typed: no position is past the end
\* of the file, however the two ends' timers and the line play on them.
THEOREM Typed == Spec => []TypeOK
<1>1. IInv => TypeOK BY DEF IInv
<1>2. QED BY <1>1, Inductive, PTL

\* Whatever is damaged, and whenever the timers fire, the receiver holds a
\* beginning of the file, and hands the file up whole, and once.
THEOREM Implements == Spec => TransferSpec
<1>1. Init => Transfer!Init
  BY DEF Init, Transfer!Init, NewReceiver, Announce, Out, Taken
<1>2. IInv /\ [Next]_vars => [Transfer!Next]_Transfer!vars
  <2>1. SUFFICES ASSUME IInv, [Next]_vars PROVE [Transfer!Next]_Transfer!vars OBVIOUS
  <2>2. Progress(receiver, receiver') BY <2>1, NextStep
  <2>3. QED
    BY <2>2 DEF Progress, Transfer!Next, Transfer!vars, Transfer!Extend,
                Transfer!StartOver, Transfer!Keep
<1>3. QED BY <1>1, <1>2, Inductive, PTL DEF Spec, TransferSpec, Transfer!Spec

=============================================================================
