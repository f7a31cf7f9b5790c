----------------------------- MODULE LinkProofs -----------------------------
(***************************************************************************)
(* What the two users of a link see, for every Modulus, K, N400 and any    *)
(* losses, early timers and releases: with go-back-N, as long as every     *)
(* stream decodes, the two entities implement ReliableLink and no          *)
(* acknowledgement retires a chunk that did not arrive.                    *)
(***************************************************************************)
EXTENDS MCLapm, LapmProofs, Induction

-----------------------------------------------------------------------------
(* What the user has been given.                                           *)

\* f[n] is what the first n events give.
Gives(f, events) ==
  /\ f \in [0 .. Len(events) -> Seq(Info)] /\ f[0] = <<>>
  /\ \A n \in 1 .. Len(events) :
       f[n] = IF events[n].type = "Data" THEN Append(f[n - 1], events[n].info) ELSE f[n - 1]

\* An event of data carries a chunk.
LEMMA DataInfo ==
  ASSUME NEW event \in Event, event.type = "Data"
  PROVE  event.info \in Info
BY DEF Event

\* Given goes through the events one after another.
LEMMA GivenBuilt ==
  ASSUME NEW events \in Seq(Event)
  PROVE  \E f : Gives(f, events) /\ Given(events) = f[Len(events)]
<1>. DEFINE N == Len(events)
            next(f, n) == IF events[n].type = "Data" THEN Append(f[n - 1], events[n].info)
                                                     ELSE f[n - 1]
            body(f) == [n \in 0 .. N |->
                          IF n = 0 THEN <<>>
                          ELSE IF events[n].type = "Data" THEN Append(f[n - 1], events[n].info)
                          ELSE f[n - 1]]
            step == [p \in (1 .. N) \X Seq(Info) |->
                       IF events[p[1]].type = "Data" THEN Append(p[2], events[p[1]].info) ELSE p[2]]
            Part == CHOOSE f : f = body(f)
<1>1. N \in Nat /\ <<>> \in Seq(Info)
  BY LenProperties
<1>2. step \in [(1 .. N) \X Seq(Info) -> Seq(Info)]
  <2>1. ASSUME NEW p \in (1 .. N) \X Seq(Info), events[p[1]].type = "Data"
        PROVE  Append(p[2], events[p[1]].info) \in Seq(Info)
    <3>1. p[1] \in 1 .. N /\ p[2] \in Seq(Info)
      OBVIOUS
    <3>2. events[p[1]].info \in Info
      BY <2>1, <3>1, ElementOfSeq, DataInfo
    <3>. QED
      BY <3>1, <3>2
  <2>2. \A p \in (1 .. N) \X Seq(Info) : p[2] \in Seq(Info)
    OBVIOUS
  <2>. QED
    BY <2>1, <2>2
<1>. HIDE DEF N
<1>3. PICK f : Iterates(f, N, Seq(Info), <<>>, step)
  <2>. HIDE DEF step
  <2>. QED
    BY <1>1, <1>2, Iterate
<1>4. ASSUME NEW n \in 1 .. N PROVE f[n] = next(f, n)
  <2>1. n - 1 \in 0 .. N
    BY <1>1
  <2>2. f[n - 1] \in Seq(Info)
    BY <1>3, <2>1 DEF Iterates
  <2>3. <<n, f[n - 1]>> \in (1 .. N) \X Seq(Info)
    BY <2>2
  <2>4. f[n] = step[<<n, f[n - 1]>>]
    BY <1>3 DEF Iterates
  <2>. QED
    BY <2>3, <2>4
<1>. HIDE DEF step
<1>5. f \in [0 .. N -> Seq(Info)] /\ f[0] = <<>>
  BY <1>3 DEF Iterates
<1>6. f = body(f)
  <2>1. f = [n \in 0 .. N |-> f[n]]
    BY <1>5
  <2>2. ASSUME NEW n \in 0 .. N, n # 0 PROVE n \in 1 .. N
    BY <1>1, <2>2
  <2>. QED
    BY <1>5, <2>1, <2>2, <1>4
<1>. HIDE DEF body
<1>7. Part = body(Part)
  BY <1>6
<1>. HIDE DEF Part
<1>8. DOMAIN Part = 0 .. N /\ Part[0] = <<>>
  BY <1>1, <1>7 DEF body
<1>9. ASSUME NEW n \in 0 .. N - 1
      PROVE  /\ n + 1 \in 1 .. N /\ n \in 0 .. N /\ n + 1 \in 0 .. N
             /\ Part[n + 1] = next(Part, n + 1) /\ f[n + 1] = next(f, n + 1) /\ (n + 1) - 1 = n
  <2>1. n + 1 \in 1 .. N /\ n + 1 \in 0 .. N /\ n + 1 # 0 /\ (n + 1) - 1 = n /\ n \in 0 .. N
    BY <1>1
  <2>. QED
    BY <1>4, <1>7, <2>1 DEF body
<1>. DEFINE T == {n \in 0 .. N : Part[n] = f[n]}
<1>10. 0 \in T
  BY <1>1, <1>5, <1>8
<1>11. ASSUME NEW n \in 0 .. N - 1, n \in T PROVE n + 1 \in T
  BY <1>9, <1>11
<1>. HIDE DEF T
<1>12. \A n \in 0 .. N : n \in T
  BY <1>1, <1>10, <1>11, UpTo
<1>13. Given(events) = Part[N]
  BY DEF Given, Part, body, N
<1>14. Given(events) = f[N]
  BY <1>1, <1>12, <1>13 DEF T
<1>15. Gives(f, events)
  BY <1>4, <1>5 DEF Gives, N
<1>. QED
  BY <1>14, <1>15 DEF N

\* The user is given chunks, and nothing at first.
LEMMA GivenType ==
  ASSUME NEW events \in Seq(Event)
  PROVE  Given(events) \in Seq(Info)
<1>1. PICK f : Gives(f, events) /\ Given(events) = f[Len(events)]
  BY GivenBuilt
<1>2. Len(events) \in 0 .. Len(events)
  BY LenProperties
<1>. QED
  BY <1>1, <1>2 DEF Gives

\* Of no events the user has nothing.
LEMMA GivenNone == Given(<<>>) = <<>>
<1>1. <<>> \in Seq(Event) /\ Len(<<>>) = 0
  OBVIOUS
<1>2. PICK f : Gives(f, <<>>) /\ Given(<<>>) = f[Len(<<>>)]
  BY <1>1, GivenBuilt
<1>. QED
  BY <1>1, <1>2 DEF Gives

\* One more event gives one more chunk, or none.
LEMMA GivenAppend ==
  ASSUME NEW events \in Seq(Event), NEW event \in Event
  PROVE  Given(Append(events, event)) =
           IF event.type = "Data" THEN Append(Given(events), event.info) ELSE Given(events)
<1>. DEFINE more == Append(events, event)
            N == Len(events)
<1>1. /\ more \in Seq(Event) /\ Len(more) = N + 1 /\ N \in Nat
      /\ \A n \in 1 .. N : more[n] = events[n]
      /\ more[N + 1] = event
  BY AppendProperties, LenProperties
<1>2. PICK f : Gives(f, events) /\ Given(events) = f[N]
  BY GivenBuilt
<1>. HIDE DEF more
<1>3. PICK g : Gives(g, more) /\ Given(more) = g[Len(more)]
  BY <1>1, GivenBuilt
<1>. DEFINE T == {n \in 0 .. N : f[n] = g[n]}
<1>. HIDE DEF N
<1>4. 0 \in T
  BY <1>1, <1>2, <1>3 DEF Gives
<1>5. ASSUME NEW n \in 0 .. N - 1, n \in T PROVE n + 1 \in T
  <2>1. n + 1 \in 1 .. N /\ n + 1 \in 1 .. Len(more) /\ n + 1 \in 0 .. N /\ (n + 1) - 1 = n
    BY <1>1
  <2>2. more[n + 1] = events[n + 1]
    BY <1>1, <2>1
  <2>3. f[n + 1] = IF events[n + 1].type = "Data" THEN Append(f[n], events[n + 1].info) ELSE f[n]
    BY <1>2, <2>1 DEF Gives, N
  <2>4. g[n + 1] = IF more[n + 1].type = "Data" THEN Append(g[n], more[n + 1].info) ELSE g[n]
    BY <1>3, <2>1 DEF Gives
  <2>. QED
    BY <1>5, <2>1, <2>2, <2>3, <2>4
<1>. HIDE DEF T
<1>6. \A n \in 0 .. N : n \in T
  BY <1>1, <1>4, <1>5, UpTo
<1>7. f[N] = g[N]
  BY <1>1, <1>6 DEF T
<1>8. g[N + 1] = IF event.type = "Data" THEN Append(g[N], event.info) ELSE g[N]
  <2>1. N + 1 \in 1 .. Len(more) /\ (N + 1) - 1 = N
    BY <1>1
  <2>. QED
    BY <1>1, <1>3, <2>1 DEF Gives
<1>. QED
  BY <1>1, <1>2, <1>3, <1>7, <1>8 DEF more


-----------------------------------------------------------------------------
(* More arithmetic modulo Modulus.                                         *)

\* One step and then another is both at once.
LEMMA PlusPlus ==
  ASSUME NEW n \in SeqNo, NEW i \in Nat, NEW j \in Nat, i + j <= Modulus
  PROVE  Plus(Plus(n, i), j) = Plus(n, i + j)
BY LapmParams DEF Plus, SeqNo

\* Within one turn a step is known by where it leads.
LEMMA PlusOne ==
  ASSUME NEW n \in SeqNo, NEW i \in 0 .. Modulus - 1, NEW j \in 0 .. Modulus - 1,
         Plus(n, i) = Plus(n, j)
  PROVE  i = j
BY LapmParams DEF Plus, SeqNo

\* Plus and Ahead are each other's inverse within one turn.
LEMMA PlusAhead ==
  ASSUME NEW a \in SeqNo, NEW b \in SeqNo
  PROVE  Plus(a, Ahead(a, b)) = b
BY LapmParams DEF Plus, Ahead, SeqNo

\* So are Ahead and Plus.
LEMMA AheadOfPlus ==
  ASSUME NEW a \in SeqNo, NEW i \in 0 .. Modulus - 1
  PROVE  Ahead(a, Plus(a, i)) = i
BY LapmParams DEF Plus, Ahead, SeqNo

-----------------------------------------------------------------------------
(* One direction of the link: a sender that has numbered the chunks up to  *)
(* s and keeps those past g for retransmission, from V(A) = va on; the     *)
(* frames q it has on their way; and a receiver whose newest chunk is n    *)
(* and that expects V(R) = vr.                                             *)

IsI(f) == f.type = "I"

\* The number of a frame that may still be sent again is that of the buffer.
Fits(s, g, va, f) == f.info <= s /\ (f.info > g => f.ns = Plus(va, f.info - g - 1))

\* A frame that is older than what the receiver has is less than a window behind.
Old(n, vr, f) == f.info <= n => n - f.info < K /\ vr = Plus(f.ns, n - f.info + 1)

\* So is a frame that is older than one in front of it.
Behind(f, h) == h.info <= f.info => f.info - h.info < K /\ f.ns = Plus(h.ns, f.info - h.info)

\* What is on its way fits the sender's buffer and the receiver's V(R).
Order(s, g, va, q, n, vr) ==
  /\ n <= s /\ (n > g => vr = Plus(va, n - g)) /\ (n = 0 => vr = 0)
  /\ \A i \in 1 .. Len(q) : IsI(q[i]) =>
       /\ Fits(s, g, va, q[i]) /\ Old(n, vr, q[i])
       /\ \A j \in 1 .. Len(q) : i < j /\ IsI(q[j]) => Behind(q[i], q[j])

\* The types and the window of a direction.
Sized(s, g, va, q, n, vr) ==
  /\ s \in Nat /\ g \in Nat /\ n \in Nat /\ va \in SeqNo /\ vr \in SeqNo
  /\ g <= s /\ s - g <= K /\ q \in Seq(Frame)

\* The frames of a queue.
LEMMA QueueFields ==
  ASSUME NEW q \in Seq(Frame)
  PROVE  /\ Len(q) \in Nat
         /\ \A i \in 1 .. Len(q) :
              q[i] \in Frame /\ (IsI(q[i]) => q[i].ns \in SeqNo /\ q[i].info \in Nat /\ q[i].info > 0)
<1>1. Len(q) \in Nat
  BY LenProperties
<1>2. ASSUME NEW i \in 1 .. Len(q)
      PROVE  q[i] \in Frame /\ (IsI(q[i]) => q[i].ns \in SeqNo /\ q[i].info \in Nat /\ q[i].info > 0)
  <2>1. q[i] \in Frame
    BY ElementOfSeq
  <2>2. IsI(q[i]) => q[i].ns \in SeqNo /\ q[i].info \in Info
    BY <2>1, FrameFields DEF IsI
  <2>. QED
    BY <2>1, <2>2 DEF Info
<1>. QED
  BY <1>1, <1>2

\* The sender's variables move: it numbers more, retires some, or drops all.
Moves(s, g, va, s2, g2, va2) ==
  /\ s2 \in Nat /\ g2 \in Nat /\ va2 \in SeqNo /\ s <= s2 /\ g2 <= s2
  /\ \/ g2 = s2
     \/ g <= g2 /\ g2 <= s /\ va2 = Plus(va, g2 - g)

\* That keeps the order.
LEMMA OrderMoves ==
  ASSUME NEW s, NEW g, NEW va, NEW q, NEW n, NEW vr, Sized(s, g, va, q, n, vr),
         NEW s2, NEW g2, NEW va2, Moves(s, g, va, s2, g2, va2),
         Order(s, g, va, q, n, vr)
  PROVE  Order(s2, g2, va2, q, n, vr)
<1>1. /\ s \in Nat /\ g \in Nat /\ n \in Nat /\ va \in SeqNo /\ vr \in SeqNo
      /\ s2 \in Nat /\ g2 \in Nat /\ s <= s2 /\ g <= s /\ s - g <= K /\ q \in Seq(Frame)
      /\ K \in Nat /\ K < Modulus /\ Modulus \in Nat
  BY LapmParams DEF Sized, Moves
<1>2. ASSUME NEW x \in Nat, x <= s, x > g2, g2 # s2
      PROVE  x > g /\ Plus(va2, x - g2 - 1) = Plus(va, x - g - 1) /\ Plus(va2, x - g2) = Plus(va, x - g)
  <2>1. g <= g2 /\ g2 <= s /\ va2 = Plus(va, g2 - g)
    BY <1>2 DEF Moves
  <2>2. /\ g2 - g \in Nat /\ x - g2 - 1 \in Nat /\ x - g2 \in Nat
        /\ (g2 - g) + (x - g2 - 1) = x - g - 1 /\ x - g - 1 <= Modulus
        /\ (g2 - g) + (x - g2) = x - g /\ x - g <= Modulus /\ x > g
    BY <1>1, <1>2, <2>1
  <2>3. Plus(Plus(va, g2 - g), x - g2 - 1) = Plus(va, (g2 - g) + (x - g2 - 1))
    BY <1>1, <2>2, PlusPlus
  <2>4. Plus(Plus(va, g2 - g), x - g2) = Plus(va, (g2 - g) + (x - g2))
    BY <1>1, <2>2, PlusPlus
  <2>. QED
    BY <2>1, <2>2, <2>3, <2>4
<1>3. n <= s2 /\ (n > g2 => vr = Plus(va2, n - g2))
  <2>1. n <= s /\ (n > g => vr = Plus(va, n - g))
    BY DEF Order
  <2>2. CASE g2 = s2
    BY <1>1, <2>1, <2>2
  <2>3. CASE g2 # s2
    BY <1>1, <1>2, <2>1, <2>3, SMTT(20)
  <2>. QED
    BY <2>2, <2>3
<1>4. ASSUME NEW i \in 1 .. Len(q), IsI(q[i]) PROVE Fits(s2, g2, va2, q[i])
  <2>1. q[i].info \in Nat
    BY <1>1, <1>4, QueueFields
  <2>2. q[i].info <= s /\ (q[i].info > g => q[i].ns = Plus(va, q[i].info - g - 1))
    BY <1>4 DEF Order, Fits
  <2>3. CASE g2 = s2
    BY <1>1, <2>1, <2>2, <2>3 DEF Fits
  <2>4. CASE g2 # s2
    <3>1. ASSUME q[i].info > g2 PROVE q[i].ns = Plus(va2, q[i].info - g2 - 1)
      <4>1. q[i].info > g /\ Plus(va2, q[i].info - g2 - 1) = Plus(va, q[i].info - g - 1)
        BY <1>2, <2>1, <2>2, <2>4, <3>1
      <4>. QED
        BY <2>2, <4>1
    <3>2. q[i].info <= s2
      BY <1>1, <2>1, <2>2
    <3>. QED
      BY <3>1, <3>2 DEF Fits
  <2>. QED
    BY <2>3, <2>4
<1>. QED
  BY <1>3, <1>4 DEF Order

\* A frame of the buffer, as it stands.
Current(s, g, va, f) == f.info > g /\ f.info <= s /\ f.ns = Plus(va, f.info - g - 1)

\* Frames of the buffer may follow whatever is on its way.
LEMMA OrderSays ==
  ASSUME NEW s, NEW g, NEW va, NEW q, NEW n, NEW vr, Sized(s, g, va, q, n, vr),
         NEW ext \in Seq(Frame), \A i \in 1 .. Len(ext) : IsI(ext[i]) => Current(s, g, va, ext[i]),
         Order(s, g, va, q, n, vr)
  PROVE  Order(s, g, va, q \o ext, n, vr)
<1>. DEFINE r == q \o ext
<1>1. /\ s \in Nat /\ g \in Nat /\ n \in Nat /\ va \in SeqNo /\ vr \in SeqNo
      /\ g <= s /\ s - g <= K /\ q \in Seq(Frame)
      /\ K \in Nat /\ K < Modulus /\ Modulus \in Nat
  BY LapmParams DEF Sized
<1>2. /\ r \in Seq(Frame) /\ Len(r) = Len(q) + Len(ext) /\ Len(q) \in Nat /\ Len(ext) \in Nat
      /\ \A i \in 1 .. Len(r) : r[i] = IF i <= Len(q) THEN q[i] ELSE ext[i - Len(q)]
  BY <1>1, ConcatProperties, LenProperties
<1>. HIDE DEF r
<1>3. ASSUME NEW i \in 1 .. Len(r)
      PROVE  \/ i \in 1 .. Len(q) /\ r[i] = q[i]
             \/ i > Len(q) /\ (IsI(r[i]) => Current(s, g, va, r[i]))
  BY <1>2
<1>4. ASSUME NEW i \in 1 .. Len(r), IsI(r[i]) PROVE Fits(s, g, va, r[i])
  BY <1>3, <1>4 DEF Order, Fits, Current
<1>5. ASSUME NEW i \in 1 .. Len(r), IsI(r[i]) PROVE Old(n, vr, r[i])
  <2>1. CASE i \in 1 .. Len(q) /\ r[i] = q[i]
    BY <1>5, <2>1 DEF Order
  <2>2. CASE Current(s, g, va, r[i])
    <3>1. r[i].info \in Nat /\ r[i].ns \in SeqNo
      BY <1>2, <1>5, QueueFields
    <3>2. SUFFICES ASSUME r[i].info <= n PROVE n - r[i].info < K /\ vr = Plus(r[i].ns, n - r[i].info + 1)
      BY DEF Old
    <3>3. n > g /\ vr = Plus(va, n - g) /\ n <= s /\ r[i].info > g /\ r[i].ns = Plus(va, r[i].info - g - 1)
      BY <1>1, <2>2, <3>1, <3>2 DEF Order, Current
    <3>4. /\ n - r[i].info + 1 \in Nat /\ r[i].info - g - 1 \in Nat
          /\ (r[i].info - g - 1) + (n - r[i].info + 1) = n - g /\ n - g <= Modulus
          /\ n - r[i].info < K
      <4>. DEFINE x == r[i].info
      <4>1. x \in Nat /\ x <= n /\ x > g /\ n <= s
        BY <3>1, <3>2, <3>3
      <4>. HIDE DEF x
      <4>2. /\ n - x + 1 \in Nat /\ x - g - 1 \in Nat
            /\ (x - g - 1) + (n - x + 1) = n - g /\ n - g <= Modulus /\ n - x < K
        BY <1>1, <4>1
      <4>. QED
        BY <4>2 DEF x
    <3>5. Plus(Plus(va, r[i].info - g - 1), n - r[i].info + 1)
            = Plus(va, (r[i].info - g - 1) + (n - r[i].info + 1))
      BY <1>1, <3>4, PlusPlus
    <3>. QED
      BY <3>3, <3>4, <3>5
  <2>. QED
    BY <1>3, <1>5, <2>1, <2>2
<1>6. ASSUME NEW i \in 1 .. Len(r), NEW j \in 1 .. Len(r), i < j, IsI(r[i]), IsI(r[j])
      PROVE  Behind(r[i], r[j])
  <2>1. CASE j \in 1 .. Len(q) /\ r[j] = q[j]
    <3>1. i \in 1 .. Len(q) /\ r[i] = q[i]
      BY <1>2, <1>6, <2>1
    <3>. QED
      BY <1>6, <2>1, <3>1 DEF Order
  <2>2. CASE Current(s, g, va, r[j])
    <3>1. r[i].info \in Nat /\ r[j].info \in Nat
      BY <1>2, <1>6, QueueFields
    <3>2. SUFFICES ASSUME r[j].info <= r[i].info
                   PROVE r[i].info - r[j].info < K /\ r[i].ns = Plus(r[j].ns, r[i].info - r[j].info)
      BY DEF Behind
    <3>3. g < r[j].info /\ r[j].ns = Plus(va, r[j].info - g - 1)
      BY <2>2 DEF Current
    <3>4. Fits(s, g, va, r[i])
      BY <1>4, <1>6
    <3>5. r[i].info > g
      BY <1>1, <3>1, <3>2, <3>3
    <3>6. r[i].info <= s /\ r[i].ns = Plus(va, r[i].info - g - 1)
      BY <3>4, <3>5 DEF Fits
    <3>. DEFINE a == r[i].info
                b == r[j].info
                x == r[i].ns
                y == r[j].ns
    <3>7. /\ a \in Nat /\ b \in Nat /\ g < b /\ b <= a /\ a <= s
          /\ x = Plus(va, a - g - 1) /\ y = Plus(va, b - g - 1)
      BY <3>1, <3>2, <3>3, <3>6
    <3>. HIDE DEF a, b, x, y
    <3>8. a - b < K /\ Plus(va, a - g - 1) = Plus(Plus(va, b - g - 1), a - b)
      <4>1. /\ a - b \in Nat /\ b - g - 1 \in Nat /\ (b - g - 1) + (a - b) = a - g - 1
            /\ a - g - 1 <= Modulus /\ a - b < K
        BY <1>1, <3>7
      <4>2. Plus(Plus(va, b - g - 1), a - b) = Plus(va, (b - g - 1) + (a - b))
        BY <1>1, <4>1, PlusPlus
      <4>. QED
        BY <4>1, <4>2
    <3>. QED
      BY <3>7, <3>8 DEF a, b, x, y
  <2>. QED
    BY <1>3, <1>6, <2>1, <2>2
<1>7. n <= s /\ (n > g => vr = Plus(va, n - g)) /\ (n = 0 => vr = 0)
  BY DEF Order
<1>. QED
  BY <1>4, <1>5, <1>6, <1>7 DEF Order, r

\* What is left when the frame in front is gone.
LEMMA TailOf ==
  ASSUME NEW q \in Seq(Frame), q # <<>>
  PROVE  /\ Tail(q) \in Seq(Frame) /\ Len(Tail(q)) = Len(q) - 1 /\ Len(Tail(q)) \in Nat
         /\ Head(q) = q[1] /\ 1 \in 1 .. Len(q) /\ Head(q) \in Frame
         /\ \A i \in 1 .. Len(Tail(q)) : Tail(q)[i] = q[i + 1] /\ i + 1 \in 1 .. Len(q)
<1>1. /\ Tail(q) \in Seq(Frame) /\ Len(Tail(q)) = Len(q) - 1 /\ Head(q) \in Frame
      /\ \A i \in 1 .. Len(Tail(q)) : Tail(q)[i] = q[i + 1]
  BY HeadTailProperties
<1>2. Len(q) \in Nat /\ Len(q) # 0
  BY EmptySeq, LenProperties
<1>. QED
  BY <1>1, <1>2

\* Losing or passing over a frame keeps the order of the others.
LEMMA OrderTail ==
  ASSUME NEW s, NEW g, NEW va, NEW q \in Seq(Frame), NEW n, NEW vr,
         q # <<>>, Order(s, g, va, q, n, vr)
  PROVE  Order(s, g, va, Tail(q), n, vr)
<1>1. /\ Len(q) \in Nat /\ Len(Tail(q)) \in Nat
      /\ \A i \in 1 .. Len(Tail(q)) : Tail(q)[i] = q[i + 1] /\ i + 1 \in 1 .. Len(q)
  BY TailOf, LenProperties
<1>2. ASSUME NEW i \in 1 .. Len(Tail(q)), IsI(Tail(q)[i])
      PROVE  /\ Fits(s, g, va, Tail(q)[i]) /\ Old(n, vr, Tail(q)[i])
             /\ \A j \in 1 .. Len(Tail(q)) : i < j /\ IsI(Tail(q)[j]) => Behind(Tail(q)[i], Tail(q)[j])
  <2>1. \A j \in 1 .. Len(Tail(q)) : i < j => i + 1 < j + 1
    BY <1>1
  <2>. QED
    BY <1>1, <1>2, <2>1 DEF Order
<1>3. n <= s /\ (n > g => vr = Plus(va, n - g)) /\ (n = 0 => vr = 0)
  BY DEF Order
<1>. QED
  BY <1>2, <1>3 DEF Order

\* A frame that is taken is newer than all that was, and the order goes on
\* from it.
LEMMA OrderTakes ==
  ASSUME NEW s, NEW g, NEW va, NEW q, NEW n, NEW vr, Sized(s, g, va, q, n, vr),
         q # <<>>, IsI(Head(q)), Head(q).ns = vr, Order(s, g, va, q, n, vr)
  PROVE  /\ Head(q).info > n /\ Head(q).info <= s
         /\ Order(s, g, va, Tail(q), Head(q).info, Plus(vr, 1))
<1>. DEFINE f == Head(q)
<1>1. /\ s \in Nat /\ g \in Nat /\ n \in Nat /\ va \in SeqNo /\ vr \in SeqNo
      /\ g <= s /\ s - g <= K /\ q \in Seq(Frame)
      /\ K \in Nat /\ K < Modulus /\ Modulus \in Nat /\ 1 <= K
  BY LapmParams DEF Sized
<1>2. /\ Len(q) \in Nat /\ Len(Tail(q)) \in Nat /\ f = q[1] /\ 1 \in 1 .. Len(q)
      /\ \A i \in 1 .. Len(Tail(q)) : Tail(q)[i] = q[i + 1] /\ i + 1 \in 1 .. Len(q) /\ 1 < i + 1
  BY <1>1, TailOf, LenProperties
<1>3. IsI(q[1]) /\ q[1].ns = vr /\ q[1].info \in Nat /\ q[1].info > 0
  BY <1>1, <1>2, QueueFields
<1>. HIDE DEF f
<1>4. Fits(s, g, va, q[1]) /\ Old(n, vr, q[1])
  BY <1>2, <1>3 DEF Order
<1>5. q[1].info > n
  <2>1. SUFFICES ASSUME q[1].info <= n PROVE FALSE
    BY <1>1, <1>3
  <2>2. n - q[1].info < K /\ vr = Plus(vr, n - q[1].info + 1)
    BY <1>3, <1>4, <2>1 DEF Old
  <2>3. n - q[1].info + 1 \in 1 .. Modulus - 1
    BY <1>1, <1>3, <2>1, <2>2
  <2>. QED
    BY <1>1, <2>2, <2>3, SMTT(20) DEF Plus, SeqNo
<1>6. q[1].info <= s
  BY <1>4 DEF Fits
<1>7. q[1].info > g => Plus(vr, 1) = Plus(va, q[1].info - g)
  <2>1. SUFFICES ASSUME q[1].info > g PROVE Plus(vr, 1) = Plus(va, q[1].info - g)
    OBVIOUS
  <2>2. vr = Plus(va, q[1].info - g - 1)
    BY <1>3, <1>4, <2>1 DEF Fits
  <2>3. q[1].info - g - 1 \in Nat /\ (q[1].info - g - 1) + 1 = q[1].info - g /\ q[1].info - g <= Modulus
    BY <1>1, <1>3, <1>6, <2>1
  <2>4. Plus(Plus(va, q[1].info - g - 1), 1) = Plus(va, (q[1].info - g - 1) + 1)
    BY <1>1, <2>3, PlusPlus
  <2>. QED
    BY <2>2, <2>3, <2>4
<1>8. ASSUME NEW i \in 1 .. Len(Tail(q)), IsI(Tail(q)[i])
      PROVE  Fits(s, g, va, Tail(q)[i]) /\ Old(q[1].info, Plus(vr, 1), Tail(q)[i])
  <2>. DEFINE h == Tail(q)[i]
  <2>1. h = q[i + 1] /\ i + 1 \in 1 .. Len(q) /\ 1 < i + 1
    BY <1>2
  <2>2. IsI(q[i + 1])
    BY <1>8, <2>1
  <2>3. Fits(s, g, va, q[i + 1]) /\ Behind(q[1], q[i + 1])
    BY <1>2, <1>3, <2>1, <2>2 DEF Order
  <2>4. h.info \in Nat /\ h.ns \in SeqNo
    BY <1>1, <2>1, <2>2, QueueFields
  <2>. HIDE DEF h
  <2>5. ASSUME h.info <= q[1].info
        PROVE  q[1].info - h.info < K /\ Plus(vr, 1) = Plus(h.ns, q[1].info - h.info + 1)
    <3>1. q[1].info - h.info < K /\ vr = Plus(h.ns, q[1].info - h.info)
      BY <1>3, <2>1, <2>3, <2>5 DEF Behind
    <3>2. q[1].info - h.info \in Nat /\ q[1].info - h.info + 1 <= Modulus
      BY <1>1, <1>3, <2>4, <2>5, <3>1
    <3>3. Plus(Plus(h.ns, q[1].info - h.info), 1) = Plus(h.ns, q[1].info - h.info + 1)
      BY <2>4, <3>2, PlusPlus
    <3>. QED
      BY <3>1, <3>3
  <2>6. Old(q[1].info, Plus(vr, 1), h)
    BY <2>5 DEF Old
  <2>. QED
    BY <2>1, <2>3, <2>6 DEF h
<1>9. Order(s, g, va, Tail(q), n, vr)
  BY <1>1, OrderTail
<1>10. Order(s, g, va, Tail(q), q[1].info, Plus(vr, 1))
  BY <1>3, <1>6, <1>7, <1>8, <1>9 DEF Order
<1>. QED
  BY <1>2, <1>5, <1>6, <1>10 DEF f

-----------------------------------------------------------------------------
(* The way back: what the receiver has taken and what it acknowledges, as  *)
(* long as the sender has not been told of a release or a reset.  Nothing  *)
(* was skipped (g <= n), V(R) stands where the sender will count to, and   *)
(* the acknowledgements on their way never go beyond it or backwards.      *)

\* A frame whose N(R) acknowledges: an SREJ's does not.
Carries(f) == f.type \in {"I", "RR", "REJ"}

\* The acknowledgements on their way back: none beyond what was delivered,
\* none that goes backwards.
Tally(g, va, back, n, vr) ==
  /\ g <= n /\ vr = Plus(va, n - g)
  /\ \A i \in 1 .. Len(back) : Carries(back[i]) =>
       /\ Ahead(va, back[i].nr) <= n - g
       /\ \A j \in 1 .. Len(back) :
            i < j /\ Carries(back[j]) => Ahead(va, back[i].nr) <= Ahead(va, back[j].nr)

\* The distances are less than one turn.
Turn(g, va, back, n, vr) ==
  /\ g \in Nat /\ n \in Nat /\ va \in SeqNo /\ vr \in SeqNo /\ n - g < Modulus
  /\ back \in Seq(Frame)

\* An acknowledgement carries a sequence number.
LEMMA NrType ==
  ASSUME NEW q \in Seq(Frame), NEW i \in 1 .. Len(q), Carries(q[i])
  PROVE  q[i].nr \in SeqNo
<1>1. q[i] \in Frame
  BY ElementOfSeq
<1>. QED
  BY <1>1, FrameFields DEF Carries

\* An acknowledgement that is lost, or heard by an end that discards it.
LEMMA TallyTail ==
  ASSUME NEW g, NEW va, NEW back \in Seq(Frame), NEW n, NEW vr,
         back # <<>>, Tally(g, va, back, n, vr)
  PROVE  Tally(g, va, Tail(back), n, vr)
<1>1. /\ Len(back) \in Nat /\ Len(Tail(back)) \in Nat
      /\ \A i \in 1 .. Len(Tail(back)) : Tail(back)[i] = back[i + 1] /\ i + 1 \in 1 .. Len(back)
  BY TailOf, LenProperties
<1>2. ASSUME NEW i \in 1 .. Len(Tail(back)), Carries(Tail(back)[i])
      PROVE  /\ Ahead(va, Tail(back)[i].nr) <= n - g
             /\ \A j \in 1 .. Len(Tail(back)) :
                  i < j /\ Carries(Tail(back)[j]) => Ahead(va, Tail(back)[i].nr) <= Ahead(va, Tail(back)[j].nr)
  <2>1. \A j \in 1 .. Len(Tail(back)) : i < j => i + 1 < j + 1
    BY <1>1
  <2>. QED
    BY <1>1, <1>2, <2>1 DEF Tally
<1>3. g <= n /\ vr = Plus(va, n - g)
  BY DEF Tally
<1>. QED
  BY <1>2, <1>3 DEF Tally

\* What the receiver says carries V(R).
LEMMA TallySays ==
  ASSUME NEW g, NEW va, NEW back, NEW n, NEW vr, Turn(g, va, back, n, vr),
         NEW ext \in Seq(Frame), \A i \in 1 .. Len(ext) : Carries(ext[i]) => ext[i].nr = vr,
         Tally(g, va, back, n, vr)
  PROVE  Tally(g, va, back \o ext, n, vr)
<1>. DEFINE r == back \o ext
<1>1. /\ g \in Nat /\ n \in Nat /\ va \in SeqNo /\ n - g < Modulus /\ back \in Seq(Frame)
      /\ g <= n /\ vr = Plus(va, n - g)
  BY DEF Turn, Tally
<1>2. /\ r \in Seq(Frame) /\ Len(r) = Len(back) + Len(ext) /\ Len(back) \in Nat /\ Len(ext) \in Nat
      /\ \A i \in 1 .. Len(r) : r[i] = IF i <= Len(back) THEN back[i] ELSE ext[i - Len(back)]
  BY <1>1, ConcatProperties, LenProperties
<1>3. Ahead(va, vr) = n - g
  <2>1. n - g \in 0 .. Modulus - 1
    BY <1>1, LapmParams
  <2>. QED
    BY <1>1, <2>1, AheadOfPlus
<1>. HIDE DEF r
<1>4. ASSUME NEW i \in 1 .. Len(r)
      PROVE  \/ i \in 1 .. Len(back) /\ r[i] = back[i]
             \/ i > Len(back) /\ (Carries(r[i]) => r[i].nr = vr)
  <2>1. CASE i <= Len(back)
    BY <1>2, <2>1
  <2>2. CASE i > Len(back)
    <3>1. r[i] = ext[i - Len(back)] /\ i - Len(back) \in 1 .. Len(ext)
      BY <1>2, <2>2
    <3>. QED
      BY <2>2, <3>1
  <2>. QED
    BY <1>2, <2>1, <2>2
<1>5. ASSUME NEW i \in 1 .. Len(r), Carries(r[i]) PROVE Ahead(va, r[i].nr) <= n - g
  <2>1. CASE i \in 1 .. Len(back) /\ r[i] = back[i]
    BY <1>5, <2>1 DEF Tally
  <2>2. CASE r[i].nr = vr
    BY <1>1, <1>3, <2>2
  <2>. QED
    BY <1>4, <1>5, <2>1, <2>2
<1>6. ASSUME NEW i \in 1 .. Len(r), NEW j \in 1 .. Len(r), i < j, Carries(r[i]), Carries(r[j])
      PROVE  Ahead(va, r[i].nr) <= Ahead(va, r[j].nr)
  <2>1. CASE j \in 1 .. Len(back) /\ r[j] = back[j]
    <3>1. i \in 1 .. Len(back) /\ r[i] = back[i]
      BY <1>2, <1>6, <2>1
    <3>. QED
      BY <1>6, <2>1, <3>1 DEF Tally
  <2>2. CASE r[j].nr = vr
    BY <1>3, <1>5, <1>6, <2>2
  <2>. QED
    BY <1>4, <1>6, <2>1, <2>2
<1>. QED
  BY <1>1, <1>5, <1>6 DEF Tally, r

\* The sender retires what is acknowledged, and counts on from there.
LEMMA TallyAck ==
  ASSUME NEW g, NEW va, NEW back, NEW n, NEW vr, Turn(g, va, back, n, vr),
         back # <<>>, Carries(Head(back)), Tally(g, va, back, n, vr)
  PROVE  /\ Ahead(va, Head(back).nr) <= n - g
         /\ Tally(g + Ahead(va, Head(back).nr), Head(back).nr, Tail(back), n, vr)
<1>. DEFINE nr == Head(back).nr
            d == Ahead(va, nr)
            rest == Tail(back)
<1>1. /\ g \in Nat /\ n \in Nat /\ va \in SeqNo /\ vr \in SeqNo /\ n - g < Modulus
      /\ back \in Seq(Frame) /\ g <= n /\ vr = Plus(va, n - g) /\ Modulus \in Nat
  BY LapmParams DEF Turn, Tally
<1>2. /\ Len(back) \in Nat /\ Len(rest) \in Nat /\ 1 \in 1 .. Len(back) /\ Head(back) = back[1]
      /\ \A i \in 1 .. Len(rest) : rest[i] = back[i + 1] /\ i + 1 \in 1 .. Len(back) /\ 1 < i + 1
  BY <1>1, TailOf, LenProperties
<1>3. nr \in SeqNo /\ nr = back[1].nr /\ Carries(back[1])
  BY <1>1, <1>2, NrType
<1>4. d <= n - g
  BY <1>2, <1>3 DEF Tally
<1>5. d \in 0 .. Modulus - 1 /\ Plus(va, d) = nr
  BY <1>1, <1>3, AheadType, PlusAhead
<1>. HIDE DEF d, nr
<1>6. g + d <= n /\ vr = Plus(nr, n - (g + d))
  <2>1. /\ d \in Nat /\ n - (g + d) \in Nat /\ d + (n - (g + d)) = n - g
        /\ n - g <= Modulus /\ g + d <= n
    BY <1>1, <1>4, <1>5
  <2>2. Plus(Plus(va, d), n - (g + d)) = Plus(va, d + (n - (g + d)))
    BY <1>1, <2>1, PlusPlus
  <2>. QED
    BY <1>1, <1>5, <2>1, <2>2
<1>7. Tally(g, va, rest, n, vr)
  BY <1>1, TallyTail
<1>8. ASSUME NEW i \in 1 .. Len(rest), Carries(rest[i])
      PROVE  Ahead(nr, rest[i].nr) = Ahead(va, rest[i].nr) - d /\ Ahead(va, rest[i].nr) \in Nat
  <2>1. rest[i] = back[i + 1] /\ i + 1 \in 1 .. Len(back) /\ 1 < i + 1
    BY <1>2
  <2>2. Ahead(va, nr) <= Ahead(va, rest[i].nr)
    BY <1>2, <1>3, <1>8, <2>1 DEF Tally
  <2>3. rest[i].nr \in SeqNo
    BY <1>1, <1>8, <2>1, NrType
  <2>4. Ahead(nr, rest[i].nr) = Ahead(va, rest[i].nr) - Ahead(va, nr)
    BY <1>1, <1>3, <2>2, <2>3, AheadSplit
  <2>5. Ahead(va, rest[i].nr) \in Nat
    BY <1>1, <2>3, AheadType
  <2>. QED
    BY <2>4, <2>5 DEF d
<1>9. ASSUME NEW i \in 1 .. Len(rest), Carries(rest[i])
      PROVE  Ahead(nr, rest[i].nr) <= n - (g + d)
  <2>1. Ahead(va, rest[i].nr) <= n - g
    BY <1>7, <1>9 DEF Tally
  <2>. QED
    BY <1>1, <1>5, <1>8, <1>9, <2>1
<1>10. ASSUME NEW i \in 1 .. Len(rest), Carries(rest[i]),
              NEW j \in 1 .. Len(rest), i < j, Carries(rest[j])
       PROVE  Ahead(nr, rest[i].nr) <= Ahead(nr, rest[j].nr)
  <2>1. Ahead(va, rest[i].nr) <= Ahead(va, rest[j].nr)
    BY <1>7, <1>10 DEF Tally
  <2>2. /\ Ahead(nr, rest[i].nr) = Ahead(va, rest[i].nr) - d /\ Ahead(va, rest[i].nr) \in Nat
        /\ Ahead(nr, rest[j].nr) = Ahead(va, rest[j].nr) - d /\ Ahead(va, rest[j].nr) \in Nat
    BY <1>8, <1>10
  <2>. QED
    BY <1>5, <2>1, <2>2
<1>11. Tally(g + d, nr, rest, n, vr)
  BY <1>6, <1>9, <1>10 DEF Tally
<1>. QED
  BY <1>4, <1>11 DEF d, nr

\* The next chunk is taken.
LEMMA TallyTakes ==
  ASSUME NEW g, NEW va, NEW back, NEW n, NEW vr, Turn(g, va, back, n, vr),
         (n + 1) - g < Modulus, Tally(g, va, back, n, vr)
  PROVE  Tally(g, va, back, n + 1, Plus(vr, 1))
<1>1. /\ g \in Nat /\ n \in Nat /\ va \in SeqNo /\ n - g < Modulus /\ back \in Seq(Frame)
      /\ g <= n /\ vr = Plus(va, n - g) /\ Modulus \in Nat
  BY LapmParams DEF Turn, Tally
<1>2. Plus(Plus(va, n - g), 1) = Plus(va, (n + 1) - g)
  <2>1. n - g \in Nat /\ (n - g) + 1 = (n + 1) - g /\ (n - g) + 1 <= Modulus
    BY <1>1
  <2>2. Plus(Plus(va, n - g), 1) = Plus(va, (n - g) + 1)
    BY <1>1, <2>1, PlusPlus
  <2>. QED
    BY <2>1, <2>2
<1>3. ASSUME NEW i \in 1 .. Len(back), Carries(back[i])
      PROVE  Ahead(va, back[i].nr) <= (n + 1) - g
  <2>1. Ahead(va, back[i].nr) <= n - g
    BY <1>3 DEF Tally
  <2>2. Ahead(va, back[i].nr) \in 0 .. Modulus - 1
    BY <1>1, <1>3, NrType, AheadType
  <2>. QED
    BY <1>1, <2>1, <2>2
<1>4. g <= n + 1
  BY <1>1
<1>5. ASSUME NEW i \in 1 .. Len(back), Carries(back[i]),
             NEW j \in 1 .. Len(back), i < j, Carries(back[j])
      PROVE  Ahead(va, back[i].nr) <= Ahead(va, back[j].nr)
  BY <1>5 DEF Tally
<1>6. Plus(vr, 1) = Plus(va, (n + 1) - g)
  BY <1>1, <1>2
<1>. QED
  BY <1>3, <1>4, <1>5, <1>6 DEF Tally

-----------------------------------------------------------------------------
(* One way of the link between two entities: l sends, having been handed a *)
(* chunks, and its frames w are on the line; m receives, and its frames v  *)
(* are on the way back.  s: l has not been told of a release or a reset.   *)

\* How many chunks have been numbered, and how many are no longer kept.
Sent(a, l) == a - Len(l.pending)
Gone(a, l) == Sent(a, l) - Len(l.unacked)

\* Every chunk past Gone is kept, in its place.
Queued(a, l) ==
  /\ 0 <= Gone(a, l)
  /\ \A i \in 1 .. Len(l.unacked) : l.unacked[i].info = Gone(a, l) + i
  /\ \A i \in 1 .. Len(l.pending) : l.pending[i] = Sent(a, l) + i

\* The chunk the user was given last.
Newest(m) == LET data == Given(m.events) IN IF data = <<>> THEN 0 ELSE data[Len(data)]

\* Everything up to n, once each and in order.
Counting(n) == [i \in 1 .. n |-> i]

\* While s, the user has everything up to the newest and nothing is forgotten.
Unbroken(a, l, m, v) ==
  /\ Tally(Gone(a, l), l.va, v \o m.out, Newest(m), m.vr)
  /\ Given(m.events) = Counting(Newest(m))
  /\ l.state # "Connected" => Len(l.pending) = a

\* One direction of the link, from l to m.
OneWay(a, l, w, m, v, s) ==
  /\ a \in Nat /\ l \in Entity /\ m \in Entity /\ w \in Seq(Frame) /\ v \in Seq(Frame)
  /\ Sound(l) /\ Queued(a, l) /\ m.held = NoneHeld
  /\ Order(Sent(a, l), Gone(a, l), l.va, w \o l.out, Newest(m), m.vr)
  /\ s => Unbroken(a, l, m, v)

\* The newest chunk is a number.
LEMMA NewestType ==
  ASSUME NEW m \in Entity
  PROVE  Newest(m) \in Nat
<1>. DEFINE data == Given(m.events)
<1>1. data \in Seq(Info)
  BY EntityFields, GivenType
<1>. HIDE DEF data
<1>2. ASSUME data # <<>> PROVE data[Len(data)] \in Nat
  <2>1. Len(data) \in Nat /\ Len(data) # 0
    BY <1>1, <1>2, EmptySeq, LenProperties
  <2>2. Len(data) \in 1 .. Len(data)
    BY <2>1
  <2>3. data[Len(data)] \in Info
    BY <1>1, <2>2, ElementOfSeq
  <2>. QED
    BY <2>3 DEF Info
<1>. QED
  BY <1>2 DEF Newest, data

\* The sizes that belong to it.
LEMMA Sizes ==
  ASSUME NEW a \in Nat, NEW l \in Entity, Sound(l), Queued(a, l)
  PROVE  /\ Len(l.pending) \in Nat /\ Len(l.unacked) \in Nat
         /\ Sent(a, l) \in Nat /\ Gone(a, l) \in Nat /\ l.va \in SeqNo
         /\ Gone(a, l) <= Sent(a, l) /\ Sent(a, l) - Gone(a, l) = Len(l.unacked)
         /\ Sent(a, l) <= a /\ a = Sent(a, l) + Len(l.pending)
         /\ Len(l.unacked) <= K /\ (l.state # "Connected" => l.unacked = <<>> /\ Len(l.unacked) = 0)
         /\ (l.unacked = <<>> => Gone(a, l) = Sent(a, l))
<1>1. l.pending \in Seq(Info) /\ l.unacked \in Seq(Unacked) /\ l.va \in SeqNo
  BY EntityFields
<1>2. Len(l.pending) \in Nat /\ Len(l.unacked) \in Nat
  BY <1>1, LenProperties
<1>3. Len(l.unacked) <= K /\ (l.state # "Connected" => l.unacked = <<>>)
  <2>1. CASE l.state = "Connected"
    BY <2>1 DEF Sound, WindowOf
  <2>2. CASE l.state # "Connected"
    BY <2>2, LapmParams DEF Sound, WindowOf
  <2>. QED
    BY <2>1, <2>2
<1>4. l.unacked = <<>> => Len(l.unacked) = 0
  OBVIOUS
<1>. DEFINE p == Len(l.pending)
            u == Len(l.unacked)
<1>5. 0 <= a - p - u
  BY DEF Queued, Gone, Sent
<1>6. p \in Nat /\ u \in Nat /\ u <= K /\ (l.unacked = <<>> => u = 0)
  BY <1>2, <1>3, <1>4
<1>. HIDE DEF p, u
<1>7. /\ a - p \in Nat /\ a - p - u \in Nat /\ a - p - u <= a - p /\ (a - p) - (a - p - u) = u
      /\ a - p <= a /\ a = (a - p) + p /\ (l.unacked = <<>> => a - p - u = a - p)
  BY <1>5, <1>6
<1>. QED
  BY <1>1, <1>2, <1>3, <1>4, <1>7 DEF Sent, Gone, p, u

\* What OneWay says of types and distances.
LEMMA WaySized ==
  ASSUME NEW a, NEW l, NEW w, NEW m, NEW v, NEW s, OneWay(a, l, w, m, v, s)
  PROVE  /\ Sized(Sent(a, l), Gone(a, l), l.va, w \o l.out, Newest(m), m.vr)
         /\ w \o l.out \in Seq(Frame) /\ v \o m.out \in Seq(Frame)
         /\ Turn(Gone(a, l), l.va, v \o m.out, Newest(m), m.vr)
<1>1. /\ a \in Nat /\ l \in Entity /\ m \in Entity /\ w \in Seq(Frame) /\ v \in Seq(Frame)
      /\ Sound(l) /\ Queued(a, l)
  BY DEF OneWay
<1>2. l.out \in Seq(Frame) /\ m.out \in Seq(Frame) /\ m.vr \in SeqNo /\ Newest(m) \in Nat
  BY <1>1, EntityFields, NewestType
<1>3. w \o l.out \in Seq(Frame) /\ v \o m.out \in Seq(Frame)
  BY <1>1, <1>2, ConcatProperties
<1>. DEFINE S == Sent(a, l)
            G == Gone(a, l)
            n == Newest(m)
<1>4. S \in Nat /\ G \in Nat /\ l.va \in SeqNo /\ G <= S /\ S - G <= K
  BY <1>1, Sizes
<1>5. n \in Nat /\ n <= S
  BY <1>2 DEF OneWay, Order
<1>6. K \in Nat /\ K < Modulus /\ Modulus \in Nat
  BY LapmParams
<1>. HIDE DEF S, G, n
<1>7. n - G < Modulus
  BY <1>4, <1>5, <1>6
<1>8. Sized(S, G, l.va, w \o l.out, n, m.vr)
  BY <1>2, <1>3, <1>4, <1>5 DEF Sized
<1>9. Turn(G, l.va, v \o m.out, n, m.vr)
  BY <1>2, <1>3, <1>4, <1>5, <1>7 DEF Turn
<1>. QED
  BY <1>3, <1>8, <1>9 DEF S, G, n

\* Less need be kept of an end that has been told.
LEMMA Unsettled ==
  ASSUME NEW a, NEW l, NEW w, NEW m, NEW v, NEW s, OneWay(a, l, w, m, v, s), NEW s2, s2 => s
  PROVE  OneWay(a, l, w, m, v, s2)
BY DEF OneWay

-----------------------------------------------------------------------------
(* What a frame that is added says of the entity that says it.             *)

\* A frame entity m may say.
Proper(f, m) ==
  /\ Carries(f) => f.nr = m.vr
  /\ IsI(f) => \E k \in 1 .. Len(m.unacked) : f.ns = m.unacked[k].ns /\ f.info = m.unacked[k].info
  /\ f.type = "SABME" => m.state = "AwaitingEstablishment"

\* m is l and proper frames more.
Adds(l, m) ==
  \E ext \in Seq(Frame) :
    m.out = l.out \o ext /\ \A i \in 1 .. Len(ext) : Proper(ext[i], m)

\* A frame of the retransmission buffer is current.
LEMMA ProperCurrent ==
  ASSUME NEW a \in Nat, NEW l \in Entity, Sound(l), Queued(a, l),
         NEW f, Proper(f, l), IsI(f)
  PROVE  Current(Sent(a, l), Gone(a, l), l.va, f)
<1>1. PICK k \in 1 .. Len(l.unacked) : f.ns = l.unacked[k].ns /\ f.info = l.unacked[k].info
  BY DEF Proper
<1>2. /\ Len(l.unacked) \in Nat /\ Gone(a, l) \in Nat /\ Sent(a, l) \in Nat
      /\ Sent(a, l) - Gone(a, l) = Len(l.unacked)
  BY Sizes
<1>3. l.state = "Connected"
  BY <1>2, Sizes
<1>4. l.unacked[k].ns = Plus(l.va, k - 1)
  BY <1>3 DEF Sound, WindowOf
<1>5. l.unacked[k].info = Gone(a, l) + k
  BY DEF Queued
<1>. DEFINE G == Gone(a, l)
            S == Sent(a, l)
            x == f.info
<1>6. x = G + k /\ f.ns = Plus(l.va, k - 1) /\ k \in 1 .. S - G /\ G \in Nat /\ S \in Nat
  BY <1>1, <1>2, <1>4, <1>5
<1>. HIDE DEF G, S, x
<1>7. x > G /\ x <= S /\ x - G - 1 = k - 1
  BY <1>6
<1>. QED
  BY <1>6, <1>7 DEF Current, G, S, x

\* What is said is appended to what is on its way.
LEMMA Streams ==
  ASSUME NEW w \in Seq(Frame), NEW o \in Seq(Frame), NEW ext \in Seq(Frame)
  PROVE  w \o (o \o ext) = (w \o o) \o ext
BY ConcatAssociative

\* The sender goes on: it may number, drop or add, but not retire.
Offered(a, l, a2, l2, s, s2) ==
  /\ a2 \in Nat /\ l2 \in Entity /\ Sound(l2) /\ Queued(a2, l2) /\ Adds(l, l2)
  /\ Moves(Sent(a, l), Gone(a, l), l.va, Sent(a2, l2), Gone(a2, l2), l2.va)
  /\ s2 => /\ s /\ l2.va = l.va /\ Gone(a2, l2) = Gone(a, l)
           /\ l2.state # "Connected" => Len(l2.pending) = a2

\* A direction survives a sender that goes on.
LEMMA WayOffered ==
  ASSUME NEW a, NEW l, NEW w, NEW m, NEW v, NEW s, OneWay(a, l, w, m, v, s),
         NEW a2, NEW l2, NEW s2, Offered(a, l, a2, l2, s, s2)
  PROVE  OneWay(a2, l2, w, m, v, s2)
<1>. DEFINE q == w \o l.out
            S == Sent(a, l)
            G == Gone(a, l)
            S2 == Sent(a2, l2)
            G2 == Gone(a2, l2)
            n == Newest(m)
<1>1. /\ w \in Seq(Frame) /\ q \in Seq(Frame) /\ l.out \in Seq(Frame)
      /\ Sized(S, G, l.va, q, n, m.vr) /\ Order(S, G, l.va, q, n, m.vr)
  BY WaySized, EntityFields DEF OneWay
<1>2. /\ a2 \in Nat /\ l2 \in Entity /\ Sound(l2) /\ Queued(a2, l2)
      /\ Moves(S, G, l.va, S2, G2, l2.va)
  BY DEF Offered
<1>3. PICK ext \in Seq(Frame) :
        l2.out = l.out \o ext /\ \A i \in 1 .. Len(ext) : Proper(ext[i], l2)
  BY DEF Offered, Adds
<1>4. w \o l2.out = q \o ext
  <2>1. w \o (l.out \o ext) = (w \o l.out) \o ext
    BY <1>1, Streams
  <2>. QED
    BY <1>3, <2>1 DEF q
<1>5. \A i \in 1 .. Len(ext) : IsI(ext[i]) => Current(S2, G2, l2.va, ext[i])
  BY <1>2, <1>3, ProperCurrent
<1>6. /\ S2 \in Nat /\ G2 \in Nat /\ l2.va \in SeqNo /\ G2 <= S2 /\ S2 - G2 <= K
  BY <1>2, Sizes
<1>. HIDE DEF q, S, G, S2, G2, n
<1>7. Order(S2, G2, l2.va, q, n, m.vr)
  BY <1>1, <1>2, OrderMoves
<1>8. Sized(S2, G2, l2.va, q, n, m.vr)
  BY <1>1, <1>6 DEF Sized
<1>9. Order(S2, G2, l2.va, q \o ext, n, m.vr)
  BY <1>5, <1>7, <1>8, OrderSays
<1>10. s2 => Unbroken(a2, l2, m, v)
  BY DEF Offered, OneWay, Unbroken
<1>. QED
  BY <1>2, <1>4, <1>9, <1>10 DEF OneWay, q, S2, G2, n

\* The receiver goes on, taking nothing.
Answered(m, m2) ==
  /\ m2 \in Entity /\ m2.held = NoneHeld /\ m2.vr = m.vr
  /\ Given(m2.events) = Given(m.events) /\ Adds(m, m2)

\* A direction survives a receiver that goes on.
LEMMA WayAnswered ==
  ASSUME NEW a, NEW l, NEW w, NEW m, NEW v, NEW s, OneWay(a, l, w, m, v, s),
         NEW m2, Answered(m, m2)
  PROVE  OneWay(a, l, w, m2, v, s)
<1>. DEFINE q == v \o m.out
            G == Gone(a, l)
            n == Newest(m)
<1>1. /\ v \in Seq(Frame) /\ q \in Seq(Frame) /\ m.out \in Seq(Frame)
      /\ Turn(G, l.va, q, n, m.vr)
  BY WaySized, EntityFields DEF OneWay
<1>2. PICK ext \in Seq(Frame) :
        m2.out = m.out \o ext /\ \A i \in 1 .. Len(ext) : Proper(ext[i], m2)
  BY DEF Answered, Adds
<1>3. v \o m2.out = q \o ext
  <2>1. v \o (m.out \o ext) = (v \o m.out) \o ext
    BY <1>1, Streams
  <2>. QED
    BY <1>2, <2>1 DEF q
<1>4. Newest(m2) = n /\ m2.vr = m.vr /\ Given(m2.events) = Given(m.events)
  BY DEF Answered, Newest
<1>5. \A i \in 1 .. Len(ext) : Carries(ext[i]) => ext[i].nr = m.vr
  BY <1>2, <1>4 DEF Proper
<1>6. ASSUME s PROVE Unbroken(a, l, m2, v)
  <2>1. Unbroken(a, l, m, v)
    BY <1>6 DEF OneWay
  <2>2. Tally(G, l.va, q, n, m.vr)
    BY <2>1 DEF Unbroken
  <2>. HIDE DEF G, q, n
  <2>3. Tally(G, l.va, q \o ext, n, m.vr)
    BY <1>1, <1>2, <1>5, <2>2, TallySays
  <2>4. Tally(G, l.va, v \o m2.out, n, m.vr)
    BY <1>3, <2>3
  <2>. QED
    BY <1>4, <2>1, <2>4 DEF Unbroken, G, n
<1>7. m2 \in Entity /\ m2.held = NoneHeld
  BY DEF Answered
<1>. HIDE DEF n
<1>. QED
  BY <1>4, <1>6, <1>7 DEF OneWay, n

\* The frame in front of the line is the one in front of the stream.
LEMMA StreamTail ==
  ASSUME NEW w \in Seq(Frame), w # <<>>, NEW o \in Seq(Frame)
  PROVE  /\ w \o o # <<>> /\ Head(w \o o) = Head(w)
         /\ Tail(w) \in Seq(Frame) /\ Tail(w \o o) = Tail(w) \o o
<1>. DEFINE q == w \o o
            t == Tail(w)
<1>1. /\ t \in Seq(Frame) /\ Len(t) = Len(w) - 1 /\ Len(t) \in Nat /\ Len(w) \in Nat /\ Len(o) \in Nat
      /\ Head(w) = w[1] /\ 1 \in 1 .. Len(w)
      /\ \A i \in 1 .. Len(t) : t[i] = w[i + 1] /\ i + 1 \in 1 .. Len(w)
  BY TailOf, LenProperties
<1>2. /\ q \in Seq(Frame) /\ Len(q) = Len(w) + Len(o)
      /\ \A i \in 1 .. Len(w) + Len(o) : q[i] = IF i <= Len(w) THEN w[i] ELSE o[i - Len(w)]
  BY ConcatProperties
<1>3. /\ t \o o \in Seq(Frame) /\ Len(t \o o) = Len(t) + Len(o)
      /\ \A i \in 1 .. Len(t) + Len(o) : (t \o o)[i] = IF i <= Len(t) THEN t[i] ELSE o[i - Len(t)]
  BY <1>1, ConcatProperties
<1>4. q # <<>>
  <2>1. Len(q) # 0
    BY <1>1, <1>2
  <2>. QED
    BY <2>1
<1>. HIDE DEF q
<1>5. /\ Tail(q) \in Seq(Frame) /\ Len(Tail(q)) = Len(q) - 1 /\ Head(q) = q[1]
      /\ \A i \in 1 .. Len(Tail(q)) : Tail(q)[i] = q[i + 1] /\ i + 1 \in 1 .. Len(q)
  BY <1>2, <1>4, TailOf
<1>6. Head(q) = Head(w)
  BY <1>1, <1>2, <1>5
<1>. HIDE DEF t
<1>7. ASSUME NEW i \in 1 .. Len(Tail(q)) PROVE Tail(q)[i] = (t \o o)[i]
  <2>1. i \in 1 .. Len(t) + Len(o) /\ i + 1 \in 1 .. Len(w) + Len(o) /\ (i + 1) - Len(w) = i - Len(t)
    BY <1>1, <1>2, <1>5
  <2>2. Tail(q)[i] = q[i + 1]
    BY <1>5
  <2>3. CASE i <= Len(t)
    BY <1>1, <1>2, <1>3, <2>1, <2>2, <2>3
  <2>4. CASE ~ (i <= Len(t))
    BY <1>1, <1>2, <1>3, <2>1, <2>2, <2>4
  <2>. QED
    BY <2>3, <2>4
<1>8. Len(Tail(q)) = Len(t \o o)
  BY <1>1, <1>2, <1>3, <1>5
<1>9. Tail(q) = t \o o
  BY <1>3, <1>5, <1>7, <1>8, SeqEqual
<1>. QED
  BY <1>1, <1>4, <1>6, <1>9 DEF q, t

\* A frame of the way out is lost, or does not count.
LEMMA WayLoses ==
  ASSUME NEW a, NEW l, NEW w, NEW m, NEW v, NEW s, OneWay(a, l, w, m, v, s), w # <<>>
  PROVE  OneWay(a, l, Tail(w), m, v, s)
<1>1. w \in Seq(Frame) /\ l.out \in Seq(Frame) /\ w \o l.out \in Seq(Frame)
  BY WaySized, EntityFields DEF OneWay
<1>2. /\ w \o l.out # <<>> /\ Tail(w \o l.out) = Tail(w) \o l.out /\ Tail(w) \in Seq(Frame)
  BY <1>1, StreamTail
<1>3. Order(Sent(a, l), Gone(a, l), l.va, Tail(w \o l.out), Newest(m), m.vr)
  BY <1>1, <1>2, OrderTail DEF OneWay
<1>. QED
  BY <1>2, <1>3 DEF OneWay

\* So is one of the way back.
LEMMA WayUnheard ==
  ASSUME NEW a, NEW l, NEW w, NEW m, NEW v, NEW s, OneWay(a, l, w, m, v, s), v # <<>>
  PROVE  OneWay(a, l, w, m, Tail(v), s)
<1>1. v \in Seq(Frame) /\ m.out \in Seq(Frame) /\ v \o m.out \in Seq(Frame)
  BY WaySized, EntityFields DEF OneWay
<1>2. /\ v \o m.out # <<>> /\ Tail(v \o m.out) = Tail(v) \o m.out /\ Tail(v) \in Seq(Frame)
  BY <1>1, StreamTail
<1>3. ASSUME s PROVE Unbroken(a, l, m, Tail(v))
  <2>1. Unbroken(a, l, m, v)
    BY <1>3 DEF OneWay
  <2>2. Tally(Gone(a, l), l.va, Tail(v \o m.out), Newest(m), m.vr)
    BY <1>1, <1>2, <2>1, TallyTail DEF Unbroken
  <2>. QED
    BY <1>2, <2>1, <2>2 DEF Unbroken
<1>. QED
  BY <1>2, <1>3 DEF OneWay

\* What is said is put on the line.
Emptied(l) == [l EXCEPT !.out = <<>>]

\* Putting the output on the line changes nothing else.
LEMMA EmptiedFields ==
  ASSUME NEW l \in Entity
  PROVE  /\ Emptied(l) \in Entity /\ Emptied(l).out = <<>>
         /\ Emptied(l).state = l.state /\ Emptied(l).va = l.va /\ Emptied(l).vs = l.vs
         /\ Emptied(l).vr = l.vr /\ Emptied(l).unacked = l.unacked /\ Emptied(l).held = l.held
         /\ Emptied(l).pending = l.pending /\ Emptied(l).events = l.events
         /\ Emptied(l).timer = l.timer
BY Constants DEF Emptied, Entity

\* A direction survives either end's transmission.
LEMMA WaySent ==
  ASSUME NEW a, NEW l, NEW w, NEW m, NEW v, NEW s, OneWay(a, l, w, m, v, s)
  PROVE  /\ OneWay(a, Emptied(l), w \o l.out, m, v, s)
         /\ OneWay(a, l, w, Emptied(m), v \o m.out, s)
<1>1. /\ l \in Entity /\ m \in Entity /\ w \o l.out \in Seq(Frame) /\ v \o m.out \in Seq(Frame)
  BY WaySized DEF OneWay
<1>2. (w \o l.out) \o <<>> = w \o l.out /\ (v \o m.out) \o <<>> = v \o m.out
  BY <1>1, ConcatEmptySeq
<1>3. Sound(Emptied(l))
  BY <1>1, EmptiedFields, Kept DEF OneWay
<1>4. /\ Sent(a, Emptied(l)) = Sent(a, l) /\ Gone(a, Emptied(l)) = Gone(a, l)
      /\ Emptied(l).va = l.va /\ Emptied(l).state = l.state /\ Emptied(l).pending = l.pending
      /\ Emptied(l).out = <<>> /\ Emptied(l) \in Entity
      /\ Queued(a, Emptied(l)) = Queued(a, l)
  BY <1>1, EmptiedFields DEF Sent, Gone, Queued
<1>5. /\ Newest(Emptied(m)) = Newest(m) /\ Emptied(m).vr = m.vr /\ Emptied(m).held = m.held
      /\ Given(Emptied(m).events) = Given(m.events) /\ Emptied(m).out = <<>> /\ Emptied(m) \in Entity
  BY <1>1, EmptiedFields DEF Newest
<1>6. OneWay(a, Emptied(l), w \o l.out, m, v, s)
  BY <1>1, <1>2, <1>3, <1>4 DEF OneWay, Unbroken
<1>7. OneWay(a, l, w, Emptied(m), v \o m.out, s)
  BY <1>1, <1>2, <1>5 DEF OneWay, Unbroken
<1>. QED
  BY <1>6, <1>7

-----------------------------------------------------------------------------
(* An acknowledgement is heard.                                            *)

\* Either it lies outside the window and nothing changes, or V(A) and the
\* head of the buffer go on together.
LEMMA AckFields ==
  ASSUME NEW l \in Entity, NEW nr \in SeqNo, Sound(l), l.state = "Connected",
         NEW m, m = Acknowledge(l, nr)
  PROVE  /\ m.state = "Connected" /\ m.pending = l.pending /\ m.vs = l.vs
         /\ m.out = l.out /\ m.events = l.events /\ m.held = l.held /\ m.vr = l.vr
         /\ \/ m = l /\ ~ (Ahead(l.va, nr) <= Len(l.unacked))
            \/ /\ Ahead(l.va, nr) <= Len(l.unacked) /\ m.va = nr
               /\ Len(m.unacked) = Len(l.unacked) - Ahead(l.va, nr)
               /\ \A i \in 1 .. Len(m.unacked) : m.unacked[i] = l.unacked[i + Ahead(l.va, nr)]
<1>. DEFINE d == Ahead(l.va, nr)
            tail == SubSeq(l.unacked, d + 1, Len(l.unacked))
<1>1. /\ l.va \in SeqNo /\ l.unacked \in Seq(Unacked) /\ Len(l.unacked) \in Nat
      /\ Len(l.unacked) = Ahead(l.va, l.vs)
  BY EntityFields, LenProperties DEF Sound, WindowOf, Outstanding
<1>2. InWindow(l.va, nr, l.vs) <=> d <= Len(l.unacked)
  BY <1>1 DEF InWindow
<1>3. ASSUME d <= Len(l.unacked)
      PROVE  /\ Len(tail) = Len(l.unacked) - d
             /\ \A i \in 1 .. Len(tail) : tail[i] = l.unacked[i + d]
  <2>1. d \in Nat
    BY <1>1, AheadType
  <2>. HIDE DEF d
  <2>2. d + 1 \in 1 .. Len(l.unacked) + 1
    BY <1>1, <1>3, <2>1
  <2>. QED
    BY <1>1, <1>3, <2>1, <2>2, SubSeqProperties
<1>4. ASSUME d <= Len(l.unacked)
      PROVE  /\ m.state = l.state /\ m.pending = l.pending /\ m.vs = l.vs
             /\ m.out = l.out /\ m.events = l.events /\ m.held = l.held /\ m.vr = l.vr
             /\ m.va = nr /\ m.unacked = tail
  BY <1>2, <1>4 DEF Acknowledge, StartTimer, StopTimer, Entity
<1>5. ASSUME ~ (d <= Len(l.unacked)) PROVE m = l
  BY <1>2, <1>5 DEF Acknowledge
<1>. HIDE DEF d, tail
<1>. QED
  BY <1>3, <1>4, <1>5 DEF d

\* The chunks it retires have all arrived, as long as l is settled.
LEMMA WayAcked ==
  ASSUME NEW a, NEW l, NEW w, NEW m, NEW v, NEW s, OneWay(a, l, w, m, v, s),
         v # <<>>, Carries(Head(v)), l.state = "Connected",
         NEW l2, l2 = Acknowledge(l, Head(v).nr)
  PROVE  OneWay(a, l2, w, m, Tail(v), s)
<1>. DEFINE nr == Head(v).nr
            d == Ahead(l.va, nr)
            S == Sent(a, l)
            G == Gone(a, l)
            n == Newest(m)
            back == v \o m.out
<1>1. /\ a \in Nat /\ l \in Entity /\ m \in Entity /\ w \in Seq(Frame) /\ v \in Seq(Frame)
      /\ Sound(l) /\ Queued(a, l) /\ m.held = NoneHeld
      /\ m.out \in Seq(Frame) /\ back \in Seq(Frame)
      /\ Sized(S, G, l.va, w \o l.out, n, m.vr) /\ Order(S, G, l.va, w \o l.out, n, m.vr)
      /\ Turn(G, l.va, back, n, m.vr)
  BY WaySized, EntityFields DEF OneWay
<1>2. nr \in SeqNo
  <2>1. Head(v) \in Frame
    BY <1>1, TailOf
  <2>. QED
    BY <2>1, FrameFields DEF Carries
<1>3. /\ back # <<>> /\ Head(back) = Head(v) /\ Tail(v) \in Seq(Frame) /\ Tail(back) = Tail(v) \o m.out
  BY <1>1, StreamTail
<1>4. /\ Len(l.pending) \in Nat /\ Len(l.unacked) \in Nat /\ S \in Nat /\ G \in Nat
      /\ G <= S /\ S - G = Len(l.unacked) /\ l.va \in SeqNo
  BY <1>1, Sizes
<1>5. d \in Nat /\ d < Modulus /\ Plus(l.va, d) = nr
  <2>1. d \in 0 .. Modulus - 1
    BY <1>2, <1>4, AheadType
  <2>. QED
    BY <1>2, <1>4, <2>1, PlusAhead, LapmParams
<1>6. s => /\ d <= n - G
           /\ Tally(G + d, nr, Tail(back), n, m.vr)
  <2>1. SUFFICES ASSUME s PROVE d <= n - G /\ Tally(G + d, nr, Tail(back), n, m.vr)
    OBVIOUS
  <2>2. Tally(G, l.va, back, n, m.vr)
    BY <2>1 DEF OneWay, Unbroken
  <2>3. Carries(Head(back)) /\ Head(back).nr = nr
    BY <1>3
  <2>. HIDE DEF S, G, n, back
  <2>. QED
    BY <1>1, <1>3, <2>2, <2>3, TallyAck
<1>7. n \in Nat /\ n <= S
  BY <1>1 DEF Sized, Order
<1>8. CASE l2 = l /\ ~ (d <= Len(l.unacked))
  <2>1. ~ s
    <3>. HIDE DEF S, G, n, d
    <3>. QED
      BY <1>4, <1>5, <1>6, <1>7, <1>8
  <2>2. OneWay(a, l, w, m, Tail(v), s)
    BY WayUnheard
  <2>. QED
    BY <1>8, <2>2
<1>9. CASE /\ d <= Len(l.unacked) /\ l2.va = nr /\ Len(l2.unacked) = Len(l.unacked) - d
           /\ \A i \in 1 .. Len(l2.unacked) : l2.unacked[i] = l.unacked[i + d]
  <2>1. /\ l2 \in Entity /\ Sound(l2) /\ l2.state = "Connected"
        /\ l2.pending = l.pending /\ l2.out = l.out
    BY <1>1, <1>2, AcknowledgeType, AcknowledgeSound, AckFields
  <2>2. Sent(a, l2) = S
    BY <2>1 DEF Sent
  <2>3. Gone(a, l2) = S - (Len(l.unacked) - d)
    BY <1>9, <2>2 DEF Gone
  <2>. DEFINE G2 == Gone(a, l2)
              u == Len(l.unacked)
  <2>4. Queued(a, l)
    BY <1>1
  <2>5. \A i \in 1 .. u : l.unacked[i].info = G + i
    BY <2>4 DEF Queued
  <2>. HIDE DEF S, G, n, d, G2, u
  <2>6. G2 = S - (u - d) /\ u \in Nat /\ d <= u /\ S - G = u
    BY <1>4, <1>9, <2>3 DEF G2, u
  <2>7. G2 = G + d /\ G2 \in Nat /\ 0 <= G2 /\ G2 <= S /\ G <= G2 /\ G2 - G = d
    BY <1>4, <1>5, <2>6
  <2>8. Queued(a, l2)
    <3>1. ASSUME NEW i \in 1 .. Len(l2.unacked) PROVE l2.unacked[i].info = G2 + i
      <4>1. i + d \in 1 .. u /\ G + (i + d) = G2 + i
        <5>1. i \in 1 .. u - d
          BY <1>9 DEF u
        <5>. QED
          BY <1>4, <1>5, <2>6, <2>7, <5>1
      <4>. QED
        BY <1>9, <2>5, <4>1
    <3>2. \A i \in 1 .. Len(l2.pending) : l2.pending[i] = Sent(a, l2) + i
      BY <2>1, <2>2, <2>4 DEF Queued, S
    <3>. QED
      BY <2>7, <3>1, <3>2 DEF Queued, G2
  <2>9. Moves(S, G, l.va, S, G2, nr)
    BY <1>2, <1>4, <1>5, <2>7 DEF Moves
  <2>10. Order(S, G2, nr, w \o l.out, n, m.vr)
    BY <1>1, <2>9, OrderMoves
  <2>11. ASSUME s PROVE Unbroken(a, l2, m, Tail(v))
    <3>1. Tally(G2, nr, Tail(v) \o m.out, n, m.vr)
      BY <1>3, <1>6, <2>7, <2>11
    <3>2. Given(m.events) = Counting(Newest(m))
      BY <2>11 DEF OneWay, Unbroken
    <3>. QED
      BY <1>9, <2>1, <3>1, <3>2 DEF Unbroken, G2, n
  <2>12. Order(Sent(a, l2), Gone(a, l2), l2.va, w \o l2.out, Newest(m), m.vr)
    BY <1>9, <2>1, <2>2, <2>10 DEF G2, n
  <2>. QED
    BY <1>1, <1>3, <2>1, <2>8, <2>11, <2>12 DEF OneWay
<1>. QED
  BY <1>1, <1>2, <1>8, <1>9, AckFields

-----------------------------------------------------------------------------
(* A chunk is taken.                                                       *)

\* With nothing held, the frame in sequence is all there is to take.
LEMMA DeliverFields ==
  ASSUME NEW m \in Entity, m.held = NoneHeld, NEW info \in Info,
         NEW m2, m2 = Deliver(m, info)
  PROVE  /\ m2 \in Entity /\ m2.state = m.state /\ m2.va = m.va /\ m2.vs = m.vs
         /\ m2.pending = m.pending /\ m2.unacked = m.unacked /\ m2.out = m.out
         /\ m2.timer = m.timer /\ m2.held = NoneHeld
         /\ m2.vr = Plus(m.vr, 1) /\ m2.events = Append(m.events, DataEvent(info))
<1>. DEFINE next == Plus(m.vr, 1)
            run == HeldRun(m.held, next)
            more == [i \in 1 .. run |-> DataEvent(m.held[Plus(next, i - 1)])]
            freed(n) == Ahead(next, n) < run
            left == [n \in SeqNo |-> IF freed(n) THEN Nothing ELSE m.held[n]]
<1>1. m.vr \in SeqNo /\ m.events \in Seq(Event) /\ m.held \in [SeqNo -> Info \cup {Nothing}]
  BY EntityFields
<1>2. next \in SeqNo /\ Plus(next, 0) = next
  BY <1>1, LapmParams, PlusType DEF Plus, SeqNo
<1>3. run = 0
  <2>1. {i \in 0 .. Modulus - 1 : \A j \in 0 .. i : m.held[Plus(next, j)] # Nothing} = {}
    <3>1. SUFFICES ASSUME NEW i \in 0 .. Modulus - 1,
                          \A j \in 0 .. i : m.held[Plus(next, j)] # Nothing
                   PROVE  FALSE
      OBVIOUS
    <3>2. 0 \in 0 .. i
      OBVIOUS
    <3>3. m.held[Plus(next, 0)] # Nothing
      BY <3>1, <3>2
    <3>. QED
      BY <1>2, <3>3 DEF NoneHeld
  <2>. QED
    BY <2>1, FS_EmptySet DEF HeldRun
<1>4. Append(m.events, DataEvent(info)) \o more = Append(m.events, DataEvent(info))
  <2>1. Append(m.events, DataEvent(info)) \in Seq(Event)
    BY <1>1, EventTypes, AppendProperties
  <2>2. more = <<>>
    <3>. HIDE DEF run
    <3>. QED
      BY <1>3
  <2>. HIDE DEF more
  <2>. QED
    BY <2>1, <2>2, ConcatEmptySeq
<1>5. left = NoneHeld
  <2>1. \A n \in SeqNo : ~ (Ahead(next, n) < 0)
    BY <1>2, AheadType
  <2>2. left = [n \in SeqNo |-> m.held[n]]
    <3>. HIDE DEF run, next
    <3>. QED
      BY <1>3, <2>1
  <2>. QED
    BY <2>2 DEF NoneHeld
<1>6. Plus(next, run) = next
  <2>. HIDE DEF run, next
  <2>. QED
    BY <1>2, <1>3
<1>7. m2 = [m EXCEPT !.vr = Plus(next, run), !.reject_sent = FALSE, !.ack_pending = TRUE,
                     !.events = Append(@, DataEvent(info)) \o more, !.held = left]
  BY DEF Deliver
<1>8. m2 \in Entity
  BY DeliverType
<1>. HIDE DEF next, run, more, left
<1>9. /\ m2.state = m.state /\ m2.va = m.va /\ m2.vs = m.vs
      /\ m2.pending = m.pending /\ m2.unacked = m.unacked /\ m2.out = m.out
      /\ m2.timer = m.timer /\ m2.held = left
      /\ m2.vr = Plus(next, run) /\ m2.events = Append(m.events, DataEvent(info)) \o more
  BY <1>7 DEF Entity
<1>. QED
  BY <1>4, <1>5, <1>6, <1>8, <1>9 DEF next

\* The newest chunk is the one taken.
LEMMA NewestTaken ==
  ASSUME NEW m \in Entity, NEW info \in Info, NEW m2,
         m2.events = Append(m.events, DataEvent(info))
  PROVE  Given(m2.events) = Append(Given(m.events), info) /\ Newest(m2) = info
<1>1. Given(m.events) \in Seq(Info) /\ m.events \in Seq(Event) /\ DataEvent(info) \in Event
  BY EntityFields, GivenType, EventTypes
<1>2. Given(m2.events) = Append(Given(m.events), info)
  BY <1>1, GivenAppend DEF DataEvent
<1>. DEFINE data == Given(m.events)
<1>3. /\ Append(data, info) # <<>> /\ Len(Append(data, info)) = Len(data) + 1
      /\ Append(data, info)[Len(data) + 1] = info
  BY <1>1, AppendProperties
<1>. HIDE DEF data
<1>4. Given(m2.events) = Append(data, info)
  BY <1>2 DEF data
<1>. QED
  BY <1>2, <1>3, <1>4 DEF Newest

\* The next number counts on.
LEMMA CountOn ==
  ASSUME NEW n \in Nat
  PROVE  Append(Counting(n), n + 1) = Counting(n + 1)
<1>. DEFINE old == Counting(n)
            A == Append(old, n + 1)
            C == Counting(n + 1)
<1>1. /\ old \in Seq(Nat) /\ Len(old) = n /\ C \in Seq(Nat) /\ Len(C) = n + 1
      /\ \A i \in 1 .. n : old[i] = i
      /\ \A i \in 1 .. n + 1 : C[i] = i
  BY DEF Counting
<1>. HIDE DEF old, C
<1>2. /\ A \in Seq(Nat) /\ Len(A) = n + 1 /\ A[n + 1] = n + 1
      /\ \A i \in 1 .. n : A[i] = old[i]
  BY <1>1, AppendProperties
<1>. HIDE DEF A
<1>3. ASSUME NEW i \in 1 .. n + 1 PROVE A[i] = C[i]
  <2>1. CASE i = n + 1
    BY <1>1, <1>2, <2>1
  <2>2. CASE i \in 1 .. n
    BY <1>1, <1>2, <2>2
  <2>. QED
    BY <2>1, <2>2
<1>4. A = C
  BY <1>1, <1>2, <1>3, SeqEqual
<1>. QED
  BY <1>4 DEF A, C, old

\* The chunk that is taken is newer than any before, and the next one as long
\* as the sender is settled.
LEMMA WayTakes ==
  ASSUME NEW a, NEW l, NEW w, NEW m, NEW v, NEW s, OneWay(a, l, w, m, v, s),
         w # <<>>, IsI(Head(w)), Head(w).ns = m.vr,
         NEW m2, m2 = Deliver(m, Head(w).info)
  PROVE  /\ OneWay(a, l, Tail(w), m2, v, s)
         /\ Head(w).info \in Info /\ Newest(m) < Head(w).info /\ Head(w).info <= a
         /\ s => Head(w).info = Newest(m) + 1
<1>. DEFINE f == Head(w)
            q == w \o l.out
            S == Sent(a, l)
            G == Gone(a, l)
            n == Newest(m)
            x == f.info
            back == v \o m.out
<1>1. /\ a \in Nat /\ l \in Entity /\ m \in Entity /\ w \in Seq(Frame) /\ v \in Seq(Frame)
      /\ Sound(l) /\ Queued(a, l) /\ m.held = NoneHeld
      /\ l.out \in Seq(Frame) /\ q \in Seq(Frame) /\ back \in Seq(Frame)
      /\ Sized(S, G, l.va, q, n, m.vr) /\ Order(S, G, l.va, q, n, m.vr)
      /\ Turn(G, l.va, back, n, m.vr)
  BY WaySized, EntityFields DEF OneWay
<1>2. /\ q # <<>> /\ Head(q) = f /\ Tail(w) \in Seq(Frame) /\ Tail(q) = Tail(w) \o l.out
  BY <1>1, StreamTail
<1>3. f \in Frame /\ x \in Info /\ x \in Nat
  <2>1. f \in Frame
    BY <1>1, TailOf
  <2>2. x \in Info
    BY <2>1, FrameFields DEF IsI
  <2>. QED
    BY <2>1, <2>2 DEF Info
<1>4. /\ S \in Nat /\ G \in Nat /\ l.va \in SeqNo /\ G <= S /\ S - G <= K /\ S <= a
      /\ n \in Nat /\ n <= S
  BY <1>1, Sizes DEF Sized, Order
<1>5. IsI(Head(q)) /\ Head(q).ns = m.vr /\ Head(q).info = x
  BY <1>2
<1>6. x > n /\ x <= S /\ Order(S, G, l.va, Tail(q), x, Plus(m.vr, 1))
  <2>. HIDE DEF S, G, n, q, x, f
  <2>. QED
    BY <1>1, <1>2, <1>5, OrderTakes
<1>7. /\ m2 \in Entity /\ m2.out = m.out /\ m2.held = NoneHeld /\ m2.vr = Plus(m.vr, 1)
      /\ m2.events = Append(m.events, DataEvent(x))
  BY <1>1, <1>3, DeliverFields
<1>8. Given(m2.events) = Append(Given(m.events), x) /\ Newest(m2) = x
  BY <1>1, <1>3, <1>7, NewestTaken
<1>9. ASSUME s PROVE x = n + 1 /\ Unbroken(a, l, m2, v)
  <2>1. Unbroken(a, l, m, v)
    BY <1>9 DEF OneWay
  <2>2. /\ Tally(G, l.va, back, n, m.vr) /\ G <= n /\ m.vr = Plus(l.va, n - G)
    BY <2>1 DEF Unbroken, Tally
  <2>3. Len(q) \in Nat /\ 1 \in 1 .. Len(q) /\ q[1] = f
    BY <1>1, <1>2, TailOf, LenProperties
  <2>4. Fits(S, G, l.va, f)
    BY <1>1, <2>3 DEF Order
  <2>5. x = n + 1
    <3>1. x > G => f.ns = Plus(l.va, x - G - 1)
      BY <2>4 DEF Fits
    <3>. DEFINE ns == f.ns
    <3>2. ns = m.vr /\ (x > G => ns = Plus(l.va, x - G - 1))
      BY <3>1
    <3>3. K \in Nat /\ K < Modulus /\ Modulus \in Nat
      BY LapmParams
    <3>. HIDE DEF S, G, n, x, ns, f
    <3>4. x > G /\ x - G - 1 \in 0 .. Modulus - 1 /\ n - G \in 0 .. Modulus - 1
      BY <1>3, <1>4, <1>6, <2>2, <3>3
    <3>5. Plus(l.va, x - G - 1) = Plus(l.va, n - G)
      BY <2>2, <3>2, <3>4
    <3>6. x - G - 1 = n - G
      BY <1>4, <3>4, <3>5, PlusOne
    <3>. QED
      BY <1>3, <1>4, <3>6
  <2>6. Tally(G, l.va, back, n + 1, Plus(m.vr, 1))
    <3>1. (n + 1) - G < Modulus
      <4>1. K \in Nat /\ K < Modulus /\ Modulus \in Nat
        BY LapmParams
      <4>. HIDE DEF S, G, n, x
      <4>. QED
        BY <1>3, <1>4, <1>6, <2>5, <4>1
    <3>. HIDE DEF S, G, n, x, back
    <3>. QED
      BY <1>1, <2>2, <3>1, TallyTakes
  <2>7. Given(m2.events) = Counting(x)
    <3>1. Given(m.events) = Counting(n)
      BY <2>1 DEF Unbroken
    <3>. HIDE DEF n, x
    <3>. QED
      BY <1>4, <1>8, <2>5, <3>1, CountOn
  <2>8. l.state # "Connected" => Len(l.pending) = a
    BY <2>1 DEF Unbroken
  <2>. HIDE DEF n, x
  <2>. QED
    BY <1>7, <1>8, <2>5, <2>6, <2>7, <2>8 DEF Unbroken, G, back
<1>10. OneWay(a, l, Tail(w), m2, v, s)
  <2>. HIDE DEF n, x
  <2>. QED
    BY <1>1, <1>2, <1>6, <1>7, <1>8, <1>9 DEF OneWay, q, S, G
<1>11. n < x /\ x <= a
  <2>. HIDE DEF S, n, x
  <2>. QED
    BY <1>1, <1>3, <1>4, <1>6
<1>. QED
  BY <1>3, <1>9, <1>10, <1>11

-----------------------------------------------------------------------------
(* An entity that says more, and is otherwise what it was.                 *)

\* The sender's part of l2 is that of l.
Same(l, l2) ==
  /\ l2 \in Entity /\ l2.state = l.state /\ l2.va = l.va /\ l2.vs = l.vs
  /\ l2.pending = l.pending /\ l2.unacked = l.unacked
  /\ l.timer => l2.timer
  /\ Adds(l, l2)

\* So is the receiver's.
Spoke(l, l2) == Same(l, l2) /\ l2.vr = l.vr /\ l2.events = l.events /\ l2.held = l.held

\* A direction survives a sender whose part stays.
LEMMA WaySame ==
  ASSUME NEW a, NEW l, NEW w, NEW m, NEW v, NEW s, OneWay(a, l, w, m, v, s),
         NEW l2, Same(l, l2)
  PROVE  OneWay(a, l2, w, m, v, s)
<1>1. /\ a \in Nat /\ l \in Entity /\ Sound(l) /\ Queued(a, l) /\ l2 \in Entity
      /\ l2.va = l.va /\ l2.state = l.state /\ l2.pending = l.pending /\ l2.unacked = l.unacked
  BY DEF OneWay, Same
<1>2. Sound(l2)
  BY <1>1, Kept DEF Same
<1>3. Sent(a, l2) = Sent(a, l) /\ Gone(a, l2) = Gone(a, l)
  BY <1>1 DEF Sent, Gone
<1>4. Queued(a, l2)
  BY <1>1, <1>3 DEF Queued
<1>5. Moves(Sent(a, l), Gone(a, l), l.va, Sent(a, l2), Gone(a, l2), l2.va)
  <2>. DEFINE S == Sent(a, l)
              G == Gone(a, l)
  <2>1. S \in Nat /\ G \in Nat /\ G <= S /\ l.va \in SeqNo
    BY <1>1, Sizes
  <2>. HIDE DEF S, G
  <2>2. Plus(l.va, G - G) = l.va
    BY <2>1, LapmParams DEF Plus, SeqNo
  <2>3. Moves(S, G, l.va, S, G, l.va)
    BY <2>1, <2>2 DEF Moves
  <2>. QED
    BY <1>1, <1>3, <2>3 DEF S, G
<1>6. s => (l2.state # "Connected" => Len(l2.pending) = a)
  BY <1>1 DEF OneWay, Unbroken
<1>7. Offered(a, l, a, l2, s, s)
  BY <1>1, <1>2, <1>3, <1>4, <1>5, <1>6 DEF Offered, Same
<1>. QED
  BY <1>7, WayOffered

\* A direction survives an end that only speaks.
LEMMA WaySpoke ==
  ASSUME NEW a, NEW l, NEW w, NEW m, NEW v, NEW s, OneWay(a, l, w, m, v, s)
  PROVE  /\ \A l2 : Spoke(l, l2) => OneWay(a, l2, w, m, v, s)
         /\ \A m2 : Spoke(m, m2) => OneWay(a, l, w, m2, v, s)
<1>1. ASSUME NEW l2, Spoke(l, l2) PROVE OneWay(a, l2, w, m, v, s)
  <2>1. Same(l, l2)
    BY <1>1 DEF Spoke
  <2>. QED
    BY <2>1, WaySame
<1>2. ASSUME NEW m2, Spoke(m, m2) PROVE OneWay(a, l, w, m2, v, s)
  <2>1. Answered(m, m2)
    BY <1>2 DEF Answered, Spoke, Same, OneWay
  <2>. QED
    BY <2>1, WayAnswered
<1>. QED
  BY <1>1, <1>2

\* Adding nothing, and adding one frame.
LEMMA AddsNothing ==
  ASSUME NEW l \in Entity, NEW m, m.out = l.out
  PROVE  Adds(l, m)
<1>1. l.out \in Seq(Frame)
  BY EntityFields
<1>2. <<>> \in Seq(Frame) /\ l.out = l.out \o <<>> /\ 1 .. Len(<<>>) = {}
  <2>1. Len(<<>>) = 0 /\ <<>> \in Seq(Frame)
    BY EmptySeq
  <2>. QED
    BY <1>1, <2>1, ConcatEmptySeq
<1>. QED
  BY <1>2 DEF Adds

\* One proper frame is something an entity may add.
LEMMA AddsOne ==
  ASSUME NEW l \in Entity, NEW f \in Frame, NEW m, m.out = Append(l.out, f), Proper(f, m)
  PROVE  Adds(l, m)
<1>1. l.out \in Seq(Frame)
  BY EntityFields
<1>2. Append(l.out, f) = l.out \o <<f>>
  BY <1>1, AppendIsConcat
<1>3. <<f>> \in Seq(Frame) /\ Len(<<f>>) = 1 /\ <<f>>[1] = f
  OBVIOUS
<1>4. \A i \in 1 .. Len(<<f>>) : Proper(<<f>>[i], m)
  BY <1>3
<1>. QED
  BY <1>2, <1>3, <1>4 DEF Adds

\* Nothing but the timer, the retries and the Booleans changes.
LEMMA SpokeNothing ==
  ASSUME NEW l \in Entity, NEW m \in Entity,
         m.state = l.state, m.va = l.va, m.vs = l.vs, m.vr = l.vr, m.pending = l.pending,
         m.unacked = l.unacked, m.events = l.events, m.held = l.held, m.out = l.out,
         l.timer => m.timer
  PROVE  Spoke(l, m)
BY AddsNothing DEF Spoke, Same

\* An entity that appends one proper frame has only spoken.
LEMMA SpokeOne ==
  ASSUME NEW l \in Entity, NEW f \in Frame, Proper(f, l), NEW m \in Entity,
         m.state = l.state, m.va = l.va, m.vs = l.vs, m.vr = l.vr, m.pending = l.pending,
         m.unacked = l.unacked, m.events = l.events, m.held = l.held, m.out = Append(l.out, f),
         l.timer => m.timer
  PROVE  Spoke(l, m)
<1>1. Proper(f, m)
  BY DEF Proper
<1>. QED
  BY <1>1, AddsOne DEF Spoke, Same

\* What is added on top of what was added.
LEMMA AddsTwice ==
  ASSUME NEW l \in Entity, NEW m, NEW k, Adds(l, m), Spoke(m, k)
  PROVE  Adds(l, k)
<1>1. PICK ext \in Seq(Frame) : m.out = l.out \o ext /\ \A i \in 1 .. Len(ext) : Proper(ext[i], m)
  BY DEF Adds
<1>2. PICK more \in Seq(Frame) : k.out = m.out \o more /\ \A i \in 1 .. Len(more) : Proper(more[i], k)
  BY DEF Spoke, Same, Adds
<1>3. k.vr = m.vr /\ k.unacked = m.unacked /\ k.state = m.state
  BY DEF Spoke, Same
<1>4. \A i \in 1 .. Len(ext) : Proper(ext[i], k)
  BY <1>1, <1>3 DEF Proper
<1>. DEFINE both == ext \o more
<1>5. l.out \in Seq(Frame)
  BY EntityFields
<1>6. k.out = l.out \o both
  <2>1. (l.out \o ext) \o more = l.out \o (ext \o more)
    BY <1>5, Streams
  <2>. QED
    BY <1>1, <1>2, <2>1
<1>7. /\ both \in Seq(Frame) /\ Len(both) = Len(ext) + Len(more)
      /\ Len(ext) \in Nat /\ Len(more) \in Nat
      /\ \A i \in 1 .. Len(ext) + Len(more) :
           both[i] = IF i <= Len(ext) THEN ext[i] ELSE more[i - Len(ext)]
  BY ConcatProperties, LenProperties
<1>. HIDE DEF both
<1>8. ASSUME NEW i \in 1 .. Len(both) PROVE Proper(both[i], k)
  <2>1. CASE i <= Len(ext)
    BY <1>4, <1>7, <2>1
  <2>2. CASE ~ (i <= Len(ext))
    <3>1. i - Len(ext) \in 1 .. Len(more) /\ both[i] = more[i - Len(ext)]
      BY <1>7, <2>2
    <3>. QED
      BY <1>2, <3>1
  <2>. QED
    BY <2>1, <2>2
<1>. QED
  BY <1>6, <1>7, <1>8 DEF Adds

\* Two turns of speaking are one.
LEMMA SpokeTwice ==
  ASSUME NEW l \in Entity, NEW m, NEW k, Spoke(l, m), Spoke(m, k)
  PROVE  Spoke(l, k)
<1>1. Adds(l, k)
  BY AddsTwice DEF Spoke, Same
<1>. QED
  BY <1>1 DEF Spoke, Same

\* The answers are proper.
LEMMA ProperAnswers ==
  ASSUME NEW l \in Entity
  PROVE  /\ \A pf \in BOOLEAN, kind \in {"Command", "Response"} :
              RR(l.vr, pf, kind) \in Frame /\ Proper(RR(l.vr, pf, kind), l)
         /\ REJ(l.vr) \in Frame /\ Proper(REJ(l.vr), l)
         /\ SREJ(l.vr) \in Frame /\ Proper(SREJ(l.vr), l)
         /\ \A type \in {"DISC", "UA", "DM"}, pf \in BOOLEAN :
              Unnumbered(type, pf) \in Frame /\ Proper(Unnumbered(type, pf), l)
<1>1. l.vr \in SeqNo
  BY EntityFields
<1>. QED
  BY <1>1, FrameTypes DEF Proper, Carries, IsI, RR, REJ, SREJ, Unnumbered, SetMode

-----------------------------------------------------------------------------
(* What the handlers add.                                                  *)

LEMMA SendSpoke ==
  ASSUME NEW l \in Entity, NEW f \in Frame, Proper(f, l)
  PROVE  /\ Spoke(l, Send(l, f)) /\ Spoke(l, [Send(l, f) EXCEPT !.ack_pending = FALSE])
         /\ Spoke(l, [Send(l, f) EXCEPT !.reject_sent = TRUE])
<1>1. ASSUME NEW m \in Entity, m.out = Append(l.out, f),
             m.state = l.state, m.va = l.va, m.vs = l.vs, m.vr = l.vr, m.pending = l.pending,
             m.unacked = l.unacked, m.events = l.events, m.held = l.held, m.timer = l.timer
      PROVE  Spoke(l, m)
  BY <1>1, SpokeOne
<1>. DEFINE m1 == Send(l, f)
            m2 == [Send(l, f) EXCEPT !.ack_pending = FALSE]
            m3 == [Send(l, f) EXCEPT !.reject_sent = TRUE]
<1>2. m1 \in Entity
  BY SendType
<1>3. m2 \in Entity /\ m3 \in Entity
  BY <1>2 DEF Entity
<1>4. /\ m1.out = Append(l.out, f)
      /\ m1.state = l.state /\ m1.va = l.va /\ m1.vs = l.vs /\ m1.vr = l.vr
      /\ m1.pending = l.pending /\ m1.unacked = l.unacked /\ m1.events = l.events
      /\ m1.held = l.held /\ m1.timer = l.timer
  BY DEF Send, Entity
<1>5. /\ m2.out = m1.out
      /\ m2.state = m1.state /\ m2.va = m1.va /\ m2.vs = m1.vs /\ m2.vr = m1.vr
      /\ m2.pending = m1.pending /\ m2.unacked = m1.unacked /\ m2.events = m1.events
      /\ m2.held = m1.held /\ m2.timer = m1.timer
  BY <1>2 DEF Entity
<1>6. /\ m3.out = m1.out
      /\ m3.state = m1.state /\ m3.va = m1.va /\ m3.vs = m1.vs /\ m3.vr = m1.vr
      /\ m3.pending = m1.pending /\ m3.unacked = m1.unacked /\ m3.events = m1.events
      /\ m3.held = m1.held /\ m3.timer = m1.timer
  BY <1>2 DEF Entity
<1>. HIDE DEF m1, m2, m3
<1>7. Spoke(l, m1)
  BY <1>1, <1>2, <1>4
<1>8. Spoke(l, m2)
  BY <1>1, <1>3, <1>4, <1>5
<1>9. Spoke(l, m3)
  BY <1>1, <1>3, <1>4, <1>6
<1>. QED
  BY <1>7, <1>8, <1>9 DEF m1, m2, m3

\* Saying nothing.
LEMMA SpokeSelf ==
  ASSUME NEW l \in Entity
  PROVE  Spoke(l, l)
BY SpokeNothing

\* An entity that hears that its peer is ready keeps its part.
LEMMA NotBusySpoke ==
  ASSUME NEW l \in Entity
  PROVE  Spoke(l, [l EXCEPT !.peer_busy = FALSE]) /\ [l EXCEPT !.peer_busy = FALSE] \in Entity
<1>. DEFINE m == [l EXCEPT !.peer_busy = FALSE]
<1>1. m \in Entity
  BY NotBusyType
<1>2. /\ m.state = l.state /\ m.va = l.va /\ m.vs = l.vs /\ m.vr = l.vr /\ m.pending = l.pending
      /\ m.unacked = l.unacked /\ m.events = l.events /\ m.held = l.held /\ m.out = l.out
      /\ m.timer = l.timer
  BY DEF Entity
<1>. HIDE DEF m
<1>3. Spoke(l, m)
  BY <1>1, <1>2, SpokeNothing
<1>. QED
  BY <1>1, <1>3 DEF m

\* answer_poll only speaks.
LEMMA AnswerPollSpoke ==
  ASSUME NEW l \in Entity, NEW frame
  PROVE  Spoke(l, AnswerPoll(l, frame)) /\ AnswerPoll(l, frame) \in Entity
<1>1. RR(l.vr, TRUE, "Response") \in Frame /\ Proper(RR(l.vr, TRUE, "Response"), l)
  BY ProperAnswers
<1>. QED
  BY <1>1, SendSpoke, SpokeSelf, AnswerPollType DEF AnswerPoll

\* A REJ, once until it is answered, only speaks.
LEMMA RejectOnceSpoke ==
  ASSUME NEW l \in Entity
  PROVE  Spoke(l, RejectOnce(l, REJ(l.vr)))
<1>1. REJ(l.vr) \in Frame /\ Proper(REJ(l.vr), l)
  BY ProperAnswers
<1>. QED
  BY <1>1, SendSpoke, SpokeSelf DEF RejectOnce

\* So does the acknowledgement at the end of pump.
LEMMA SendAckSpoke ==
  ASSUME NEW l \in Entity
  PROVE  Spoke(l, SendAck(l))
<1>1. RR(l.vr, FALSE, "Response") \in Frame /\ Proper(RR(l.vr, FALSE, "Response"), l)
  BY ProperAnswers
<1>. QED
  BY <1>1, SendSpoke, SpokeSelf DEF SendAck

\* The copies of retransmit_from come from the buffer.
LEMMA RetransmitFromSpoke ==
  ASSUME NEW l \in Entity, NEW nr \in SeqNo
  PROVE  Spoke(l, RetransmitFrom(l, nr)) /\ RetransmitFrom(l, nr) \in Entity
<1>. DEFINE d == Ahead(l.va, nr)
            again == SubSeq(l.unacked, d + 1, Len(l.unacked))
            copy(i) == I(again[i].ns, l.vr, again[i].info)
            copies == [i \in 1 .. Len(again) |-> copy(i)]
            m == RetransmitFrom(l, nr)
<1>1. l.unacked \in Seq(Unacked) /\ Len(l.unacked) \in Nat /\ d \in Nat /\ l.vr \in SeqNo
  <2>1. d \in 0 .. Modulus - 1
    BY EntityFields, AheadType
  <2>2. l.unacked \in Seq(Unacked) /\ l.vr \in SeqNo
    BY EntityFields
  <2>3. Len(l.unacked) \in Nat
    BY <2>2, LenProperties
  <2>4. d \in Nat
    <3>. HIDE DEF d
    <3>. QED
      BY <2>1
  <2>. QED
    BY <2>2, <2>3, <2>4
<1>. HIDE DEF d
<1>2. /\ again \in Seq(Unacked)
      /\ Len(again) = IF d + 1 <= Len(l.unacked) THEN Len(l.unacked) - (d + 1) + 1 ELSE 0
      /\ \A i \in 1 .. Len(l.unacked) - (d + 1) + 1 : again[i] = l.unacked[(d + 1) + i - 1]
  <2>1. \A i \in d + 1 .. Len(l.unacked) : l.unacked[i] \in Unacked
    BY <1>1, ElementOfSeq
  <2>. QED
    BY <1>1, <2>1, SubSeqProperties
<1>. HIDE DEF again
<1>3. Len(again) \in Nat
  BY <1>2, LenProperties
<1>4. ASSUME NEW i \in 1 .. Len(again)
      PROVE  \E k \in 1 .. Len(l.unacked) : again[i] = l.unacked[k]
  <2>1. (d + 1) + i - 1 \in 1 .. Len(l.unacked) /\ i \in 1 .. Len(l.unacked) - (d + 1) + 1
    BY <1>1, <1>2, <1>3
  <2>. QED
    BY <1>2, <2>1
<1>5. ASSUME NEW i \in 1 .. Len(again)
      PROVE  /\ again[i].ns \in SeqNo /\ again[i].info \in Info /\ copy(i) \in Frame
             /\ Proper(copy(i), l)
  <2>1. again[i] \in Unacked
    BY <1>2, ElementOfSeq
  <2>2. again[i].ns \in SeqNo /\ again[i].info \in Info
    BY <2>1 DEF Unacked
  <2>3. PICK k \in 1 .. Len(l.unacked) : again[i] = l.unacked[k]
    BY <1>4
  <2>4. copy(i) \in Frame
    BY <1>1, <2>2, FrameTypes
  <2>5. Proper(copy(i), l)
    BY <2>3 DEF Proper, IsI, Carries, I
  <2>. QED
    BY <2>2, <2>4, <2>5
<1>. HIDE DEF copy
<1>6. copies \in Seq(Frame) /\ Len(copies) = Len(again) /\ \A i \in 1 .. Len(copies) : Proper(copies[i], l)
  <2>1. copies \in Seq(Frame)
    BY <1>3, <1>5, IsASeq
  <2>2. Len(copies) = Len(again)
    BY <1>3
  <2>. QED
    BY <1>5, <2>1, <2>2
<1>. HIDE DEF copies
<1>7. m = l \/ m = StartTimer([l EXCEPT !.out = @ \o copies, !.ack_pending = FALSE])
  BY DEF RetransmitFrom, copies, copy, again, d
<1>8. CASE m = StartTimer([l EXCEPT !.out = @ \o copies, !.ack_pending = FALSE])
  <2>1. /\ m.state = l.state /\ m.va = l.va /\ m.vs = l.vs /\ m.vr = l.vr /\ m.pending = l.pending
        /\ m.unacked = l.unacked /\ m.events = l.events /\ m.held = l.held
        /\ m.out = l.out \o copies /\ m.timer = TRUE
    BY <1>8 DEF StartTimer, Entity
  <2>2. \A i \in 1 .. Len(copies) : Proper(copies[i], m)
    BY <1>6, <2>1 DEF Proper
  <2>3. Adds(l, m)
    BY <1>6, <2>1, <2>2 DEF Adds
  <2>4. m \in Entity
    BY RetransmitFromType
  <2>. HIDE DEF m
  <2>5. Spoke(l, m)
    BY <2>1, <2>3, <2>4 DEF Spoke, Same
  <2>. QED
    BY <2>4, <2>5 DEF m
<1>9. CASE m = l
  BY <1>9, SpokeSelf
<1>. QED
  BY <1>7, <1>8, <1>9

\* The end of timer recovery moves V(S) by retransmission only.
LEMMA ResolveTimerRecoverySpoke ==
  ASSUME NEW l \in Entity, NEW frame
  PROVE  Spoke(l, ResolveTimerRecovery(l, frame)) /\ ResolveTimerRecovery(l, frame) \in Entity
<1>. DEFINE r == [l EXCEPT !.timer_recovery = FALSE, !.retries = 0]
            m == ResolveTimerRecovery(l, frame)
<1>1. r \in Entity
  BY DEF Entity
<1>2. /\ r.state = l.state /\ r.va = l.va /\ r.vs = l.vs /\ r.vr = l.vr /\ r.pending = l.pending
      /\ r.unacked = l.unacked /\ r.events = l.events /\ r.held = l.held /\ r.out = l.out
      /\ r.timer = l.timer
  BY DEF Entity
<1>3. m = l \/ m = r \/ m = RetransmitFrom(r, l.va)
  BY DEF ResolveTimerRecovery
<1>. HIDE DEF r, m
<1>4. Spoke(l, r)
  BY <1>1, <1>2, SpokeNothing
<1>5. l.va \in SeqNo
  BY EntityFields
<1>6. Spoke(r, RetransmitFrom(r, l.va)) /\ RetransmitFrom(r, l.va) \in Entity
  BY <1>1, <1>5, RetransmitFromSpoke
<1>7. Spoke(l, RetransmitFrom(r, l.va))
  BY <1>4, <1>6, SpokeTwice
<1>8. Spoke(l, m) /\ m \in Entity
  BY <1>1, <1>3, <1>4, <1>6, <1>7, SpokeSelf
<1>. QED
  BY <1>8 DEF m

\* An SREJ has one frame of the buffer sent again.
LEMMA OnSrejSpoke ==
  ASSUME NEW l \in Entity, NEW frame \in Frame, frame.type = "SREJ"
  PROVE  Spoke(l, OnSrej(l, frame))
<1>. DEFINE ready == [l EXCEPT !.peer_busy = FALSE]
            asked == {i \in 1 .. Len(l.unacked) : l.unacked[i].ns = frame.nr}
            k == CHOOSE i \in asked : TRUE
            again == l.unacked[k]
            f == I(again.ns, l.vr, again.info)
            m == OnSrej(l, frame)
<1>1. Spoke(l, ready) /\ ready \in Entity
  BY NotBusySpoke
<1>2. asked = {} => m = ready
  BY DEF OnSrej
<1>3. ASSUME asked # {} PROVE Spoke(l, m)
  <2>1. k \in 1 .. Len(l.unacked)
    BY <1>3
  <2>2. l.vr \in SeqNo /\ l.unacked \in Seq(Unacked)
    BY EntityFields
  <2>. HIDE DEF k
  <2>3. again \in Unacked
    BY <2>1, <2>2, ElementOfSeq
  <2>4. f \in Frame
    BY <2>2, <2>3, FrameTypes DEF Unacked
  <2>5. Proper(f, l)
    BY <2>1 DEF Proper, IsI, Carries, I
  <2>6. m = StartTimer([Send(ready, f) EXCEPT !.ack_pending = FALSE])
    BY <1>3 DEF OnSrej, k
  <2>7. m \in Entity
    BY OnSrejType
  <2>. HIDE DEF f, m
  <2>8. /\ m.state = l.state /\ m.va = l.va /\ m.vs = l.vs /\ m.vr = l.vr /\ m.pending = l.pending
        /\ m.unacked = l.unacked /\ m.events = l.events /\ m.held = l.held
        /\ m.out = Append(l.out, f) /\ m.timer = TRUE
    BY <2>6 DEF StartTimer, Send, Entity
  <2>. QED
    BY <2>4, <2>5, <2>7, <2>8, SpokeOne
<1>. QED
  BY <1>1, <1>2, <1>3

\* The expiries that ask again.
LEMMA ExpirySpoke ==
  ASSUME NEW l \in Entity
  PROVE  /\ Spoke(l, PollPeer(Expired(l))) /\ Spoke(l, ResendDisc(Expired(l)))
         /\ l.state = "AwaitingEstablishment" => Spoke(l, ResendSabme(Expired(l)))
<1>. DEFINE x == Expired(l)
            poll == RR(l.vr, TRUE, "Command")
            disc == Unnumbered("DISC", TRUE)
            sabme == Unnumbered("SABME", TRUE)
<1>1. /\ x.state = l.state /\ x.va = l.va /\ x.vs = l.vs /\ x.vr = l.vr /\ x.pending = l.pending
      /\ x.unacked = l.unacked /\ x.events = l.events /\ x.held = l.held /\ x.out = l.out
  BY DEF Expired, StopTimer, Entity
<1>2. x \in Entity /\ PollPeer(x) \in Entity /\ ResendDisc(x) \in Entity /\ ResendSabme(x) \in Entity
  <2>1. x \in Entity
    BY ExpiryType
  <2>. HIDE DEF x
  <2>. QED
    BY <2>1, ExpiryType
<1>3. /\ poll \in Frame /\ Proper(poll, l) /\ disc \in Frame /\ Proper(disc, l)
      /\ sabme \in Frame /\ (l.state = "AwaitingEstablishment" => Proper(sabme, l))
  <2>1. poll \in Frame /\ Proper(poll, l) /\ disc \in Frame /\ Proper(disc, l)
    BY ProperAnswers
  <2>2. sabme \in Frame /\ (l.state = "AwaitingEstablishment" => Proper(sabme, l))
    BY FrameTypes DEF Proper, Carries, IsI, Unnumbered, SetMode
  <2>. QED
    BY <2>1, <2>2
<1>4. ASSUME NEW f \in Frame, Proper(f, l), NEW m \in Entity, m.out = Append(x.out, f), m.timer,
             m.state = x.state, m.va = x.va, m.vs = x.vs, m.vr = x.vr, m.pending = x.pending,
             m.unacked = x.unacked, m.events = x.events, m.held = x.held
      PROVE  Spoke(l, m)
  <2>. HIDE DEF x
  <2>. QED
    BY <1>1, <1>4, SpokeOne
<1>. DEFINE P == PollPeer(x)
            D == ResendDisc(x)
            A == ResendSabme(x)
<1>. HIDE DEF x
<1>5. /\ P.state = x.state /\ P.va = x.va /\ P.vs = x.vs /\ P.vr = x.vr /\ P.pending = x.pending
      /\ P.unacked = x.unacked /\ P.events = x.events /\ P.held = x.held
      /\ P.out = Append(x.out, RR(x.vr, TRUE, "Command")) /\ P.timer
  BY <1>2 DEF PollPeer, Send, StartTimer, Entity
<1>6. /\ D.state = x.state /\ D.va = x.va /\ D.vs = x.vs /\ D.vr = x.vr /\ D.pending = x.pending
      /\ D.unacked = x.unacked /\ D.events = x.events /\ D.held = x.held
      /\ D.out = Append(x.out, disc) /\ D.timer
  BY <1>2 DEF ResendDisc, Send, StartTimer, Entity
<1>7. /\ A.state = x.state /\ A.va = x.va /\ A.vs = x.vs /\ A.vr = x.vr /\ A.pending = x.pending
      /\ A.unacked = x.unacked /\ A.events = x.events /\ A.held = x.held
      /\ A.out = Append(x.out, sabme) /\ A.timer
  BY <1>2 DEF ResendSabme, Send, StartTimer, Entity
<1>8. RR(x.vr, TRUE, "Command") = poll
  BY <1>1
<1>9. P \in Entity /\ D \in Entity /\ A \in Entity
  BY <1>2
<1>. HIDE DEF P, D, A, poll, disc, sabme
<1>10. Spoke(l, P)
  BY <1>3, <1>4, <1>5, <1>8, <1>9
<1>11. Spoke(l, D)
  BY <1>3, <1>4, <1>6, <1>9
<1>12. l.state = "AwaitingEstablishment" => Spoke(l, A)
  BY <1>3, <1>4, <1>7, <1>9
<1>. QED
  BY <1>10, <1>11, <1>12 DEF P, D, A, x

-----------------------------------------------------------------------------
(* pump.                                                                   *)

\* What send_window moves from the queue to the buffer and to the line.
LEMMA SendWindowFields ==
  ASSUME NEW l \in Entity, NEW m, m = SendWindow(l)
  PROVE  /\ m \in Entity /\ m.state = l.state /\ m.va = l.va /\ m.vr = l.vr
         /\ m.events = l.events /\ m.held = l.held /\ Adds(l, m)
         /\ \/ m = l
            \/ \E n \in 1 .. Len(l.pending) :
                 /\ Len(m.pending) = Len(l.pending) - n
                 /\ \A i \in 1 .. Len(m.pending) : m.pending[i] = l.pending[i + n]
                 /\ Len(m.unacked) = Len(l.unacked) + n
                 /\ \A i \in 1 .. Len(l.unacked) : m.unacked[i] = l.unacked[i]
                 /\ \A i \in 1 .. n : m.unacked[Len(l.unacked) + i].info = l.pending[i]
<1>. DEFINE n == Allowed(l)
            fresh == [i \in 1 .. n |-> [ns |-> Plus(l.vs, i - 1), info |-> l.pending[i]]]
            copy(i) == I(fresh[i].ns, l.vr, fresh[i].info)
            copies == [i \in 1 .. n |-> copy(i)]
            rest == SubSeq(l.pending, n + 1, Len(l.pending))
<1>1. n \in 0 .. K /\ n <= Len(l.pending) /\ n \in Nat
  BY FreshFrames
<1>2. fresh \in Seq(Unacked) /\ (\A i \in 1 .. n : fresh[i] \in Unacked)
  BY FreshFrames
<1>3. /\ l.pending \in Seq(Info) /\ l.unacked \in Seq(Unacked) /\ l.out \in Seq(Frame)
      /\ l.vr \in SeqNo /\ Len(l.pending) \in Nat /\ Len(l.unacked) \in Nat
  BY EntityFields, LenProperties
<1>4. /\ Len(fresh) = n /\ \A i \in 1 .. n : fresh[i].info = l.pending[i]
  <2>. HIDE DEF n
  <2>. QED
    BY <1>1
<1>5. m = l \/ m = StartTimer([l EXCEPT !.pending = rest, !.unacked = @ \o fresh,
                                        !.vs = Plus(@, n), !.out = @ \o copies,
                                        !.ack_pending = FALSE])
  BY DEF SendWindow
<1>6. m = l \/ n # 0
  BY DEF SendWindow
<1>. HIDE DEF fresh, n
<1>7. \A i \in 1 .. n : copy(i) \in Frame
  <2>1. ASSUME NEW i \in 1 .. n PROVE copy(i) \in Frame
    <3>1. fresh[i].ns \in SeqNo /\ fresh[i].info \in Info
      BY <1>2 DEF Unacked
    <3>. QED
      BY <1>3, <3>1, FrameTypes
  <2>. QED
    BY <2>1
<1>8. copies \in Seq(Frame) /\ Len(copies) = n /\ \A i \in 1 .. n : copies[i] = copy(i)
  <2>1. copies \in Seq(Frame)
    <3>. HIDE DEF copy
    <3>. QED
      BY <1>1, <1>7, IsASeq
  <2>2. Len(copies) = n /\ \A i \in 1 .. n : copies[i] = copy(i)
    <3>. HIDE DEF copy
    <3>. QED
      BY <1>1
  <2>. QED
    BY <2>1, <2>2
<1>9. /\ Len(rest) = Len(l.pending) - n
      /\ \A i \in 1 .. Len(rest) : rest[i] = l.pending[i + n]
  <2>1. n + 1 \in 1 .. Len(l.pending) + 1 /\ \A i \in n + 1 .. Len(l.pending) : l.pending[i] \in Info
    <3>1. n + 1 \in 1 .. Len(l.pending) + 1
      BY <1>1, <1>3
    <3>2. ASSUME NEW i \in n + 1 .. Len(l.pending) PROVE l.pending[i] \in Info
      <4>1. i \in 1 .. Len(l.pending)
        BY <1>1, <1>3
      <4>. QED
        BY <1>3, <4>1, ElementOfSeq
    <3>. QED
      BY <3>1, <3>2
  <2>2. /\ Len(rest) = IF n + 1 <= Len(l.pending) THEN Len(l.pending) - (n + 1) + 1 ELSE 0
        /\ \A i \in 1 .. Len(l.pending) - (n + 1) + 1 : rest[i] = l.pending[(n + 1) + i - 1]
    BY <1>1, <1>3, <2>1, SubSeqProperties
  <2>. HIDE DEF rest
  <2>3. Len(rest) = Len(l.pending) - n
    BY <1>1, <1>3, <2>2
  <2>4. ASSUME NEW i \in 1 .. Len(rest) PROVE rest[i] = l.pending[i + n]
    <3>1. i \in 1 .. Len(l.pending) - (n + 1) + 1 /\ (n + 1) + i - 1 = i + n
      BY <1>1, <1>3, <2>3
    <3>. QED
      BY <2>2, <3>1
  <2>. QED
    BY <2>3, <2>4
<1>10. /\ Len(l.unacked \o fresh) = Len(l.unacked) + n
       /\ \A i \in 1 .. Len(l.unacked) : (l.unacked \o fresh)[i] = l.unacked[i]
       /\ \A i \in 1 .. n : (l.unacked \o fresh)[Len(l.unacked) + i] = fresh[i]
  <2>1. /\ Len(l.unacked \o fresh) = Len(l.unacked) + Len(fresh)
        /\ \A i \in 1 .. Len(l.unacked) + Len(fresh) :
             (l.unacked \o fresh)[i] = IF i <= Len(l.unacked) THEN l.unacked[i]
                                                              ELSE fresh[i - Len(l.unacked)]
    BY <1>2, <1>3, ConcatProperties
  <2>. DEFINE u == l.unacked \o fresh
  <2>2. /\ Len(u) = Len(l.unacked) + n
        /\ \A i \in 1 .. Len(l.unacked) + n :
             u[i] = IF i <= Len(l.unacked) THEN l.unacked[i] ELSE fresh[i - Len(l.unacked)]
    BY <1>4, <2>1
  <2>. HIDE DEF u
  <2>3. \A i \in 1 .. Len(l.unacked) : u[i] = l.unacked[i]
    BY <1>1, <1>3, <2>2
  <2>4. ASSUME NEW i \in 1 .. n PROVE u[Len(l.unacked) + i] = fresh[i]
    <3>1. /\ Len(l.unacked) + i \in 1 .. Len(l.unacked) + n /\ ~ (Len(l.unacked) + i <= Len(l.unacked))
          /\ (Len(l.unacked) + i) - Len(l.unacked) = i
      BY <1>1, <1>3
    <3>. QED
      BY <2>2, <3>1
  <2>5. Len(u) = Len(l.unacked) + n
    BY <2>2
  <2>. QED
    BY <2>3, <2>4, <2>5 DEF u
<1>11. m \in Entity
  BY SendWindowType
<1>12. CASE m = l
  BY <1>11, <1>12, AddsNothing
<1>13. CASE /\ n # 0
            /\ m = StartTimer([l EXCEPT !.pending = rest, !.unacked = @ \o fresh,
                                        !.vs = Plus(@, n), !.out = @ \o copies,
                                        !.ack_pending = FALSE])
  <2>1. /\ m.state = l.state /\ m.va = l.va /\ m.vr = l.vr
        /\ m.events = l.events /\ m.held = l.held
        /\ m.pending = rest /\ m.unacked = l.unacked \o fresh /\ m.out = l.out \o copies
    <3>. HIDE DEF copies, rest
    <3>. QED
      BY <1>13 DEF StartTimer, Entity
  <2>. HIDE DEF rest
  <2>2. ASSUME NEW i \in 1 .. Len(copies) PROVE Proper(copies[i], m)
    <3>1. i \in 1 .. n /\ copies[i] = copy(i)
      BY <1>8
    <3>2. Len(l.unacked) + i \in 1 .. Len(m.unacked)
      BY <1>1, <1>3, <1>10, <2>1, <3>1
    <3>3. m.unacked[Len(l.unacked) + i] = fresh[i]
      BY <1>10, <2>1, <3>1
    <3>4. copy(i).type = "I" /\ copy(i).nr = l.vr /\ copy(i).ns = fresh[i].ns /\ copy(i).info = fresh[i].info
      BY DEF I
    <3>. HIDE DEF copies, copy
    <3>5. \E k \in 1 .. Len(m.unacked) : copy(i).ns = m.unacked[k].ns /\ copy(i).info = m.unacked[k].info
      BY <3>2, <3>3, <3>4
    <3>6. copy(i).type # "SABME" /\ copy(i).nr = m.vr
      BY <2>1, <3>4
    <3>7. Proper(copy(i), m)
      BY <3>5, <3>6 DEF Proper
    <3>. QED
      BY <3>1, <3>7
  <2>3. Adds(l, m)
    <3>. HIDE DEF copies
    <3>. QED
      BY <1>8, <2>1, <2>2 DEF Adds
  <2>4. n \in 1 .. Len(l.pending)
    BY <1>1, <1>3, <1>13
  <2>5. \A i \in 1 .. n : m.unacked[Len(l.unacked) + i].info = l.pending[i]
    BY <1>4, <1>10, <2>1
  <2>. QED
    BY <1>9, <1>10, <1>11, <2>1, <2>3, <2>4, <2>5
<1>. QED
  BY <1>5, <1>6, <1>12, <1>13

\* The window moves on: what was pending is now kept as sent.
LEMMA SendWindowOffered ==
  ASSUME NEW a \in Nat, NEW l \in Entity, Sound(l), Queued(a, l), l.state = "Connected", NEW s,
         NEW m, m = SendWindow(l)
  PROVE  Offered(a, l, a, m, s, s)
<1>. DEFINE S == Sent(a, l)
            G == Gone(a, l)
            p == Len(l.pending)
            u == Len(l.unacked)
<1>1. /\ m \in Entity /\ m.state = l.state /\ m.va = l.va /\ Adds(l, m)
  BY SendWindowFields
<1>2. Sound(m)
  BY SendWindowSound
<1>3. /\ p \in Nat /\ u \in Nat /\ S \in Nat /\ G \in Nat /\ l.va \in SeqNo
      /\ G <= S /\ S - G = u /\ a = S + p
  BY Sizes
<1>4. \E n \in 0 .. p :
        /\ Len(m.pending) = p - n
        /\ \A i \in 1 .. Len(m.pending) : m.pending[i] = l.pending[i + n]
        /\ Len(m.unacked) = u + n
        /\ \A i \in 1 .. u : m.unacked[i] = l.unacked[i]
        /\ \A i \in 1 .. n : m.unacked[u + i].info = l.pending[i]
  <2>1. CASE m = l
    <3>1. 0 \in 0 .. p /\ p - 0 = p /\ u + 0 = u /\ \A i \in 1 .. p : i + 0 = i
      BY <1>3
    <3>. QED
      BY <2>1, <3>1
  <2>2. CASE m # l
    <3>1. 1 .. p \subseteq 0 .. p
      BY <1>3
    <3>. QED
      BY <2>2, <3>1, SendWindowFields
  <2>. QED
    BY <2>1, <2>2
<1>5. PICK n \in 0 .. p :
        /\ Len(m.pending) = p - n
        /\ \A i \in 1 .. Len(m.pending) : m.pending[i] = l.pending[i + n]
        /\ Len(m.unacked) = u + n
        /\ \A i \in 1 .. u : m.unacked[i] = l.unacked[i]
        /\ \A i \in 1 .. n : m.unacked[u + i].info = l.pending[i]
  BY <1>4
<1>6. /\ \A i \in 1 .. u : l.unacked[i].info = G + i
      /\ \A i \in 1 .. p : l.pending[i] = S + i
  BY DEF Queued
<1>7. Sent(a, m) = a - (p - n) /\ Gone(a, m) = a - (p - n) - (u + n)
  BY <1>5 DEF Sent, Gone
<1>. HIDE DEF S, G, p, u
<1>8. Sent(a, m) = S + n /\ Gone(a, m) = G
  BY <1>3, <1>5, <1>7
<1>9. Queued(a, m)
  <2>1. ASSUME NEW i \in 1 .. Len(m.unacked) PROVE m.unacked[i].info = G + i
    <3>1. CASE i \in 1 .. u
      BY <1>5, <1>6, <3>1
    <3>2. CASE i \notin 1 .. u
      <4>1. i - u \in 1 .. n /\ i - u \in 1 .. p /\ u + (i - u) = i /\ S + (i - u) = G + i
        BY <1>3, <1>5, <3>2
      <4>2. m.unacked[u + (i - u)].info = l.pending[i - u]
        BY <1>5, <4>1
      <4>. QED
        BY <1>6, <4>1, <4>2
    <3>. QED
      BY <3>1, <3>2
  <2>2. ASSUME NEW i \in 1 .. Len(m.pending) PROVE m.pending[i] = (S + n) + i
    <3>1. i + n \in 1 .. p /\ S + (i + n) = (S + n) + i
      BY <1>3, <1>5
    <3>. QED
      BY <1>5, <1>6, <3>1
  <2>3. 0 <= G
    BY <1>3
  <2>. QED
    BY <1>8, <2>1, <2>2, <2>3 DEF Queued
<1>10. Moves(S, G, l.va, Sent(a, m), Gone(a, m), m.va)
  <2>1. Plus(l.va, G - G) = l.va
    BY <1>3, LapmParams DEF Plus, SeqNo
  <2>2. S + n \in Nat /\ S <= S + n /\ G <= S + n
    BY <1>3
  <2>3. Moves(S, G, l.va, S + n, G, l.va)
    BY <1>3, <2>1, <2>2 DEF Moves
  <2>. QED
    BY <1>1, <1>8, <2>3
<1>. QED
  BY <1>1, <1>2, <1>8, <1>9, <1>10 DEF Offered, S, G

\* So pump keeps both ways of the link.
LEMMA WayPump ==
  ASSUME NEW a, NEW l, NEW w, NEW m, NEW v, NEW s, OneWay(a, l, w, m, v, s)
  PROVE  OneWay(a, Pump(l), w, m, v, s) /\ OneWay(a, l, w, Pump(m), v, s)
<1>1. a \in Nat /\ l \in Entity /\ m \in Entity /\ Sound(l) /\ Queued(a, l) /\ m.held = NoneHeld
  BY DEF OneWay
<1>2. OneWay(a, Pump(l), w, m, v, s)
  <2>. DEFINE k == SendWindow(l)
  <2>1. CASE l.state = "Connected"
    <3>1. k \in Entity /\ Offered(a, l, a, k, s, s)
      BY <1>1, <2>1, SendWindowFields, SendWindowOffered
    <3>. HIDE DEF k
    <3>2. OneWay(a, k, w, m, v, s)
      BY <3>1, WayOffered
    <3>3. OneWay(a, SendAck(k), w, m, v, s)
      BY <3>1, <3>2, SendAckSpoke, WaySpoke
    <3>. QED
      BY <2>1, <3>3 DEF Pump, k
  <2>2. CASE l.state # "Connected"
    BY <2>2 DEF Pump
  <2>. QED
    BY <2>1, <2>2
<1>3. OneWay(a, l, w, Pump(m), v, s)
  <2>. DEFINE k == SendWindow(m)
  <2>1. CASE m.state = "Connected"
    <3>1. k \in Entity /\ Answered(m, k)
      BY <1>1, SendWindowFields DEF Answered
    <3>. HIDE DEF k
    <3>2. OneWay(a, l, w, k, v, s)
      BY <3>1, WayAnswered
    <3>3. OneWay(a, l, w, SendAck(k), v, s)
      BY <3>1, <3>2, SendAckSpoke, WaySpoke
    <3>. QED
      BY <2>1, <3>3 DEF Pump, k
  <2>2. CASE m.state # "Connected"
    BY <2>2 DEF Pump
  <2>. QED
    BY <2>1, <2>2
<1>. QED
  BY <1>2, <1>3

-----------------------------------------------------------------------------
(* Both ways, and an entity that starts afresh.                            *)

Both(a, l, w, s, b, m, v, t) == OneWay(a, l, w, m, v, s) /\ OneWay(b, m, v, l, w, t)

\* Being told of a release or a reset loosens what is required.
LEMMA BothUnsettled ==
  ASSUME NEW a, NEW l, NEW w, NEW s, NEW b, NEW m, NEW v, NEW t, Both(a, l, w, s, b, m, v, t),
         NEW s2, s2 => s
  PROVE  Both(a, l, w, s2, b, m, v, t)
BY Unsettled DEF Both

\* Both directions survive an end that only speaks.
LEMMA BothSpoke ==
  ASSUME NEW a, NEW l, NEW w, NEW s, NEW b, NEW m, NEW v, NEW t, Both(a, l, w, s, b, m, v, t),
         NEW l2, Spoke(l, l2)
  PROVE  Both(a, l2, w, s, b, m, v, t)
BY WaySpoke DEF Both

\* Nothing was sent and nothing taken: the sequence numbers are where a reset
\* puts them.
LEMMA AtZero ==
  ASSUME NEW a, NEW l, NEW w, NEW s, NEW b, NEW m, NEW v, NEW t, Both(a, l, w, s, b, m, v, t)
  PROVE  /\ Given(l.events) = <<>> => l.vr = 0
         /\ s /\ l.state # "Connected" => l.va = 0 /\ l.unacked = <<>>
<1>1. ASSUME Given(l.events) = <<>> PROVE l.vr = 0
  <2>1. Newest(l) = 0
    BY <1>1 DEF Newest
  <2>2. OneWay(b, m, v, l, w, t)
    BY DEF Both
  <2>. QED
    BY <2>1, <2>2 DEF OneWay, Order
<1>2. ASSUME s, l.state # "Connected" PROVE l.va = 0 /\ l.unacked = <<>>
  <2>1. OneWay(a, l, w, m, v, s)
    BY DEF Both
  <2>2. a \in Nat /\ l \in Entity /\ Sound(l) /\ Queued(a, l) /\ m \in Entity
    BY <2>1 DEF OneWay
  <2>3. Unbroken(a, l, m, v) /\ Order(Sent(a, l), Gone(a, l), l.va, w \o l.out, Newest(m), m.vr)
    BY <1>2, <2>1 DEF OneWay
  <2>4. Len(l.pending) = a
    BY <1>2, <2>3 DEF Unbroken
  <2>5. l.unacked = <<>> /\ Gone(a, l) = Sent(a, l) /\ Sent(a, l) = 0 /\ l.va \in SeqNo
    BY <1>2, <2>2, <2>4, Sizes DEF Sent
  <2>6. Newest(m) \in Nat /\ Newest(m) <= Sent(a, l) /\ (Newest(m) = 0 => m.vr = 0)
    BY <2>2, <2>3, NewestType DEF Order
  <2>7. Newest(m) = 0 /\ m.vr = 0
    BY <2>5, <2>6
  <2>8. m.vr = Plus(l.va, Newest(m) - Gone(a, l))
    BY <2>3 DEF Unbroken, Tally
  <2>9. Newest(m) - Gone(a, l) = 0
    BY <2>5, <2>7
  <2>10. 0 = Plus(l.va, 0)
    BY <2>7, <2>8, <2>9
  <2>. QED
    BY <2>5, <2>10, LapmParams DEF Plus, SeqNo
<1>. QED
  BY <1>1, <1>2

\* What the user has been told, and stays told.
Hears(l, type) == \E i \in 1 .. Len(l.events) : l.events[i].type = type

\* Nothing l's user was told is taken back.
Remembers(l, l2) == \A type : Hears(l, type) => Hears(l2, type)

\* One more event is remembered, and nothing else is forgotten.
LEMMA HearsMore ==
  ASSUME NEW l \in Entity, NEW event \in Event, NEW l2, l2.events = Append(l.events, event)
  PROVE  /\ Remembers(l, l2) /\ Hears(l2, event.type)
         /\ event.type # "Data" => Given(l2.events) = Given(l.events)
<1>1. l.events \in Seq(Event)
  BY EntityFields
<1>2. /\ Len(l2.events) = Len(l.events) + 1 /\ Len(l.events) \in Nat
      /\ \A i \in 1 .. Len(l.events) : l2.events[i] = l.events[i]
      /\ l2.events[Len(l.events) + 1] = event
  BY <1>1, AppendProperties, LenProperties
<1>3. /\ Len(l.events) + 1 \in 1 .. Len(l2.events)
      /\ \A i \in 1 .. Len(l.events) : i \in 1 .. Len(l2.events)
  BY <1>2
<1>4. event.type # "Data" => Given(l2.events) = Given(l.events)
  BY <1>1, GivenAppend
<1>. QED
  BY <1>2, <1>3, <1>4 DEF Remembers, Hears

\* l2 keeps none of the frames l sent, and what is pending or nothing.
Afresh(l, l2, s, s2) ==
  /\ l2 \in Entity /\ Sound(l2) /\ l2.unacked = <<>> /\ Adds(l, l2)
  /\ l2.pending = l.pending \/ l2.pending = <<>>
  /\ l2.held = NoneHeld /\ l2.vr = l.vr
  /\ Given(l2.events) = Given(l.events) /\ Remembers(l, l2)
  /\ s2 => /\ s /\ l.unacked = <<>> /\ l2.va = l.va /\ l2.pending = l.pending
           /\ l2.state # "Connected" => l.state # "Connected"

\* Both directions survive an end that starts afresh.
LEMMA BothAfresh ==
  ASSUME NEW a, NEW l, NEW w, NEW s, NEW b, NEW m, NEW v, NEW t, Both(a, l, w, s, b, m, v, t),
         NEW l2, NEW s2, Afresh(l, l2, s, s2)
  PROVE  Both(a, l2, w, s2, b, m, v, t)
<1>1. OneWay(a, l, w, m, v, s) /\ OneWay(b, m, v, l, w, t)
  BY DEF Both
<1>2. a \in Nat /\ l \in Entity /\ Sound(l) /\ Queued(a, l)
  BY <1>1 DEF OneWay
<1>3. /\ l2 \in Entity /\ Sound(l2) /\ l2.unacked = <<>> /\ l2.va \in SeqNo /\ Adds(l, l2)
      /\ l2.pending = l.pending \/ l2.pending = <<>>
  BY EntityFields DEF Afresh
<1>. DEFINE S == Sent(a, l)
            G == Gone(a, l)
            S2 == Sent(a, l2)
            G2 == Gone(a, l2)
<1>4. S \in Nat /\ G \in Nat /\ S <= a /\ (l.unacked = <<>> => G = S)
  BY <1>2, Sizes
<1>5. Len(l2.unacked) = 0
  BY <1>3
<1>6. S2 \in Nat /\ S <= S2 /\ G2 = S2 /\ (l2.pending = l.pending => S2 = S)
  <2>1. l2.pending = l.pending => S2 = S
    BY DEF Sent
  <2>2. l2.pending = <<>> => S2 = a - 0
    BY DEF Sent
  <2>3. G2 = S2 - 0
    BY <1>5 DEF Gone
  <2>. HIDE DEF S, S2, G2
  <2>4. S2 = S \/ S2 = a - 0
    BY <1>3, <2>1, <2>2
  <2>. QED
    BY <1>2, <1>4, <2>1, <2>3, <2>4
<1>7. Queued(a, l2)
  <2>1. ASSUME NEW i \in 1 .. Len(l2.pending) PROVE l2.pending[i] = S2 + i
    <3>1. CASE l2.pending = <<>>
      <4>1. Len(l2.pending) = 0
        BY <3>1
      <4>. QED
        BY <4>1
    <3>2. CASE l2.pending = l.pending
      <4>1. l.pending[i] = S + i
        BY <1>2, <3>2 DEF Queued
      <4>2. S2 = S
        BY <1>6, <3>2
      <4>. HIDE DEF S, S2
      <4>. QED
        BY <3>2, <4>1, <4>2
    <3>. QED
      BY <1>3, <3>1, <3>2
  <2>2. 0 <= G2
    <3>. HIDE DEF G2, S2
    <3>. QED
      BY <1>6
  <2>3. 1 .. Len(l2.unacked) = {}
    BY <1>5
  <2>. QED
    BY <2>1, <2>2, <2>3 DEF Queued
<1>8. Moves(S, G, l.va, S2, G2, l2.va)
  <2>. HIDE DEF S, G, S2, G2
  <2>. QED
    BY <1>3, <1>4, <1>6 DEF Moves
<1>9. s2 => /\ s /\ l2.va = l.va /\ G2 = G
            /\ l2.state # "Connected" => Len(l2.pending) = a
  <2>1. SUFFICES ASSUME s2 PROVE /\ s /\ l2.va = l.va /\ G2 = G
                                 /\ l2.state # "Connected" => Len(l2.pending) = a
    OBVIOUS
  <2>2. /\ s /\ l.unacked = <<>> /\ l2.va = l.va /\ l2.pending = l.pending
        /\ l2.state # "Connected" => l.state # "Connected"
    BY <2>1 DEF Afresh
  <2>3. l.state # "Connected" => Len(l.pending) = a
    BY <1>1, <2>2 DEF OneWay, Unbroken
  <2>4. G2 = G
    <3>. HIDE DEF S, G, S2, G2
    <3>. QED
      BY <1>4, <1>6, <2>2
  <2>. QED
    BY <2>2, <2>3, <2>4
<1>10. Offered(a, l, a, l2, s, s2)
  BY <1>2, <1>3, <1>7, <1>8, <1>9 DEF Offered
<1>11. Answered(l, l2)
  BY DEF Afresh, Answered
<1>. QED
  BY <1>1, <1>10, <1>11, WayOffered, WayAnswered DEF Both

-----------------------------------------------------------------------------
(* enter_disconnected, disconnect, establish, connect and on_sabme.        *)

LEMMA AfreshDisconnected ==
  ASSUME NEW a, NEW l, NEW w, NEW s, NEW b, NEW m, NEW v, NEW t, Both(a, l, w, s, b, m, v, t),
         NEW cause \in Cause
  PROVE  Afresh(l, EnterDisconnected(l, cause), s, FALSE)
<1>. DEFINE l2 == EnterDisconnected(l, cause)
<1>1. l \in Entity /\ l.held = NoneHeld /\ l.events \in Seq(Event)
  BY EntityFields DEF Both, OneWay
<1>2. /\ l2.unacked = <<>> /\ l2.pending = <<>> /\ l2.out = l.out /\ l2.vr = l.vr
      /\ l2.held = l.held /\ l2.events = Append(l.events, Released(cause))
  BY <1>1 DEF EnterDisconnected, Tell, StopTimer, Entity
<1>3. l2 \in Entity /\ Sound(l2)
  BY <1>1, EnterDisconnectedType, EnterDisconnectedSound
<1>4. Given(l2.events) = Given(l.events) /\ Remembers(l, l2)
  <2>1. Released(cause) \in Event /\ Released(cause).type # "Data"
    BY EventTypes DEF Released
  <2>. QED
    BY <1>1, <1>2, <2>1, HearsMore
<1>. HIDE DEF l2
<1>5. Afresh(l, l2, s, FALSE)
  BY <1>1, <1>2, <1>3, <1>4, AddsNothing DEF Afresh
<1>. QED
  BY <1>5 DEF l2

\* disconnect starts afresh.
LEMMA AfreshDisconnect ==
  ASSUME NEW a, NEW l, NEW w, NEW s, NEW b, NEW m, NEW v, NEW t, Both(a, l, w, s, b, m, v, t)
  PROVE  Afresh(l, Disconnect(l), s, FALSE)
<1>. DEFINE l2 == Disconnect(l)
            f == Unnumbered("DISC", TRUE)
<1>1. l \in Entity /\ l.held = NoneHeld
  BY DEF Both, OneWay
<1>2. /\ l2.unacked = <<>> /\ l2.pending = <<>> /\ l2.out = Append(l.out, f) /\ l2.vr = l.vr
      /\ l2.held = l.held /\ l2.events = l.events
  BY <1>1 DEF Disconnect, Send, StartTimer, Entity
<1>3. l2 \in Entity /\ Sound(l2)
  BY <1>1, DisconnectType, DisconnectSound
<1>. HIDE DEF l2
<1>4. f \in Frame /\ Proper(f, l2)
  BY <1>3, ProperAnswers
<1>. HIDE DEF f
<1>5. Afresh(l, l2, s, FALSE)
  BY <1>1, <1>2, <1>3, <1>4, AddsOne DEF Afresh, Remembers, Hears
<1>. QED
  BY <1>5 DEF l2

\* So does establish, before anything was delivered.
LEMMA AfreshEstablish ==
  ASSUME NEW a, NEW l, NEW w, NEW s, NEW b, NEW m, NEW v, NEW t, Both(a, l, w, s, b, m, v, t),
         l.state = "AwaitingEstablishment", Given(l.events) = <<>>
  PROVE  Afresh(l, Establish(l), s, s)
<1>. DEFINE l2 == Establish(l)
<1>1. l \in Entity /\ l.held = NoneHeld /\ l.events \in Seq(Event) /\ Sound(l)
  BY EntityFields DEF Both, OneWay
<1>2. l.unacked = <<>>
  BY DEF Both, OneWay, Sound, WindowOf
<1>3. /\ l2.unacked = l.unacked /\ l2.pending = l.pending /\ l2.out = l.out /\ l2.vr = 0
      /\ l2.va = 0 /\ l2.state = "Connected"
      /\ l2.held = l.held /\ l2.events = Append(l.events, Report("Connected"))
  BY <1>1 DEF Establish, Tell, StopTimer, Entity
<1>4. l2 \in Entity /\ Sound(l2)
  BY <1>1, <1>2, EstablishType, EstablishSound
<1>5. Given(l2.events) = Given(l.events) /\ Remembers(l, l2)
  <2>1. Report("Connected") \in Event /\ Report("Connected").type # "Data"
    BY EventTypes DEF Report
  <2>. QED
    BY <1>1, <1>3, <2>1, HearsMore
<1>6. l.vr = 0 /\ (s => l.va = 0)
  BY AtZero
<1>. HIDE DEF l2
<1>7. Afresh(l, l2, s, s)
  BY <1>1, <1>2, <1>3, <1>4, <1>5, <1>6, AddsNothing DEF Afresh
<1>. QED
  BY <1>7 DEF l2

\* So does connect.
LEMMA AfreshConnect ==
  ASSUME NEW a, NEW l, NEW w, NEW s, NEW b, NEW m, NEW v, NEW t, Both(a, l, w, s, b, m, v, t),
         l.state # "Connected", Given(l.events) = <<>>
  PROVE  Afresh(l, Connect(l), s, s)
<1>. DEFINE l2 == Connect(l)
            f == Unnumbered("SABME", TRUE)
<1>1. l \in Entity /\ l.held = NoneHeld /\ Sound(l)
  BY DEF Both, OneWay
<1>2. l.unacked = <<>>
  BY DEF Both, OneWay, Sound, WindowOf
<1>3. /\ l2.unacked = <<>> /\ l2.pending = l.pending /\ l2.out = Append(l.out, f) /\ l2.vr = 0
      /\ l2.va = 0 /\ l2.state = "AwaitingEstablishment"
      /\ l2.held = NoneHeld /\ l2.events = l.events
  BY <1>1 DEF Connect, Send, ResetVariables, StartTimer, Entity
<1>4. l2 \in Entity /\ Sound(l2)
  BY <1>1, ConnectType, ConnectSound
<1>5. l.vr = 0 /\ (s => l.va = 0)
  BY AtZero
<1>. HIDE DEF l2
<1>6. f \in Frame /\ Proper(f, l2)
  BY <1>3, FrameTypes DEF Proper, Carries, IsI, Unnumbered, SetMode
<1>. HIDE DEF f
<1>7. Afresh(l, l2, s, s)
  BY <1>1, <1>2, <1>3, <1>4, <1>5, <1>6, AddsOne DEF Afresh, Remembers, Hears
<1>. QED
  BY <1>7 DEF l2

\* So does hearing a SABME.
LEMMA AfreshSabme ==
  ASSUME NEW a, NEW l, NEW w, NEW s, NEW b, NEW m, NEW v, NEW t, Both(a, l, w, s, b, m, v, t),
         NEW frame \in Frame, frame.type = "SABME", Given(l.events) = <<>>,
         NEW s2, s2 => s /\ l.state # "Connected"
  PROVE  Afresh(l, OnSabme(l, frame), s, s2)
<1>. DEFINE l2 == OnSabme(l, frame)
            f == Unnumbered("UA", frame.pf)
            event == Report(IF l.state = "Connected" THEN "Reset" ELSE "Connected")
<1>1. l \in Entity /\ l.events \in Seq(Event)
  BY EntityFields DEF Both, OneWay
<1>2. /\ l2.unacked = <<>> /\ l2.pending = l.pending /\ l2.out = Append(l.out, f) /\ l2.vr = 0
      /\ l2.va = 0 /\ l2.state = "Connected"
      /\ l2.held = NoneHeld /\ l2.events = Append(l.events, event)
  BY <1>1 DEF OnSabme, Tell, Send, ResetVariables, StopTimer, Entity
<1>3. l2 \in Entity /\ Sound(l2)
  BY <1>1, OnSabmeType, OnSabmeSound
<1>4. Given(l2.events) = Given(l.events) /\ Remembers(l, l2)
  <2>1. event \in Event /\ event.type # "Data"
    BY EventTypes DEF Report
  <2>. QED
    BY <1>1, <1>2, <2>1, HearsMore
<1>5. l.vr = 0 /\ (s /\ l.state # "Connected" => l.va = 0 /\ l.unacked = <<>>)
  BY AtZero
<1>6. frame.pf \in BOOLEAN
  BY FrameFields DEF SetMode
<1>. HIDE DEF l2
<1>7. f \in Frame /\ Proper(f, l2)
  BY <1>3, <1>6, ProperAnswers
<1>. HIDE DEF f, event
<1>8. Afresh(l, l2, s, s2)
  BY <1>1, <1>2, <1>3, <1>4, <1>5, <1>7, AddsOne DEF Afresh, Remembers, Hears
<1>. QED
  BY <1>8 DEF l2

\* Whoever is told of a release or a reset has heard it.
LEMMA DisconnectedHears ==
  ASSUME NEW l \in Entity, NEW cause \in Cause
  PROVE  /\ EnterDisconnected(l, cause).state = "Disconnected"
         /\ Hears(EnterDisconnected(l, cause), "Released")
<1>. DEFINE l2 == EnterDisconnected(l, cause)
<1>1. l2.state = "Disconnected" /\ l2.events = Append(l.events, Released(cause))
  BY DEF EnterDisconnected, Tell, StopTimer, Entity
<1>2. Released(cause) \in Event /\ Released(cause).type = "Released"
  BY EventTypes DEF Released
<1>. HIDE DEF l2
<1>3. Hears(l2, "Released")
  BY <1>1, <1>2, HearsMore
<1>. QED
  BY <1>1, <1>3 DEF l2

\* Who hears a SABME is connected, and a connected one is told of a reset.
LEMMA SabmeHears ==
  ASSUME NEW l \in Entity, NEW frame
  PROVE  /\ OnSabme(l, frame).state = "Connected"
         /\ l.state = "Connected" => Hears(OnSabme(l, frame), "Reset")
<1>. DEFINE l2 == OnSabme(l, frame)
<1>1. /\ l2.state = "Connected"
      /\ l.state = "Connected" => l2.events = Append(l.events, Report("Reset"))
  BY DEF OnSabme, Tell, Send, ResetVariables, StopTimer, Entity
<1>2. Report("Reset") \in Event /\ Report("Reset").type = "Reset"
  BY EventTypes DEF Report
<1>. HIDE DEF l2
<1>3. l.state = "Connected" => Hears(l2, "Reset")
  BY <1>1, <1>2, HearsMore
<1>. QED
  BY <1>1, <1>3 DEF l2

-----------------------------------------------------------------------------
(* How the link opens: o is the originator, with p on its line, and x the  *)
(* answerer, with q on its line; g: begin_protocol has run.                *)

\* Only the originator asks for the link, once, and data does not move
\* before the last of its SABMEs has been heard or lost.
Opening(g, o, p, x, q) ==
  /\ x.state # "AwaitingEstablishment"
  /\ \A i \in 1 .. Len(q \o x.out) : (q \o x.out)[i].type # "SABME"
  /\ ~ g => o.state = "Disconnected"
  /\ ~ g \/ o.state = "AwaitingEstablishment" =>
       /\ \A i \in 1 .. Len(p \o o.out) : ~ IsI((p \o o.out)[i])
       /\ Given(x.events) = <<>> /\ Given(o.events) = <<>>
  /\ \A i \in 1 .. Len(p \o o.out) : (p \o o.out)[i].type = "SABME" =>
       /\ \A j \in 1 .. Len(p \o o.out) : j < i => ~ IsI((p \o o.out)[j])
       /\ Given(x.events) = <<>>

\* Frames of an entity that is not connected are not I frames.
LEMMA NoData ==
  ASSUME NEW l \in Entity, Sound(l), l.state # "Connected", NEW f, Proper(f, l)
  PROVE  ~ IsI(f)
<1>1. l.unacked = <<>>
  BY DEF Sound, WindowOf
<1>2. Len(l.unacked) = 0
  BY <1>1
<1>. QED
  BY <1>2 DEF Proper

\* A stream and what is added to it.
LEMMA StreamAdds ==
  ASSUME NEW p \in Seq(Frame), NEW o \in Entity, NEW o2, Adds(o, o2)
  PROVE  \E ext \in Seq(Frame) :
           /\ \A i \in 1 .. Len(ext) : Proper(ext[i], o2)
           /\ Len(p \o o2.out) = Len(p \o o.out) + Len(ext)
           /\ Len(p \o o.out) \in Nat /\ Len(ext) \in Nat
           /\ \A i \in 1 .. Len(p \o o2.out) :
                \/ i \in 1 .. Len(p \o o.out) /\ (p \o o2.out)[i] = (p \o o.out)[i]
                \/ i > Len(p \o o.out) /\ Proper((p \o o2.out)[i], o2)
<1>1. PICK ext \in Seq(Frame) : o2.out = o.out \o ext /\ \A i \in 1 .. Len(ext) : Proper(ext[i], o2)
  BY DEF Adds
<1>2. o.out \in Seq(Frame)
  BY EntityFields
<1>3. p \o o.out \in Seq(Frame)
  BY <1>2, ConcatProperties
<1>. DEFINE r == p \o o.out
            r2 == p \o o2.out
<1>4. r2 = r \o ext
  <2>1. p \o (o.out \o ext) = (p \o o.out) \o ext
    BY <1>2, Streams
  <2>. QED
    BY <1>1, <2>1
<1>. HIDE DEF r, r2
<1>5. /\ Len(r2) = Len(r) + Len(ext) /\ Len(r) \in Nat /\ Len(ext) \in Nat
      /\ \A i \in 1 .. Len(r) + Len(ext) : r2[i] = IF i <= Len(r) THEN r[i] ELSE ext[i - Len(r)]
  BY <1>3, <1>4, ConcatProperties, LenProperties DEF r
<1>6. ASSUME NEW i \in 1 .. Len(r2)
      PROVE  \/ i \in 1 .. Len(r) /\ r2[i] = r[i]
             \/ i > Len(r) /\ Proper(r2[i], o2)
  <2>1. CASE i <= Len(r)
    BY <1>5, <2>1
  <2>2. CASE ~ (i <= Len(r))
    <3>1. i - Len(r) \in 1 .. Len(ext) /\ r2[i] = ext[i - Len(r)] /\ i > Len(r)
      BY <1>5, <2>2
    <3>. QED
      BY <1>1, <3>1
  <2>. QED
    BY <2>1, <2>2
<1>. QED
  BY <1>1, <1>5, <1>6 DEF r, r2

\* The originator acts.
LEMMA OpeningOriginator ==
  ASSUME NEW g, NEW o \in Entity, NEW p \in Seq(Frame), NEW x, NEW q, Opening(g, o, p, x, q),
         NEW g2, NEW o2 \in Entity, Sound(o2), Adds(o, o2),
         ~ g2 => ~ g /\ o2.state = "Disconnected",
         ~ g2 \/ o2.state = "AwaitingEstablishment" =>
           /\ ~ g \/ o.state = "AwaitingEstablishment"
           /\ Given(o2.events) = Given(o.events)
  PROVE  Opening(g2, o2, p, x, q)
<1>. DEFINE r == p \o o.out
            r2 == p \o o2.out
<1>1. PICK ext \in Seq(Frame) :
           /\ \A i \in 1 .. Len(ext) : Proper(ext[i], o2)
           /\ Len(r2) = Len(r) + Len(ext)
           /\ Len(r) \in Nat /\ Len(ext) \in Nat
           /\ \A i \in 1 .. Len(r2) : \/ i \in 1 .. Len(r) /\ r2[i] = r[i]
                                      \/ i > Len(r) /\ Proper(r2[i], o2)
  BY StreamAdds
<1>2. ASSUME ~ g2 \/ o2.state = "AwaitingEstablishment"
      PROVE  /\ \A i \in 1 .. Len(r2) : ~ IsI(r2[i])
             /\ Given(x.events) = <<>> /\ Given(o2.events) = <<>>
  <2>1. o2.state # "Connected"
    BY <1>2
  <2>2. /\ \A i \in 1 .. Len(r) : ~ IsI(r[i])
        /\ Given(x.events) = <<>> /\ Given(o.events) = <<>>
    BY <1>2 DEF Opening
  <2>. HIDE DEF r, r2
  <2>3. ASSUME NEW i \in 1 .. Len(r2) PROVE ~ IsI(r2[i])
    <3>1. CASE i \in 1 .. Len(r) /\ r2[i] = r[i]
      BY <2>2, <3>1
    <3>2. CASE Proper(r2[i], o2)
      BY <2>1, <3>2, NoData
    <3>. QED
      BY <1>1, <3>1, <3>2
  <2>. QED
    BY <1>2, <2>2, <2>3
<1>3. ASSUME NEW i \in 1 .. Len(r2), r2[i].type = "SABME"
      PROVE  /\ \A j \in 1 .. Len(r2) : j < i => ~ IsI(r2[j])
             /\ Given(x.events) = <<>>
  <2>1. CASE i \in 1 .. Len(r) /\ r2[i] = r[i]
    <3>1. (\A j \in 1 .. Len(r) : j < i => ~ IsI(r[j])) /\ Given(x.events) = <<>>
      BY <1>3, <2>1 DEF Opening
    <3>. HIDE DEF r, r2
    <3>2. ASSUME NEW j \in 1 .. Len(r2), j < i PROVE ~ IsI(r2[j])
      <4>1. j \in 1 .. Len(r) /\ r2[j] = r[j]
        BY <1>1, <2>1, <3>2
      <4>. QED
        BY <3>1, <3>2, <4>1
    <3>. QED
      BY <3>1, <3>2
  <2>2. CASE Proper(r2[i], o2)
    <3>1. o2.state = "AwaitingEstablishment"
      BY <1>3, <2>2 DEF Proper
    <3>. QED
      BY <1>2, <3>1
  <2>. QED
    BY <1>1, <2>1, <2>2
<1>. QED
  BY <1>2, <1>3 DEF Opening

\* The answerer acts, taking nothing.
LEMMA OpeningAnswerer ==
  ASSUME NEW g, NEW o, NEW p, NEW x \in Entity, NEW q \in Seq(Frame), Opening(g, o, p, x, q),
         NEW x2 \in Entity, Adds(x, x2), x2.state # "AwaitingEstablishment",
         Given(x2.events) = Given(x.events)
  PROVE  Opening(g, o, p, x2, q)
<1>. DEFINE r == q \o x.out
            r2 == q \o x2.out
<1>1. PICK ext \in Seq(Frame) :
           /\ \A i \in 1 .. Len(ext) : Proper(ext[i], x2)
           /\ Len(r2) = Len(r) + Len(ext)
           /\ Len(r) \in Nat /\ Len(ext) \in Nat
           /\ \A i \in 1 .. Len(r2) : \/ i \in 1 .. Len(r) /\ r2[i] = r[i]
                                      \/ i > Len(r) /\ Proper(r2[i], x2)
  BY StreamAdds
<1>2. ASSUME NEW i \in 1 .. Len(r2) PROVE r2[i].type # "SABME"
  <2>1. CASE i \in 1 .. Len(r) /\ r2[i] = r[i]
    BY <2>1 DEF Opening
  <2>2. CASE Proper(r2[i], x2)
    BY <2>2 DEF Proper
  <2>. QED
    BY <1>1, <2>1, <2>2
<1>. QED
  BY <1>2 DEF Opening

\* A frame in front is gone.
LEMMA OpeningTail ==
  ASSUME NEW g, NEW o \in Entity, NEW p \in Seq(Frame), NEW x \in Entity, NEW q \in Seq(Frame),
         Opening(g, o, p, x, q)
  PROVE  /\ p # <<>> => Opening(g, o, Tail(p), x, q)
         /\ q # <<>> => Opening(g, o, p, x, Tail(q))
<1>. DEFINE r == p \o o.out
            r2 == q \o x.out
<1>1. o.out \in Seq(Frame) /\ x.out \in Seq(Frame)
  BY EntityFields
<1>2. r \in Seq(Frame) /\ r2 \in Seq(Frame)
  BY <1>1, ConcatProperties
<1>3. ASSUME p # <<>> PROVE Opening(g, o, Tail(p), x, q)
  <2>1. Tail(r) = Tail(p) \o o.out /\ r # <<>>
    BY <1>1, <1>3, StreamTail
  <2>2. \A i \in 1 .. Len(Tail(r)) : Tail(r)[i] = r[i + 1] /\ i + 1 \in 1 .. Len(r)
    BY <1>2, <2>1, TailOf
  <2>3. Len(Tail(r)) \in Nat
    BY <1>2, <2>1, TailOf
  <2>4. \A i \in 1 .. Len(Tail(r)), j \in 1 .. Len(Tail(r)) : j < i => j + 1 < i + 1
    BY <2>3
  <2>5. ~ g \/ o.state = "AwaitingEstablishment" => \A i \in 1 .. Len(Tail(r)) : ~ IsI(Tail(r)[i])
    BY <2>2 DEF Opening
  <2>6. ASSUME NEW i \in 1 .. Len(Tail(r)), Tail(r)[i].type = "SABME"
        PROVE  /\ \A j \in 1 .. Len(Tail(r)) : j < i => ~ IsI(Tail(r)[j])
               /\ Given(x.events) = <<>>
    <3>1. r[i + 1].type = "SABME" /\ i + 1 \in 1 .. Len(r)
      BY <2>2, <2>6
    <3>2. (\A j \in 1 .. Len(r) : j < i + 1 => ~ IsI(r[j])) /\ Given(x.events) = <<>>
      BY <3>1 DEF Opening
    <3>. HIDE DEF r
    <3>. QED
      BY <2>2, <2>4, <3>2
  <2>. QED
    BY <2>1, <2>5, <2>6 DEF Opening
<1>4. ASSUME q # <<>> PROVE Opening(g, o, p, x, Tail(q))
  <2>1. Tail(r2) = Tail(q) \o x.out /\ r2 # <<>>
    BY <1>1, <1>4, StreamTail
  <2>2. \A i \in 1 .. Len(Tail(r2)) : Tail(r2)[i] = r2[i + 1] /\ i + 1 \in 1 .. Len(r2)
    BY <1>2, <2>1, TailOf
  <2>3. \A i \in 1 .. Len(Tail(r2)) : Tail(r2)[i].type # "SABME"
    BY <2>2 DEF Opening
  <2>. QED
    BY <2>1, <2>3 DEF Opening
<1>. QED
  BY <1>3, <1>4

\* The answerer takes the chunk in front: no SABME is behind it.
LEMMA OpeningTakes ==
  ASSUME NEW g, NEW o \in Entity, NEW p \in Seq(Frame), NEW x \in Entity, NEW q \in Seq(Frame),
         Opening(g, o, p, x, q), p # <<>>, IsI(Head(p)),
         NEW x2, x2.state = x.state, x2.out = x.out
  PROVE  Opening(g, o, Tail(p), x2, q)
<1>. DEFINE r == p \o o.out
<1>1. o.out \in Seq(Frame)
  BY EntityFields
<1>2. r \in Seq(Frame)
  BY <1>1, ConcatProperties
<1>3. Tail(r) = Tail(p) \o o.out /\ r # <<>> /\ Head(r) = Head(p)
  BY <1>1, StreamTail
<1>4. /\ 1 \in 1 .. Len(r) /\ r[1] = Head(p) /\ Len(Tail(r)) \in Nat
      /\ \A i \in 1 .. Len(Tail(r)) : Tail(r)[i] = r[i + 1] /\ i + 1 \in 1 .. Len(r)
  BY <1>2, <1>3, TailOf
<1>5. ~ (~ g \/ o.state = "AwaitingEstablishment")
  BY <1>4 DEF Opening
<1>6. ASSUME NEW i \in 1 .. Len(Tail(r)) PROVE Tail(r)[i].type # "SABME"
  <2>1. SUFFICES ASSUME Tail(r)[i].type = "SABME" PROVE FALSE
    OBVIOUS
  <2>2. r[i + 1].type = "SABME" /\ i + 1 \in 1 .. Len(r) /\ 1 < i + 1
    BY <1>4, <2>1
  <2>3. ~ IsI(r[1])
    BY <1>4, <2>2 DEF Opening
  <2>. QED
    BY <1>4, <2>3
<1>7. x2.state # "AwaitingEstablishment" /\ \A i \in 1 .. Len(q \o x2.out) : (q \o x2.out)[i].type # "SABME"
  BY DEF Opening
<1>. QED
  BY <1>3, <1>5, <1>6, <1>7 DEF Opening

\* What is said is put on the line.
LEMMA OpeningSent ==
  ASSUME NEW g, NEW o \in Entity, NEW p \in Seq(Frame), NEW x \in Entity, NEW q \in Seq(Frame),
         Opening(g, o, p, x, q)
  PROVE  /\ Opening(g, Emptied(o), p \o o.out, x, q)
         /\ Opening(g, o, p, Emptied(x), q \o x.out)
<1>1. p \o o.out \in Seq(Frame) /\ q \o x.out \in Seq(Frame)
  BY EntityFields, ConcatProperties
<1>2. /\ (p \o o.out) \o Emptied(o).out = p \o o.out
      /\ (q \o x.out) \o Emptied(x).out = q \o x.out
  BY <1>1, EmptiedFields, ConcatEmptySeq
<1>3. /\ Emptied(o).state = o.state /\ Emptied(o).events = o.events
      /\ Emptied(x).state = x.state /\ Emptied(x).events = x.events
  BY EmptiedFields
<1>. QED
  BY <1>2, <1>3 DEF Opening

-----------------------------------------------------------------------------
(* The whole link, seen from the end e that acts.                          *)

\* The same seen from either end.
Opens(e, g, l, w, m, v) ==
  IF e = "Originator" THEN Opening(g, l, w, m, v) ELSE Opening(g, m, v, l, w)

\* Both directions and the opening.
Line(e, g, a, l, w, s, b, m, v, t) == Both(a, l, w, s, b, m, v, t) /\ Opens(e, g, l, w, m, v)

\* The types of a link.
LEMMA LineTypes ==
  ASSUME NEW e, NEW g, NEW a, NEW l, NEW w, NEW s, NEW b, NEW m, NEW v, NEW t,
         Line(e, g, a, l, w, s, b, m, v, t)
  PROVE  /\ a \in Nat /\ b \in Nat /\ l \in Entity /\ m \in Entity /\ w \in Seq(Frame) /\ v \in Seq(Frame)
         /\ Sound(l) /\ Sound(m) /\ Queued(a, l) /\ l.held = NoneHeld /\ m.held = NoneHeld
         /\ Both(a, l, w, s, b, m, v, t) /\ OneWay(a, l, w, m, v, s) /\ OneWay(b, m, v, l, w, t)
BY DEF Line, Both, OneWay

\* Seen from the other end it is the same link.
LEMMA LineTurned ==
  ASSUME NEW e \in Ends, NEW g, NEW a, NEW l, NEW w, NEW s, NEW b, NEW m, NEW v, NEW t,
         Line(e, g, a, l, w, s, b, m, v, t)
  PROVE  Line(Peer(e), g, b, m, v, t, a, l, w, s)
<1>1. Both(b, m, v, t, a, l, w, s)
  BY DEF Line, Both
<1>2. Opens(Peer(e), g, m, v, l, w)
  BY DEF Line, Opens, Peer, Ends
<1>. QED
  BY <1>1, <1>2 DEF Line

\* Being told of a release or a reset loosens what is required of the line.
LEMMA LineUnsettled ==
  ASSUME NEW e, NEW g, NEW a, NEW l, NEW w, NEW s, NEW b, NEW m, NEW v, NEW t,
         Line(e, g, a, l, w, s, b, m, v, t), NEW s2, s2 => s
  PROVE  Line(e, g, a, l, w, s2, b, m, v, t)
<1>1. Both(a, l, w, s2, b, m, v, t)
  BY BothUnsettled DEF Line
<1>. QED
  BY <1>1 DEF Line

\* Only the originator waits for begin_protocol.
Free(g, e) == g \/ e # "Originator"

\* An end acts, and takes nothing.
LEMMA LineActs ==
  ASSUME NEW e \in Ends, NEW g, NEW a, NEW l, NEW w, NEW s, NEW b, NEW m, NEW v, NEW t,
         Line(e, g, a, l, w, s, b, m, v, t),
         NEW a2, NEW l2, NEW s2, Both(a2, l2, w, s2, b, m, v, t),
         Adds(l, l2), Given(l2.events) = Given(l.events),
         \/ l2.state = l.state
         \/ l2.state # "AwaitingEstablishment" /\ Free(g, e)
  PROVE  Line(e, g, a2, l2, w, s2, b, m, v, t)
<1>1. l \in Entity /\ m \in Entity /\ w \in Seq(Frame) /\ v \in Seq(Frame) /\ Sound(l)
  BY LineTypes
<1>2. l2 \in Entity /\ Sound(l2)
  BY DEF Both, OneWay
<1>3. CASE e = "Originator"
  <2>1. Opening(g, l, w, m, v)
    BY <1>3 DEF Line, Opens
  <2>2. ~ g => ~ g /\ l2.state = "Disconnected"
    BY <1>3, <2>1 DEF Opening, Free
  <2>3. ~ g \/ l2.state = "AwaitingEstablishment" =>
           /\ ~ g \/ l.state = "AwaitingEstablishment"
           /\ Given(l2.events) = Given(l.events)
    OBVIOUS
  <2>4. Opening(g, l2, w, m, v)
    BY <1>1, <1>2, <2>1, <2>2, <2>3, OpeningOriginator
  <2>. QED
    BY <1>3, <2>4 DEF Line, Opens
<1>4. CASE e # "Originator"
  <2>1. Opening(g, m, v, l, w)
    BY <1>4 DEF Line, Opens
  <2>2. l2.state # "AwaitingEstablishment"
    BY <2>1 DEF Opening
  <2>3. Opening(g, m, v, l2, w)
    BY <1>1, <1>2, <2>1, <2>2, OpeningAnswerer
  <2>. QED
    BY <1>4, <2>3 DEF Line, Opens
<1>. QED
  BY <1>3, <1>4

\* The line survives an end that only speaks.
LEMMA LineSpoke ==
  ASSUME NEW e \in Ends, NEW g, NEW a, NEW l, NEW w, NEW s, NEW b, NEW m, NEW v, NEW t,
         Line(e, g, a, l, w, s, b, m, v, t), NEW l2, Spoke(l, l2)
  PROVE  /\ Line(e, g, a, l2, w, s, b, m, v, t)
         /\ l2.state = l.state /\ l2.events = l.events /\ Remembers(l, l2)
<1>1. Both(a, l2, w, s, b, m, v, t)
  BY BothSpoke DEF Line
<1>2. Adds(l, l2) /\ l2.events = l.events /\ l2.state = l.state
  BY DEF Spoke, Same
<1>3. Line(e, g, a, l2, w, s, b, m, v, t)
  BY <1>1, <1>2, LineActs
<1>. QED
  BY <1>2, <1>3 DEF Remembers, Hears

\* The line survives an end that starts afresh without asking for the link.
LEMMA LineAfresh ==
  ASSUME NEW e \in Ends, NEW g, NEW a, NEW l, NEW w, NEW s, NEW b, NEW m, NEW v, NEW t,
         Line(e, g, a, l, w, s, b, m, v, t), NEW l2, NEW s2, Afresh(l, l2, s, s2),
         \/ l2.state = l.state
         \/ l2.state # "AwaitingEstablishment" /\ Free(g, e)
  PROVE  /\ Line(e, g, a, l2, w, s2, b, m, v, t)
         /\ Given(l2.events) = Given(l.events) /\ Remembers(l, l2)
<1>1. Both(a, l2, w, s2, b, m, v, t)
  BY BothAfresh DEF Line
<1>2. Adds(l, l2) /\ Given(l2.events) = Given(l.events) /\ Remembers(l, l2)
  BY DEF Afresh
<1>. QED
  BY <1>1, <1>2, LineActs

\* A frame in front of e is gone, and one in front of its peer.
LEMMA LineHeard ==
  ASSUME NEW e \in Ends, NEW g, NEW a, NEW l, NEW w, NEW s, NEW b, NEW m, NEW v, NEW t,
         Line(e, g, a, l, w, s, b, m, v, t)
  PROVE  /\ v # <<>> => Line(e, g, a, l, w, s, b, m, Tail(v), t)
         /\ w # <<>> => Line(e, g, a, l, Tail(w), s, b, m, v, t)
<1>1. /\ l \in Entity /\ m \in Entity /\ w \in Seq(Frame) /\ v \in Seq(Frame)
      /\ OneWay(a, l, w, m, v, s) /\ OneWay(b, m, v, l, w, t)
  BY LineTypes
<1>2. ASSUME v # <<>> PROVE Line(e, g, a, l, w, s, b, m, Tail(v), t)
  <2>1. OneWay(a, l, w, m, Tail(v), s) /\ OneWay(b, m, Tail(v), l, w, t)
    BY <1>1, <1>2, WayLoses, WayUnheard
  <2>2. Opens(e, g, l, w, m, Tail(v))
    BY <1>1, <1>2, OpeningTail DEF Line, Opens
  <2>. QED
    BY <2>1, <2>2 DEF Line, Both
<1>3. ASSUME w # <<>> PROVE Line(e, g, a, l, Tail(w), s, b, m, v, t)
  <2>1. OneWay(a, l, Tail(w), m, v, s) /\ OneWay(b, m, v, l, Tail(w), t)
    BY <1>1, <1>3, WayLoses, WayUnheard
  <2>2. Opens(e, g, l, Tail(w), m, v)
    BY <1>1, <1>3, OpeningTail DEF Line, Opens
  <2>. QED
    BY <2>1, <2>2 DEF Line, Both
<1>. QED
  BY <1>2, <1>3

\* pump, and its frames on the line.
LEMMA LineSent ==
  ASSUME NEW e \in Ends, NEW g, NEW a, NEW l, NEW w, NEW s, NEW b, NEW m, NEW v, NEW t,
         Line(e, g, a, l, w, s, b, m, v, t)
  PROVE  /\ Line(e, g, a, Emptied(Pump(l)), w \o Pump(l).out, s, b, m, v, t)
         /\ Emptied(Pump(l)).events = l.events
<1>. DEFINE k == Pump(l)
<1>1. /\ l \in Entity /\ m \in Entity /\ w \in Seq(Frame) /\ v \in Seq(Frame)
      /\ OneWay(a, l, w, m, v, s) /\ OneWay(b, m, v, l, w, t)
  BY LineTypes
<1>2. k \in Entity /\ k.state = l.state /\ k.events = l.events /\ Adds(l, k)
  <2>. DEFINE j == SendWindow(l)
  <2>1. CASE l.state = "Connected"
    <3>1. j \in Entity /\ j.state = l.state /\ j.events = l.events /\ j.vr = l.vr /\ Adds(l, j)
      BY <1>1, SendWindowFields
    <3>2. k = SendAck(j)
      BY <2>1 DEF Pump
    <3>. HIDE DEF j, k
    <3>3. Spoke(j, k) /\ k \in Entity
      BY <3>1, <3>2, SendAckSpoke DEF Spoke, Same
    <3>4. k.state = j.state /\ k.events = j.events
      BY <3>3 DEF Spoke, Same
    <3>5. Adds(l, k)
      BY <1>1, <3>1, <3>3, AddsTwice
    <3>. QED
      BY <3>1, <3>3, <3>4, <3>5
  <2>2. CASE l.state # "Connected"
    <3>1. k = l
      BY <2>2 DEF Pump
    <3>. HIDE DEF k
    <3>. QED
      BY <1>1, <3>1, AddsNothing
  <2>. QED
    BY <2>1, <2>2
<1>. HIDE DEF k
<1>3. OneWay(a, k, w, m, v, s) /\ OneWay(b, m, v, k, w, t)
  BY <1>1, WayPump DEF k
<1>4. Both(a, k, w, s, b, m, v, t)
  BY <1>3 DEF Both
<1>5. Line(e, g, a, k, w, s, b, m, v, t)
  BY <1>2, <1>4, LineActs
<1>6. OneWay(a, Emptied(k), w \o k.out, m, v, s) /\ OneWay(b, m, v, Emptied(k), w \o k.out, t)
  BY <1>3, WaySent
<1>7. Opens(e, g, Emptied(k), w \o k.out, m, v)
  BY <1>1, <1>2, <1>5, OpeningSent DEF Line, Opens
<1>8. Line(e, g, a, Emptied(k), w \o k.out, s, b, m, v, t)
  BY <1>6, <1>7 DEF Line, Both
<1>9. Emptied(k).events = l.events
  BY <1>2, EmptiedFields
<1>. QED
  BY <1>8, <1>9 DEF k

\* send_data: one more chunk waits.
LEMMA LineSends ==
  ASSUME NEW e \in Ends, NEW g, NEW a, NEW l, NEW w, NEW s, NEW b, NEW m, NEW v, NEW t,
         Line(e, g, a, l, w, s, b, m, v, t)
  PROVE  /\ Line(e, g, a + 1, SendData(l, a + 1), w, s, b, m, v, t)
         /\ SendData(l, a + 1).events = l.events
<1>. DEFINE l2 == SendData(l, a + 1)
            S == Sent(a, l)
            G == Gone(a, l)
<1>1. /\ l \in Entity /\ a \in Nat /\ Sound(l) /\ Queued(a, l) /\ l.held = NoneHeld
      /\ OneWay(a, l, w, m, v, s) /\ OneWay(b, m, v, l, w, t)
  BY LineTypes
<1>2. a + 1 \in Info /\ a + 1 \in Nat
  BY <1>1 DEF Info
<1>3. l2 \in Entity
  BY <1>1, <1>2, SendDataType
<1>4. /\ l2.state = l.state /\ l2.va = l.va /\ l2.vs = l.vs /\ l2.vr = l.vr
      /\ l2.unacked = l.unacked /\ l2.events = l.events /\ l2.held = l.held /\ l2.out = l.out
      /\ l2.timer = l.timer /\ l2.pending = Append(l.pending, a + 1)
  BY <1>1 DEF SendData, Entity
<1>5. l.pending \in Seq(Info)
  BY <1>1, EntityFields
<1>6. /\ Len(l2.pending) = Len(l.pending) + 1
      /\ \A i \in 1 .. Len(l.pending) : l2.pending[i] = l.pending[i]
      /\ l2.pending[Len(l.pending) + 1] = a + 1
  <2>1. /\ Len(Append(l.pending, a + 1)) = Len(l.pending) + 1
        /\ \A i \in 1 .. Len(l.pending) : Append(l.pending, a + 1)[i] = l.pending[i]
        /\ Append(l.pending, a + 1)[Len(l.pending) + 1] = a + 1
    BY <1>2, <1>5, AppendProperties
  <2>. QED
    BY <1>4, <2>1
<1>. HIDE DEF l2
<1>7. Sound(l2)
  BY <1>1, <1>4, Kept
<1>8. /\ Len(l.pending) \in Nat /\ S \in Nat /\ G \in Nat /\ G <= S
      /\ a = S + Len(l.pending) /\ l.va \in SeqNo
  BY <1>1, Sizes
<1>9. Sent(a + 1, l2) = (a + 1) - (Len(l.pending) + 1) /\ Gone(a + 1, l2) = Sent(a + 1, l2) - Len(l.unacked)
  BY <1>4, <1>6 DEF Sent, Gone
<1>10. G = S - Len(l.unacked)
  BY DEF Gone
<1>. HIDE DEF S, G
<1>. DEFINE p == Len(l.pending)
<1>11. Sent(a + 1, l2) = S /\ Gone(a + 1, l2) = G
  <2>1. (a + 1) - (p + 1) = S
    <3>1. p \in Nat /\ S \in Nat /\ a = S + p
      BY <1>8
    <3>. HIDE DEF p
    <3>. QED
      BY <3>1
  <2>. QED
    BY <1>9, <1>10, <2>1
<1>12. Queued(a + 1, l2)
  <2>1. /\ 0 <= G
        /\ \A i \in 1 .. Len(l.unacked) : l.unacked[i].info = G + i
        /\ \A i \in 1 .. p : l.pending[i] = S + i
    BY <1>1 DEF Queued, S, G
  <2>2. ASSUME NEW i \in 1 .. Len(l2.pending) PROVE l2.pending[i] = S + i
    <3>1. CASE i \in 1 .. p
      BY <1>6, <2>1, <3>1
    <3>2. CASE i = p + 1
      <4>1. p \in Nat /\ S \in Nat /\ a = S + p /\ l2.pending[p + 1] = a + 1
        BY <1>6, <1>8
      <4>. HIDE DEF p
      <4>2. S + (p + 1) = a + 1
        BY <4>1
      <4>. QED
        BY <3>2, <4>1, <4>2
    <3>. QED
      BY <1>6, <1>8, <3>1, <3>2
  <2>. QED
    BY <1>4, <1>11, <2>1, <2>2 DEF Queued
<1>13. Moves(S, G, l.va, S, G, l.va)
  <2>1. Plus(l.va, G - G) = l.va
    BY <1>8, LapmParams DEF Plus, SeqNo
  <2>. QED
    BY <1>8, <2>1 DEF Moves
<1>14. s => (l2.state # "Connected" => Len(l2.pending) = a + 1)
  BY <1>1, <1>4, <1>6 DEF OneWay, Unbroken
<1>15. Adds(l, l2)
  BY <1>1, <1>4, AddsNothing
<1>16. Offered(a, l, a + 1, l2, s, s)
  BY <1>2, <1>3, <1>4, <1>7, <1>11, <1>12, <1>13, <1>14, <1>15 DEF Offered, S, G
<1>17. OneWay(a + 1, l2, w, m, v, s)
  BY <1>1, <1>16, WayOffered
<1>18. Answered(l, l2)
  BY <1>1, <1>3, <1>4, <1>15 DEF Answered
<1>19. OneWay(b, m, v, l2, w, t)
  BY <1>1, <1>18, WayAnswered
<1>20. Both(a + 1, l2, w, s, b, m, v, t)
  BY <1>17, <1>19 DEF Both
<1>21. Line(e, g, a + 1, l2, w, s, b, m, v, t)
  BY <1>4, <1>15, <1>20, LineActs
<1>. QED
  BY <1>4, <1>21 DEF l2

-----------------------------------------------------------------------------
(* The handlers of set-mode frames, on the link as a whole.                *)

\* Only the originator waits for a UA, and only before any data has moved.
LEMMA LineAwaits ==
  ASSUME NEW e \in Ends, NEW g, NEW a, NEW l, NEW w, NEW s, NEW b, NEW m, NEW v, NEW t,
         Line(e, g, a, l, w, s, b, m, v, t)
  PROVE  /\ l.state = "AwaitingEstablishment" => e = "Originator" /\ Free(g, e) /\ Given(l.events) = <<>>
         /\ l.state # "Disconnected" => Free(g, e)
<1>1. CASE e = "Originator"
  <2>1. Opening(g, l, w, m, v)
    BY <1>1 DEF Line, Opens
  <2>. QED
    BY <1>1, <2>1 DEF Opening, Free
<1>2. CASE e # "Originator"
  <2>1. Opening(g, m, v, l, w)
    BY <1>2 DEF Line, Opens
  <2>. QED
    BY <1>2, <2>1 DEF Opening, Free
<1>. QED
  BY <1>1, <1>2

\* An SABME in front of an end: it is the answerer, and was given nothing.
LEMMA LineAsked ==
  ASSUME NEW e \in Ends, NEW g, NEW a, NEW l, NEW w, NEW s, NEW b, NEW m, NEW v, NEW t,
         Line(e, g, a, l, w, s, b, m, v, t), v # <<>>, Head(v).type = "SABME"
  PROVE  Free(g, e) /\ Given(l.events) = <<>>
<1>. DEFINE r == v \o m.out
<1>1. v \in Seq(Frame) /\ m.out \in Seq(Frame)
  BY LineTypes, EntityFields
<1>2. r \in Seq(Frame) /\ r # <<>> /\ Head(r) = Head(v)
  BY <1>1, StreamTail, ConcatProperties
<1>3. 1 \in 1 .. Len(r) /\ r[1].type = "SABME"
  BY <1>2, TailOf
<1>4. e # "Originator"
  <2>1. SUFFICES ASSUME e = "Originator" PROVE FALSE
    OBVIOUS
  <2>2. Opening(g, l, w, m, v)
    BY <2>1 DEF Line, Opens
  <2>. QED
    BY <1>3, <2>2 DEF Opening
<1>5. Opening(g, m, v, l, w)
  BY <1>4 DEF Line, Opens
<1>. QED
  BY <1>3, <1>4, <1>5 DEF Opening, Free

\* The link is released at this end.
LEMMA LineDisconnected ==
  ASSUME NEW e \in Ends, NEW g, NEW a, NEW l, NEW w, NEW s, NEW b, NEW m, NEW v, NEW t,
         Line(e, g, a, l, w, s, b, m, v, t), l.state # "Disconnected", NEW cause \in Cause,
         NEW l2, l2 = EnterDisconnected(l, cause),
         NEW s2, s2 => s /\ ~ Hears(l2, "Released")
  PROVE  /\ Line(e, g, a, l2, w, s2, b, m, v, t)
         /\ Given(l2.events) = Given(l.events) /\ Remembers(l, l2)
<1>1. l \in Entity /\ Both(a, l, w, s, b, m, v, t)
  BY LineTypes
<1>2. Afresh(l, l2, s, FALSE)
  BY <1>1, AfreshDisconnected
<1>3. l2.state = "Disconnected" /\ ~ s2
  BY <1>1, DisconnectedHears
<1>4. Free(g, e)
  BY LineAwaits
<1>5. Afresh(l, l2, s, s2)
  BY <1>2, <1>3 DEF Afresh
<1>. QED
  BY <1>3, <1>4, <1>5, LineAfresh

\* A UA, or a frame that stands in for it, opens the link.
LEMMA LineEstablished ==
  ASSUME NEW e \in Ends, NEW g, NEW a, NEW l, NEW w, NEW s, NEW b, NEW m, NEW v, NEW t,
         Line(e, g, a, l, w, s, b, m, v, t), l.state = "AwaitingEstablishment",
         NEW l2, l2 = Establish(l)
  PROVE  /\ Line(e, g, a, l2, w, s, b, m, v, t) /\ l2.state = "Connected"
         /\ Given(l2.events) = Given(l.events) /\ Remembers(l, l2)
<1>1. l \in Entity /\ Both(a, l, w, s, b, m, v, t)
  BY LineTypes
<1>2. Given(l.events) = <<>> /\ Free(g, e)
  BY LineAwaits
<1>3. Afresh(l, l2, s, s)
  BY <1>1, <1>2, AfreshEstablish
<1>4. l2.state = "Connected"
  BY <1>1 DEF Establish, Tell, StopTimer, Entity
<1>. QED
  BY <1>2, <1>3, <1>4, LineAfresh

\* The line survives the frame that stands in for a lost UA.
LEMMA LineOpen ==
  ASSUME NEW e \in Ends, NEW g, NEW a, NEW l, NEW w, NEW s, NEW b, NEW m, NEW v, NEW t,
         Line(e, g, a, l, w, s, b, m, v, t), l.state \in {"AwaitingEstablishment", "Connected"},
         NEW l2, l2 = StandInForUa(l)
  PROVE  /\ Line(e, g, a, l2, w, s, b, m, v, t) /\ l2.state = "Connected"
         /\ Given(l2.events) = Given(l.events) /\ Remembers(l, l2)
<1>1. CASE l.state = "AwaitingEstablishment"
  BY <1>1, LineEstablished DEF StandInForUa
<1>2. CASE l.state = "Connected"
  BY <1>2 DEF StandInForUa, Remembers
<1>. QED
  BY <1>1, <1>2

\* on_disc.
LEMMA LineDisc ==
  ASSUME NEW e \in Ends, NEW g, NEW a, NEW l, NEW w, NEW s, NEW b, NEW m, NEW v, NEW t,
         Line(e, g, a, l, w, s, b, m, v, t),
         NEW frame \in Frame, frame.type = "DISC", NEW l2, l2 = OnDisc(l, frame),
         NEW s2, s2 => s /\ ~ Hears(l2, "Released")
  PROVE  /\ Line(e, g, a, l2, w, s2, b, m, v, t)
         /\ Given(l2.events) = Given(l.events) /\ Remembers(l, l2)
<1>. DEFINE ua == Unnumbered("UA", frame.pf)
            dm == Unnumbered("DM", frame.pf)
<1>1. l \in Entity /\ frame.pf \in BOOLEAN
  BY LineTypes, FrameFields DEF SetMode
<1>2. ua \in Frame /\ dm \in Frame /\ Proper(ua, l) /\ Proper(dm, l)
  BY <1>1, ProperAnswers
<1>. HIDE DEF ua, dm
<1>3. Spoke(l, Send(l, ua)) /\ Spoke(l, Send(l, dm))
  BY <1>1, <1>2, SendSpoke
<1>4. CASE l.state = "Disconnected"
  <2>1. l2 = Send(l, dm)
    BY <1>4 DEF OnDisc, dm
  <2>2. Line(e, g, a, l2, w, s, b, m, v, t) /\ l2.events = l.events /\ Remembers(l, l2)
    BY <1>3, <2>1, LineSpoke
  <2>. QED
    BY <2>2, LineUnsettled
<1>5. CASE l.state # "Disconnected"
  <2>. DEFINE k == Send(l, ua)
  <2>1. l2 = EnterDisconnected(k, "Peer")
    BY <1>5 DEF OnDisc, ua
  <2>. HIDE DEF k
  <2>2. /\ Line(e, g, a, k, w, s, b, m, v, t)
        /\ k.state = l.state /\ k.events = l.events /\ Remembers(l, k)
    BY <1>3, LineSpoke DEF k
  <2>3. /\ Line(e, g, a, l2, w, s2, b, m, v, t)
        /\ Given(l2.events) = Given(k.events) /\ Remembers(k, l2)
    BY <1>5, <2>1, <2>2, LineDisconnected DEF Cause
  <2>. QED
    BY <2>2, <2>3 DEF Remembers
<1>. QED
  BY <1>4, <1>5

\* on_ua.
LEMMA LineUa ==
  ASSUME NEW e \in Ends, NEW g, NEW a, NEW l, NEW w, NEW s, NEW b, NEW m, NEW v, NEW t,
         Line(e, g, a, l, w, s, b, m, v, t),
         NEW frame, NEW l2, l2 = OnUa(l, frame),
         NEW s2, s2 => s /\ ~ Hears(l2, "Released")
  PROVE  /\ Line(e, g, a, l2, w, s2, b, m, v, t)
         /\ Given(l2.events) = Given(l.events) /\ Remembers(l, l2)
<1>1. CASE l.state = "AwaitingEstablishment" /\ frame.pf
  <2>1. l2 = Establish(l)
    BY <1>1 DEF OnUa
  <2>2. /\ Line(e, g, a, l2, w, s, b, m, v, t)
        /\ Given(l2.events) = Given(l.events) /\ Remembers(l, l2)
    BY <1>1, <2>1, LineEstablished
  <2>. QED
    BY <2>2, LineUnsettled
<1>2. CASE l.state = "AwaitingRelease" /\ frame.pf
  <2>1. l2 = EnterDisconnected(l, "Local")
    BY <1>2 DEF OnUa
  <2>. QED
    BY <1>2, <2>1, LineDisconnected DEF Cause
<1>3. CASE l2 = l
  BY <1>3, LineUnsettled DEF Remembers
<1>. QED
  BY <1>1, <1>2, <1>3 DEF OnUa

\* on_dm.
LEMMA LineDm ==
  ASSUME NEW e \in Ends, NEW g, NEW a, NEW l, NEW w, NEW s, NEW b, NEW m, NEW v, NEW t,
         Line(e, g, a, l, w, s, b, m, v, t),
         NEW frame, NEW l2, l2 = OnDm(l, frame),
         NEW s2, s2 => s /\ ~ Hears(l2, "Released")
  PROVE  /\ Line(e, g, a, l2, w, s2, b, m, v, t)
         /\ Given(l2.events) = Given(l.events) /\ Remembers(l, l2)
<1>1. \/ l2 = l
      \/ l.state # "Disconnected" /\ \E cause \in Cause : l2 = EnterDisconnected(l, cause)
  BY DEF OnDm, Cause
<1>2. CASE l2 = l
  BY <1>2, LineUnsettled DEF Remembers
<1>3. CASE l.state # "Disconnected" /\ \E cause \in Cause : l2 = EnterDisconnected(l, cause)
  BY <1>3, LineDisconnected
<1>. QED
  BY <1>1, <1>2, <1>3

\* on_sabme.
LEMMA LineSabme ==
  ASSUME NEW e \in Ends, NEW g, NEW a, NEW l, NEW w, NEW s, NEW b, NEW m, NEW v, NEW t,
         Line(e, g, a, l, w, s, b, m, v, t),
         v # <<>>, NEW frame, frame = Head(v), frame.type = "SABME",
         NEW l2, l2 = OnSabme(l, frame), NEW s2, s2 => s /\ ~ Hears(l2, "Reset")
  PROVE  /\ Line(e, g, a, l2, w, s2, b, m, v, t)
         /\ Given(l2.events) = Given(l.events) /\ Remembers(l, l2)
<1>1. l \in Entity /\ Both(a, l, w, s, b, m, v, t) /\ v \in Seq(Frame)
  BY LineTypes
<1>2. frame \in Frame
  BY <1>1, HeadTailProperties
<1>3. Free(g, e) /\ Given(l.events) = <<>>
  BY LineAsked
<1>4. l2.state = "Connected" /\ (s2 => s /\ l.state # "Connected")
  BY <1>1, SabmeHears
<1>5. Afresh(l, l2, s, s2)
  BY <1>1, <1>2, <1>3, <1>4, AfreshSabme
<1>. QED
  BY <1>3, <1>4, <1>5, LineAfresh

-----------------------------------------------------------------------------
(* The handlers of numbered frames, on the link as a whole.                *)

\* What the user of l2 was given past that of l, of b chunks handed over: at
\* most one, newer than all before, and the next one as long as t.
Takes(l, l2, b, t, x) ==
  /\ Given(l2.events) = Append(Given(l.events), x)
  /\ x \in Nat /\ Newest(l) < x /\ x <= b /\ (t => x = Newest(l) + 1)

\* What was taken, in the user's terms.
Grew(l, l2, b, t) ==
  Given(l2.events) = Given(l.events) \/ \E x \in Info : Takes(l, l2, b, t, x)

\* The N(R) of a frame, and the frame gone.
LEMMA LineAcked ==
  ASSUME NEW e \in Ends, NEW g, NEW a, NEW l, NEW w, NEW s, NEW b, NEW m, NEW v, NEW t,
         Line(e, g, a, l, w, s, b, m, v, t),
         v # <<>>, Carries(Head(v)), l.state = "Connected",
         NEW l2, l2 = Acknowledge(l, Head(v).nr)
  PROVE  /\ Line(e, g, a, l2, w, s, b, m, Tail(v), t) /\ l2.state = "Connected"
         /\ l2.events = l.events /\ l2.out = l.out /\ l2.held = l.held /\ l2 \in Entity
         /\ OneWay(a, l2, w, m, Tail(v), s) /\ OneWay(b, m, v, l2, w, t)
<1>1. /\ l \in Entity /\ v \in Seq(Frame) /\ Sound(l) /\ l.held = NoneHeld
      /\ OneWay(a, l, w, m, v, s) /\ OneWay(b, m, v, l, w, t)
  BY LineTypes
<1>2. Head(v).nr \in SeqNo
  <2>1. Head(v) \in Frame
    BY <1>1, HeadTailProperties
  <2>. QED
    BY <2>1, FrameFields DEF Carries
<1>3. OneWay(a, l2, w, m, Tail(v), s)
  BY <1>1, WayAcked
<1>4. /\ l2 \in Entity /\ l2.state = "Connected" /\ l2.out = l.out /\ l2.events = l.events
      /\ l2.held = l.held /\ l2.vr = l.vr
  BY <1>1, <1>2, AckFields, AcknowledgeType
<1>5. Adds(l, l2)
  BY <1>1, <1>4, AddsNothing
<1>6. Answered(l, l2)
  BY <1>1, <1>4, <1>5 DEF Answered
<1>7. OneWay(b, m, v, l2, w, t)
  BY <1>1, <1>6, WayAnswered
<1>8. OneWay(b, m, Tail(v), l2, w, t)
  BY <1>7, WayLoses
<1>9. Both(a, l2, w, s, b, m, Tail(v), t)
  BY <1>3, <1>8 DEF Both
<1>10. Line(e, g, a, l, w, s, b, m, Tail(v), t)
  BY LineHeard
<1>11. Line(e, g, a, l2, w, s, b, m, Tail(v), t)
  BY <1>4, <1>5, <1>9, <1>10, LineActs
<1>. QED
  BY <1>3, <1>4, <1>7, <1>11

\* The I frame in sequence.
LEMMA LineDelivers ==
  ASSUME NEW e \in Ends, NEW g, NEW a, NEW l, NEW w, NEW s, NEW b, NEW m, NEW v, NEW t,
         Line(e, g, a, l, w, s, b, m, v, t),
         v # <<>>, IsI(Head(v)), l.state = "Connected",
         NEW k, k = Acknowledge(l, Head(v).nr), Head(v).ns = k.vr,
         NEW l2, l2 = Deliver(k, Head(v).info)
  PROVE  /\ Line(e, g, a, l2, w, s, b, m, Tail(v), t) /\ l2.state = "Connected"
         /\ Remembers(l, l2) /\ \E x \in Info : Takes(l, l2, b, t, x)
<1>. DEFINE x == Head(v).info
<1>1. Carries(Head(v))
  BY DEF Carries, IsI
<1>2. /\ k.state = "Connected" /\ k.events = l.events /\ k.out = l.out /\ k.held = l.held
      /\ k \in Entity /\ OneWay(a, k, w, m, Tail(v), s) /\ OneWay(b, m, v, k, w, t)
      /\ Line(e, g, a, k, w, s, b, m, Tail(v), t)
  BY <1>1, LineAcked
<1>3. /\ OneWay(b, m, Tail(v), l2, w, t) /\ x \in Info /\ Newest(k) < x /\ x <= b
      /\ t => x = Newest(k) + 1
  BY <1>2, WayTakes
<1>4. k.held = NoneHeld
  BY <1>2, LineTypes
<1>. HIDE DEF x
<1>5. /\ l2 \in Entity /\ l2.state = k.state /\ l2.va = k.va /\ l2.vs = k.vs
      /\ l2.pending = k.pending /\ l2.unacked = k.unacked /\ l2.out = k.out
      /\ l2.timer = k.timer /\ l2.events = Append(k.events, DataEvent(x))
  BY <1>2, <1>3, <1>4, DeliverFields DEF x
<1>6. Adds(k, l2)
  BY <1>2, <1>5, AddsNothing
<1>7. OneWay(a, l2, w, m, Tail(v), s)
  BY <1>2, <1>5, <1>6, WaySame DEF Same
<1>8. Given(l2.events) = Append(Given(k.events), x) /\ Remembers(k, l2)
  BY <1>2, <1>3, <1>5, NewestTaken, HearsMore, EventTypes
<1>9. Newest(l) = Newest(k)
  BY <1>2 DEF Newest
<1>10. Takes(l, l2, b, t, x)
  BY <1>2, <1>3, <1>8, <1>9 DEF Takes, Info
<1>11. Opens(e, g, l2, w, m, Tail(v))
  <2>1. l \in Entity /\ m \in Entity /\ w \in Seq(Frame) /\ v \in Seq(Frame) /\ Tail(v) \in Seq(Frame)
    <3>1. l \in Entity /\ m \in Entity /\ w \in Seq(Frame) /\ v \in Seq(Frame)
      BY LineTypes
    <3>. QED
      BY <3>1, HeadTailProperties
  <2>2. CASE e = "Originator"
    <3>1. Opening(g, k, w, m, Tail(v))
      BY <1>2, <2>2 DEF Line, Opens
    <3>2. Free(g, e) /\ g
      <4>1. Free(g, e)
        BY <1>2, LineAwaits
      <4>. QED
        BY <2>2, <4>1 DEF Free
    <3>3. Sound(l2) /\ l2.state # "AwaitingEstablishment"
      BY <1>2, <1>5, <1>7 DEF OneWay
    <3>4. ~ g => ~ g /\ l2.state = "Disconnected"
      BY <3>2
    <3>5. ~ g \/ l2.state = "AwaitingEstablishment" =>
            /\ ~ g \/ k.state = "AwaitingEstablishment"
            /\ Given(l2.events) = Given(k.events)
      BY <3>2, <3>3
    <3>6. Opening(g, l2, w, m, Tail(v))
      BY <1>2, <1>5, <1>6, <2>1, <3>1, <3>3, <3>4, <3>5, OpeningOriginator
    <3>. QED
      BY <2>2, <3>6 DEF Opens
  <2>3. CASE e # "Originator"
    <3>1. Opening(g, m, v, l, w)
      BY <2>3 DEF Line, Opens
    <3>2. l2.state = l.state /\ l2.out = l.out
      BY <1>2, <1>5
    <3>3. Opening(g, m, Tail(v), l2, w)
      BY <2>1, <3>1, <3>2, OpeningTakes
    <3>. QED
      BY <2>3, <3>3 DEF Opens
  <2>. QED
    BY <2>2, <2>3
<1>12. Line(e, g, a, l2, w, s, b, m, Tail(v), t)
  BY <1>3, <1>7, <1>11 DEF Line, Both
<1>13. Remembers(l, l2)
  BY <1>2, <1>8, SMTT(20) DEF Remembers, Hears
<1>. QED
  BY <1>2, <1>3, <1>5, <1>10, <1>12, <1>13

\* What is said after it.
LEMMA GrewSpoke ==
  ASSUME NEW l, NEW k, NEW l2, NEW b, NEW t, Grew(l, k, b, t), Remembers(l, k), Spoke(k, l2)
  PROVE  Grew(l, l2, b, t) /\ Remembers(l, l2)
BY DEF Spoke, Grew, Takes, Remembers, Hears

\* on_i.
LEMMA LineI ==
  ASSUME ~ Srej,
         NEW e \in Ends, NEW g, NEW a, NEW l, NEW w, NEW s, NEW b, NEW m, NEW v, NEW t,
         Line(e, g, a, l, w, s, b, m, v, t),
         v # <<>>, NEW frame, frame = Head(v), frame.type = "I", l.state = "Connected",
         NEW l2, l2 = OnI(l, frame)
  PROVE  /\ Line(e, g, a, l2, w, s, b, m, Tail(v), t)
         /\ Grew(l, l2, b, t) /\ Remembers(l, l2)
<1>. DEFINE k == Acknowledge(l, frame.nr)
            taken == TakeI(k, frame)
            answer == RR(taken.vr, TRUE, "Response")
<1>1. Carries(Head(v)) /\ IsI(Head(v))
  BY DEF Carries, IsI
<1>2. /\ Line(e, g, a, k, w, s, b, m, Tail(v), t) /\ k.events = l.events /\ k \in Entity
      /\ k.state = "Connected"
  BY <1>1, LineAcked
<1>3. l2 = IF frame.pf THEN [Send(taken, answer) EXCEPT !.ack_pending = FALSE] ELSE taken
  BY DEF OnI
<1>4. /\ Line(e, g, a, taken, w, s, b, m, Tail(v), t)
      /\ Grew(l, taken, b, t) /\ Remembers(l, taken)
  <2>1. CASE frame.ns = k.vr
    <3>1. taken = Deliver(k, frame.info)
      BY <2>1 DEF TakeI
    <3>. HIDE DEF taken, k
    <3>2. /\ Line(e, g, a, taken, w, s, b, m, Tail(v), t)
          /\ Remembers(l, taken) /\ \E x \in Info : Takes(l, taken, b, t, x)
      BY <1>1, <2>1, <3>1, LineDelivers DEF k
    <3>. QED
      BY <3>2 DEF Grew
  <2>2. CASE frame.ns # k.vr
    <3>1. taken = RejectOnce(k, REJ(k.vr))
      BY <2>2 DEF TakeI
    <3>. HIDE DEF taken, k
    <3>2. Spoke(k, taken)
      BY <1>2, <3>1, RejectOnceSpoke
    <3>3. Line(e, g, a, taken, w, s, b, m, Tail(v), t) /\ taken.events = k.events /\ Remembers(k, taken)
      BY <1>2, <3>2, LineSpoke
    <3>. QED
      BY <1>2, <3>3 DEF Grew, Remembers, Hears
  <2>. QED
    BY <2>1, <2>2
<1>. HIDE DEF taken
<1>5. CASE frame.pf
  <2>1. taken \in Entity
    BY <1>4, LineTypes
  <2>2. answer \in Frame /\ Proper(answer, taken)
    BY <2>1, ProperAnswers
  <2>. HIDE DEF answer
  <2>3. Spoke(taken, l2)
    BY <1>3, <1>5, <2>1, <2>2, SendSpoke
  <2>4. Line(e, g, a, l2, w, s, b, m, Tail(v), t)
    BY <1>4, <2>3, LineSpoke
  <2>. QED
    BY <1>4, <2>3, <2>4, GrewSpoke
<1>6. CASE ~ frame.pf
  BY <1>3, <1>4, <1>6
<1>. QED
  BY <1>5, <1>6

\* on_rr and on_rej.
LEMMA LineSupervised ==
  ASSUME NEW e \in Ends, NEW g, NEW a, NEW l, NEW w, NEW s, NEW b, NEW m, NEW v, NEW t,
         Line(e, g, a, l, w, s, b, m, v, t),
         v # <<>>, NEW frame, frame = Head(v), frame.type \in {"RR", "REJ"}, l.state = "Connected",
         NEW l2, l2 = IF frame.type = "RR" THEN OnRr(l, frame) ELSE OnRej(l, frame)
  PROVE  /\ Line(e, g, a, l2, w, s, b, m, Tail(v), t)
         /\ Given(l2.events) = Given(l.events) /\ Remembers(l, l2)
<1>. DEFINE ready == [l EXCEPT !.peer_busy = FALSE]
            k == Acknowledge(ready, frame.nr)
            again == IF frame.type = "RR" THEN ResolveTimerRecovery(k, frame)
                                          ELSE RetransmitFrom(k, frame.nr)
<1>1. l \in Entity /\ v \in Seq(Frame) /\ Carries(Head(v))
  BY LineTypes DEF Carries
<1>2. frame.nr \in SeqNo
  <2>1. frame \in Frame
    BY <1>1, HeadTailProperties
  <2>. QED
    BY <2>1, FrameFields
<1>3. l2 = AnswerPoll(again, frame)
  BY DEF OnRr, OnRej
<1>4. Spoke(l, ready)
  BY <1>1, NotBusySpoke
<1>. HIDE DEF ready
<1>5. Line(e, g, a, ready, w, s, b, m, v, t) /\ ready.state = "Connected" /\ ready.events = l.events
  BY <1>4, LineSpoke
<1>6. Line(e, g, a, k, w, s, b, m, Tail(v), t) /\ k.events = ready.events /\ k \in Entity
  BY <1>1, <1>5, LineAcked
<1>. HIDE DEF k
<1>7. Spoke(k, again) /\ again \in Entity
  BY <1>2, <1>6, ResolveTimerRecoverySpoke, RetransmitFromSpoke
<1>. HIDE DEF again
<1>8. Line(e, g, a, again, w, s, b, m, Tail(v), t) /\ again.events = k.events
  BY <1>6, <1>7, LineSpoke
<1>9. Spoke(again, l2)
  BY <1>3, <1>7, AnswerPollSpoke
<1>10. Line(e, g, a, l2, w, s, b, m, Tail(v), t) /\ l2.events = again.events
  BY <1>8, <1>9, LineSpoke
<1>. QED
  BY <1>5, <1>6, <1>8, <1>10 DEF Remembers, Hears

\* on_srej.
LEMMA LineSrej ==
  ASSUME NEW e \in Ends, NEW g, NEW a, NEW l, NEW w, NEW s, NEW b, NEW m, NEW v, NEW t,
         Line(e, g, a, l, w, s, b, m, v, t),
         NEW frame \in Frame, frame.type = "SREJ", NEW l2, l2 = OnSrej(l, frame)
  PROVE  /\ Line(e, g, a, l2, w, s, b, m, v, t)
         /\ Given(l2.events) = Given(l.events) /\ Remembers(l, l2)
<1>1. l \in Entity
  BY LineTypes
<1>2. Spoke(l, l2)
  BY <1>1, OnSrejSpoke
<1>. QED
  BY <1>2, LineSpoke

-----------------------------------------------------------------------------
(* begin_protocol, disconnect and tick, on the link as a whole.            *)

\* begin_protocol.
Begins(g, g2) == ~ g /\ g2

\* The line survives the originator's first SABME.
LEMMA LineConnects ==
  ASSUME NEW e \in Ends, e = "Originator",
         NEW g, NEW a, NEW l, NEW w, NEW s, NEW b, NEW m, NEW v, NEW t,
         Line(e, g, a, l, w, s, b, m, v, t), NEW g2, Begins(g, g2),
         NEW l2, l2 = Connect(l)
  PROVE  /\ Line(e, g2, a, l2, w, s, b, m, v, t) /\ l.state = "Disconnected"
         /\ Given(l2.events) = Given(l.events) /\ Remembers(l, l2)
<1>1. /\ l \in Entity /\ m \in Entity /\ w \in Seq(Frame) /\ v \in Seq(Frame)
      /\ Both(a, l, w, s, b, m, v, t)
  BY LineTypes
<1>2. Opening(g, l, w, m, v)
  BY DEF Line, Opens
<1>3. l.state = "Disconnected" /\ Given(l.events) = <<>>
  BY <1>2 DEF Opening, Begins
<1>4. Afresh(l, l2, s, s)
  BY <1>1, <1>3, AfreshConnect
<1>5. Both(a, l2, w, s, b, m, v, t)
  BY <1>1, <1>4, BothAfresh
<1>6. l2 \in Entity /\ Sound(l2) /\ Adds(l, l2) /\ Given(l2.events) = Given(l.events) /\ Remembers(l, l2)
  BY <1>4 DEF Afresh
<1>7. /\ ~ g2 => ~ g /\ l2.state = "Disconnected"
      /\ ~ g2 \/ l2.state = "AwaitingEstablishment" =>
           /\ ~ g \/ l.state = "AwaitingEstablishment"
           /\ Given(l2.events) = Given(l.events)
  BY <1>6 DEF Begins
<1>8. Opening(g2, l2, w, m, v)
  BY <1>1, <1>2, <1>6, <1>7, OpeningOriginator
<1>. QED
  BY <1>3, <1>5, <1>6, <1>8 DEF Line, Opens

\* disconnect.
LEMMA LineReleases ==
  ASSUME NEW e \in Ends, NEW g, NEW a, NEW l, NEW w, NEW s, NEW b, NEW m, NEW v, NEW t,
         Line(e, g, a, l, w, s, b, m, v, t), l.state # "Disconnected",
         NEW l2, l2 = Disconnect(l), NEW s2, ~ s2
  PROVE  /\ Line(e, g, a, l2, w, s2, b, m, v, t)
         /\ Given(l2.events) = Given(l.events) /\ Remembers(l, l2)
<1>1. l \in Entity /\ Both(a, l, w, s, b, m, v, t)
  BY LineTypes
<1>2. Afresh(l, l2, s, FALSE)
  BY <1>1, AfreshDisconnect
<1>3. Afresh(l, l2, s, s2)
  BY <1>2 DEF Afresh
<1>4. l2.state = "AwaitingRelease"
  BY <1>1 DEF Disconnect, Send, StartTimer, Entity
<1>5. Free(g, e)
  BY LineAwaits
<1>. QED
  BY <1>3, <1>4, <1>5, LineAfresh

\* The last try: the entity gives up.
LEMMA LineFails ==
  ASSUME NEW e \in Ends, NEW g, NEW a, NEW l, NEW w, NEW s, NEW b, NEW m, NEW v, NEW t,
         Line(e, g, a, l, w, s, b, m, v, t),
         NEW l2, l2 = Fail(Expired(l)), NEW s2, s2 => s /\ ~ Hears(l2, "Released")
  PROVE  /\ Line(e, g, a, l2, w, s2, b, m, v, t)
         /\ Given(l2.events) = Given(l.events) /\ Remembers(l, l2)
<1>. DEFINE x == Expired(l)
<1>1. l \in Entity /\ l.held = NoneHeld /\ Sound(l) /\ Both(a, l, w, s, b, m, v, t)
  BY LineTypes
<1>2. /\ x.out = l.out /\ x.vr = l.vr /\ x.held = l.held /\ x.events = l.events
      /\ x \in Entity
  BY <1>1, ExpiryType DEF Expired, StopTimer, Entity
<1>3. l2 = EnterDisconnected(x, "NoResponse")
  BY DEF Fail
<1>4. l2 \in Entity /\ Sound(l2)
  BY <1>1, <1>2, ExpiryType, ExpirySound
<1>. HIDE DEF x
<1>5. /\ l2.unacked = <<>> /\ l2.pending = <<>> /\ l2.out = x.out /\ l2.vr = x.vr
      /\ l2.held = x.held /\ l2.events = Append(x.events, Released("NoResponse"))
      /\ l2.state = "Disconnected"
  BY <1>2, <1>3 DEF EnterDisconnected, Tell, StopTimer, Entity
<1>6. Released("NoResponse") \in Event /\ Released("NoResponse").type = "Released"
  BY EventTypes DEF Released, Cause
<1>7. Given(l2.events) = Given(l.events) /\ Remembers(l, l2) /\ Hears(l2, "Released")
  BY <1>1, <1>2, <1>5, <1>6, HearsMore
<1>8. Adds(l, l2)
  BY <1>1, <1>2, <1>5, AddsNothing
<1>9. Afresh(l, l2, s, s2)
  BY <1>1, <1>2, <1>4, <1>5, <1>7, <1>8 DEF Afresh
<1>10. l.state # "Disconnected" => Free(g, e)
  BY LineAwaits
<1>11. \/ l2.state = l.state
       \/ l2.state # "AwaitingEstablishment" /\ Free(g, e)
  BY <1>5, <1>10
<1>. QED
  BY <1>9, <1>11, LineAfresh

\* The tries before it.
LEMMA LineExpires ==
  ASSUME NEW e \in Ends, NEW g, NEW a, NEW l, NEW w, NEW s, NEW b, NEW m, NEW v, NEW t,
         Line(e, g, a, l, w, s, b, m, v, t), NEW l2,
         \/ l2 = PollPeer(Expired(l)) \/ l2 = ResendDisc(Expired(l))
         \/ l.state = "AwaitingEstablishment" /\ l2 = ResendSabme(Expired(l))
  PROVE  /\ Line(e, g, a, l2, w, s, b, m, v, t)
         /\ Given(l2.events) = Given(l.events) /\ Remembers(l, l2)
<1>1. l \in Entity
  BY LineTypes
<1>2. Spoke(l, l2)
  BY <1>1, ExpirySpoke
<1>. QED
  BY <1>2, LineSpoke

-----------------------------------------------------------------------------
(* receive, whatever the frame.                                            *)

\* l2 was not told of a release or a reset since l.
Untold(l, l2) == \A type \in {"Released", "Reset"} : Hears(l2, type) => Hears(l, type)

\* Connected and Data tell of no release and no reset.
LEMMA HearsOnly ==
  ASSUME NEW l \in Entity, NEW event \in Event, event.type \in {"Connected", "Data"},
         NEW l2, l2.events = Append(l.events, event)
  PROVE  Untold(l, l2)
<1>1. l.events \in Seq(Event)
  BY EntityFields
<1>2. /\ Len(l2.events) = Len(l.events) + 1 /\ Len(l.events) \in Nat
      /\ \A i \in 1 .. Len(l.events) : l2.events[i] = l.events[i]
      /\ l2.events[Len(l.events) + 1] = event
  BY <1>1, AppendProperties, LenProperties
<1>3. ASSUME NEW type \in {"Released", "Reset"}, NEW i \in 1 .. Len(l2.events), l2.events[i].type = type
      PROVE  i \in 1 .. Len(l.events) /\ l.events[i].type = type
  <2>1. i # Len(l.events) + 1
    BY <1>2, <1>3
  <2>. QED
    BY <1>2, <1>3, <2>1
<1>. QED
  BY <1>3 DEF Untold, Hears

\* A numbered frame that stands in for a UA tells of no release.
LEMMA OpenTells ==
  ASSUME NEW l \in Entity
  PROVE  Untold(l, StandInForUa(l))
<1>. DEFINE l2 == Establish(l)
<1>1. l2.events = Append(l.events, Report("Connected"))
  BY DEF Establish, Tell, StopTimer, Entity
<1>2. Report("Connected") \in Event /\ Report("Connected").type = "Connected"
  BY EventTypes DEF Report
<1>. HIDE DEF l2
<1>3. Untold(l, l2)
  BY <1>1, <1>2, HearsOnly
<1>. QED
  BY <1>3 DEF StandInForUa, Untold, l2

\* Nor does an I frame.
LEMMA ITells ==
  ASSUME ~ Srej, NEW l \in Entity, l.held = NoneHeld, Sound(l), l.state = "Connected",
         NEW frame \in Frame, frame.type = "I"
  PROVE  Untold(l, OnI(l, frame))
<1>. DEFINE k == Acknowledge(l, frame.nr)
            taken == TakeI(k, frame)
            answer == RR(taken.vr, TRUE, "Response")
            l2 == OnI(l, frame)
<1>1. frame.nr \in SeqNo /\ frame.info \in Info
  BY FrameFields
<1>2. k \in Entity /\ k.events = l.events /\ k.held = l.held
  BY <1>1, AckFields, AcknowledgeType
<1>3. l2 = IF frame.pf THEN [Send(taken, answer) EXCEPT !.ack_pending = FALSE] ELSE taken
  BY DEF OnI
<1>4. taken \in Entity
  <2>. HIDE DEF k
  <2>. QED
    BY <1>2, TakeIType
<1>5. Untold(k, taken)
  <2>1. CASE frame.ns = k.vr
    <3>1. taken = Deliver(k, frame.info)
      BY <2>1 DEF TakeI
    <3>. HIDE DEF taken, k
    <3>2. taken.events = Append(k.events, DataEvent(frame.info))
      BY <1>1, <1>2, <3>1, DeliverFields
    <3>3. DataEvent(frame.info) \in Event /\ DataEvent(frame.info).type = "Data"
      BY <1>1, EventTypes DEF DataEvent
    <3>. QED
      BY <1>2, <3>2, <3>3, HearsOnly
  <2>2. CASE frame.ns # k.vr
    <3>1. taken = RejectOnce(k, REJ(k.vr))
      BY <2>2 DEF TakeI
    <3>. HIDE DEF taken, k
    <3>2. taken.events = k.events
      BY <1>2, <3>1, RejectOnceSpoke DEF Spoke
    <3>. QED
      BY <3>2 DEF Untold, Hears
  <2>. QED
    BY <2>1, <2>2
<1>. HIDE DEF k, taken, l2
<1>6. answer \in Frame /\ Proper(answer, taken)
  BY <1>4, ProperAnswers
<1>. HIDE DEF answer
<1>7. Spoke(taken, [Send(taken, answer) EXCEPT !.ack_pending = FALSE])
  BY <1>4, <1>6, SendSpoke
<1>8. l2.events = taken.events
  BY <1>3, <1>7 DEF Spoke
<1>9. Untold(l, l2)
  BY <1>2, <1>5, <1>8 DEF Untold, Hears
<1>. QED
  BY <1>9 DEF l2

\* What receive makes of l when it hears the frame.
Answers(l, frame, l2) ==
  \/ frame.type = "SABME" /\ l2 = OnSabme(l, frame)
  \/ frame.type = "DISC" /\ l2 = OnDisc(l, frame)
  \/ frame.type = "UA" /\ l2 = OnUa(l, frame)
  \/ frame.type = "DM" /\ l2 = OnDm(l, frame)
  \/ /\ l.state \in {"AwaitingEstablishment", "Connected"}
     /\ \/ frame.type = "RR" /\ l2 = OnRr(StandInForUa(l), frame)
        \/ frame.type = "REJ" /\ l2 = OnRej(StandInForUa(l), frame)
        \/ frame.type = "SREJ" /\ l2 = OnSrej(StandInForUa(l), frame)
        \/ frame.type = "I" /\ l2 = OnI(StandInForUa(l), frame)
  \/ l2 = l

\* s, and not told of a release or a reset.
Bears(l2, s) == s /\ ~ Hears(l2, "Released") /\ ~ Hears(l2, "Reset")

\* A set-mode frame, or one that is discarded.
LEMMA LineUnnumbered ==
  ASSUME NEW e \in Ends, NEW g, NEW a, NEW l, NEW w, NEW s, NEW b, NEW m, NEW v, NEW t,
         Line(e, g, a, l, w, s, b, m, v, t),
         v # <<>>, NEW frame, frame = Head(v), NEW l2,
         \/ frame.type = "SABME" /\ l2 = OnSabme(l, frame)
         \/ frame.type = "DISC" /\ l2 = OnDisc(l, frame)
         \/ frame.type = "UA" /\ l2 = OnUa(l, frame)
         \/ frame.type = "DM" /\ l2 = OnDm(l, frame)
         \/ l2 = l,
         NEW s2, s2 = Bears(l2, s)
  PROVE  /\ Line(e, g, a, l2, w, s2, b, m, Tail(v), t)
         /\ Given(l2.events) = Given(l.events) /\ Remembers(l, l2)
<1>1. s2 => s /\ ~ Hears(l2, "Released") /\ ~ Hears(l2, "Reset")
  BY DEF Bears
<1>2. frame \in Frame
  <2>1. v \in Seq(Frame)
    BY LineTypes
  <2>. QED
    BY <2>1, HeadTailProperties
<1>. DEFINE Kept2 == /\ Line(e, g, a, l2, w, s2, b, m, v, t)
                     /\ Given(l2.events) = Given(l.events) /\ Remembers(l, l2)
<1>3. ASSUME frame.type = "SABME", l2 = OnSabme(l, frame) PROVE Kept2
  BY <1>1, <1>3, LineSabme
<1>4. ASSUME frame.type = "DISC", l2 = OnDisc(l, frame) PROVE Kept2
  BY <1>1, <1>2, <1>4, LineDisc
<1>5. ASSUME l2 = OnUa(l, frame) PROVE Kept2
  BY <1>1, <1>5, LineUa
<1>6. ASSUME l2 = OnDm(l, frame) PROVE Kept2
  BY <1>1, <1>6, LineDm
<1>7. ASSUME l2 = l PROVE Kept2
  <2>1. Line(e, g, a, l2, w, s2, b, m, v, t)
    BY <1>1, <1>7, LineUnsettled
  <2>. QED
    BY <1>7, <2>1 DEF Remembers
<1>8. Kept2
  <2>. HIDE DEF Kept2
  <2>. QED
    BY <1>3, <1>4, <1>5, <1>6, <1>7
<1>. QED
  BY <1>8, LineHeard

\* A numbered frame that is heard.
LEMMA LineNumbered ==
  ASSUME ~ Srej,
         NEW e \in Ends, NEW g, NEW a, NEW l, NEW w, NEW s, NEW b, NEW m, NEW v, NEW t,
         Line(e, g, a, l, w, s, b, m, v, t),
         v # <<>>, NEW frame, frame = Head(v), NEW l2,
         l.state \in {"AwaitingEstablishment", "Connected"},
         \/ frame.type = "RR" /\ l2 = OnRr(StandInForUa(l), frame)
         \/ frame.type = "REJ" /\ l2 = OnRej(StandInForUa(l), frame)
         \/ frame.type = "SREJ" /\ l2 = OnSrej(StandInForUa(l), frame)
         \/ frame.type = "I" /\ l2 = OnI(StandInForUa(l), frame)
  PROVE  /\ Line(e, g, a, l2, w, s, b, m, Tail(v), t) /\ Remembers(l, l2)
         /\ \/ Given(l2.events) = Given(l.events)
            \/ Untold(l, l2) /\ \E x \in Info : Takes(l, l2, b, t, x)
<1>. DEFINE k == StandInForUa(l)
<1>1. /\ Line(e, g, a, k, w, s, b, m, v, t) /\ k.state = "Connected"
      /\ Given(k.events) = Given(l.events) /\ Remembers(l, k)
  BY LineOpen
<1>2. frame \in Frame
  <2>1. v \in Seq(Frame)
    BY LineTypes
  <2>. QED
    BY <2>1, HeadTailProperties
<1>3. l \in Entity
  BY LineTypes
<1>4. Untold(l, k)
  BY <1>3, OpenTells
<1>. HIDE DEF k
<1>5. ASSUME frame.type = "I", l2 = OnI(k, frame)
      PROVE  /\ Line(e, g, a, l2, w, s, b, m, Tail(v), t) /\ Remembers(l, l2)
             /\ \/ Given(l2.events) = Given(l.events)
                \/ Untold(l, l2) /\ \E x \in Info : Takes(l, l2, b, t, x)
  <2>1. Line(e, g, a, l2, w, s, b, m, Tail(v), t) /\ Grew(k, l2, b, t) /\ Remembers(k, l2)
    BY <1>1, <1>5, LineI
  <2>2. k \in Entity /\ k.held = NoneHeld /\ Sound(k)
    BY <1>1, LineTypes
  <2>3. Untold(k, l2)
    BY <1>1, <1>2, <1>5, <2>2, ITells
  <2>4. Remembers(l, l2) /\ Untold(l, l2)
    BY <1>1, <1>4, <2>1, <2>3 DEF Remembers, Untold
  <2>5. Newest(k) = Newest(l)
    BY <1>1 DEF Newest
  <2>6. Given(l2.events) = Given(l.events) \/ \E x \in Info : Takes(l, l2, b, t, x)
    BY <1>1, <2>1, <2>5 DEF Grew, Takes
  <2>. QED
    BY <2>1, <2>4, <2>6
<1>6. ASSUME \/ frame.type = "RR" /\ l2 = OnRr(k, frame)
             \/ frame.type = "REJ" /\ l2 = OnRej(k, frame)
      PROVE  /\ Line(e, g, a, l2, w, s, b, m, Tail(v), t)
             /\ Given(l2.events) = Given(k.events) /\ Remembers(k, l2)
  <2>1. l2 = IF frame.type = "RR" THEN OnRr(k, frame) ELSE OnRej(k, frame)
    BY <1>6
  <2>2. frame.type \in {"RR", "REJ"}
    BY <1>6
  <2>. QED
    BY <1>1, <2>1, <2>2, LineSupervised
<1>7. ASSUME frame.type = "SREJ", l2 = OnSrej(k, frame)
      PROVE  /\ Line(e, g, a, l2, w, s, b, m, Tail(v), t)
             /\ Given(l2.events) = Given(k.events) /\ Remembers(k, l2)
  <2>1. /\ Line(e, g, a, l2, w, s, b, m, v, t)
        /\ Given(l2.events) = Given(k.events) /\ Remembers(k, l2)
    BY <1>1, <1>2, <1>7, LineSrej
  <2>. QED
    BY <2>1, LineHeard
<1>8. CASE frame.type = "I" /\ l2 = OnI(k, frame)
  BY <1>5, <1>8
<1>9. CASE \/ frame.type = "RR" /\ l2 = OnRr(k, frame)
           \/ frame.type = "REJ" /\ l2 = OnRej(k, frame)
           \/ frame.type = "SREJ" /\ l2 = OnSrej(k, frame)
  BY <1>1, <1>6, <1>7, <1>9 DEF Remembers
<1>. QED
  BY <1>8, <1>9 DEF k

\* Any frame.
LEMMA LineReceives ==
  ASSUME ~ Srej,
         NEW e \in Ends, NEW g, NEW a, NEW l, NEW w, NEW s, NEW b, NEW m, NEW v, NEW t,
         Line(e, g, a, l, w, s, b, m, v, t),
         v # <<>>, NEW l2, Answers(l, Head(v), l2), NEW s2, s2 = Bears(l2, s)
  PROVE  /\ Line(e, g, a, l2, w, s2, b, m, Tail(v), t) /\ Remembers(l, l2)
         /\ \/ Given(l2.events) = Given(l.events)
            \/ Untold(l, l2) /\ \E x \in Info : Takes(l, l2, b, t, x)
<1>. DEFINE f == Head(v)
<1>1. CASE \/ f.type = "SABME" /\ l2 = OnSabme(l, f)
           \/ f.type = "DISC" /\ l2 = OnDisc(l, f)
           \/ f.type = "UA" /\ l2 = OnUa(l, f)
           \/ f.type = "DM" /\ l2 = OnDm(l, f)
           \/ l2 = l
  BY <1>1, LineUnnumbered
<1>2. CASE /\ l.state \in {"AwaitingEstablishment", "Connected"}
           /\ \/ f.type = "RR" /\ l2 = OnRr(StandInForUa(l), f)
              \/ f.type = "REJ" /\ l2 = OnRej(StandInForUa(l), f)
              \/ f.type = "SREJ" /\ l2 = OnSrej(StandInForUa(l), f)
              \/ f.type = "I" /\ l2 = OnI(StandInForUa(l), f)
  <2>1. /\ Line(e, g, a, l2, w, s, b, m, Tail(v), t) /\ Remembers(l, l2)
        /\ \/ Given(l2.events) = Given(l.events)
           \/ Untold(l, l2) /\ \E x \in Info : Takes(l, l2, b, t, x)
    BY <1>2, LineNumbered
  <2>2. s2 => s
    BY DEF Bears
  <2>3. Line(e, g, a, l2, w, s2, b, m, Tail(v), t)
    BY <2>1, <2>2, LineUnsettled
  <2>. QED
    BY <2>1, <2>3
<1>. QED
  BY <1>1, <1>2 DEF Answers

-----------------------------------------------------------------------------
(* The invariant of the two ends and the line between them.                *)

\* The line between e and its peer.
Linked(e) ==
  Line(e, begun, accepted[e], ent[e], wire[e], Settled(e),
       accepted[Peer(e)], ent[Peer(e)], wire[Peer(e)], Settled(Peer(e)))

\* The inductive invariant.
LInv == IInv /\ Linked("Originator")

\* There are two ends, each the other's peer.
LEMMA Peers ==
  ASSUME NEW e \in Ends
  PROVE  Peer(e) \in Ends /\ Peer(e) # e /\ Peer(Peer(e)) = e /\ Ends = {e, Peer(e)}
BY DEF Ends, Peer

\* The line is the same seen from either end.
LEMMA LinkedBoth ==
  ASSUME LInv, NEW e \in Ends
  PROVE  Linked(e)
<1>1. "Originator" \in Ends /\ Linked("Originator")
  BY DEF LInv, Ends
<1>2. Linked(Peer("Originator"))
  <2>1. Peer(Peer("Originator")) = "Originator"
    BY <1>1, Peers
  <2>. QED
    BY <1>1, <2>1, LineTurned DEF Linked
<1>3. e = "Originator" \/ e = Peer("Originator")
  BY DEF Ends, Peer
<1>. QED
  BY <1>1, <1>2, <1>3

\* So is the line after a step.
LEMMA LinkedBack ==
  ASSUME NEW e \in Ends,
         Line(e, begun', accepted'[e], ent'[e], wire'[e], Settled(e)',
              accepted'[Peer(e)], ent'[Peer(e)], wire'[Peer(e)], Settled(Peer(e))')
  PROVE  Linked("Originator")'
<1>1. CASE e = "Originator"
  BY <1>1 DEF Linked
<1>2. CASE e # "Originator"
  <2>1. Peer(e) = "Originator" /\ Peer("Originator") = e
    BY <1>2 DEF Ends, Peer
  <2>2. Line(Peer(e), begun', accepted'[Peer(e)], ent'[Peer(e)], wire'[Peer(e)], Settled(Peer(e))',
             accepted'[e], ent'[e], wire'[e], Settled(e)')
    BY LineTurned
  <2>. QED
    BY <2>1, <2>2 DEF Linked
<1>. QED
  BY <1>1, <1>2

\* The end that a step leaves alone, and the one that acts.
LEMMA Elsewhere ==
  ASSUME TypeOK, NEW e \in Ends, NEW l2, ent' = [ent EXCEPT ![e] = l2],
         undecodable' = undecodable, releases'[Peer(e)] = releases[Peer(e)]
  PROVE  ent'[e] = l2 /\ ent'[Peer(e)] = ent[Peer(e)] /\ Settled(Peer(e))' = Settled(Peer(e))
<1>1. Peer(e) \in Ends /\ Peer(e) # e
  BY Peers
<1>2. ent'[e] = l2 /\ ent'[Peer(e)] = ent[Peer(e)]
  BY <1>1 DEF TypeOK
<1>. QED
  BY <1>2 DEF Settled, Told

\* Settled follows from what the end's own user was told.
LEMMA Itself ==
  ASSUME NEW e \in Ends, undecodable' = undecodable, releases' = releases,
         Remembers(ent[e], ent'[e])
  PROVE  /\ Settled(e)' => Bears(ent'[e], Settled(e))
         /\ Untold(ent[e], ent'[e]) => Settled(e)' = Settled(e)
<1>1. /\ Hears(ent[e], "Released") => Hears(ent'[e], "Released")
      /\ Hears(ent[e], "Reset") => Hears(ent'[e], "Reset")
  BY DEF Remembers
<1>2. /\ Told(e, "Released") <=> Hears(ent[e], "Released")
      /\ Told(e, "Reset") <=> Hears(ent[e], "Reset")
  BY DEF Told, Hears
<1>3. /\ Told(e, "Released")' <=> Hears(ent'[e], "Released")
      /\ Told(e, "Reset")' <=> Hears(ent'[e], "Reset")
  BY DEF Told, Hears
<1>4. Settled(e)' => Bears(ent'[e], Settled(e))
  BY <1>1, <1>2, <1>3 DEF Settled, Bears
<1>5. ASSUME Untold(ent[e], ent'[e]) PROVE Settled(e)' = Settled(e)
  <2>1. /\ Hears(ent'[e], "Released") => Hears(ent[e], "Released")
        /\ Hears(ent'[e], "Reset") => Hears(ent[e], "Reset")
    BY <1>5 DEF Untold
  <2>. QED
    BY <1>1, <1>2, <1>3, <2>1 DEF Settled
<1>. QED
  BY <1>4, <1>5

\* What a step in which end e acts comes to.
Outcome(e) ==
  /\ Linked("Originator")'
  /\ Given(ent'[Peer(e)].events) = Given(ent[Peer(e)].events)
  /\ Settled(Peer(e))' = Settled(Peer(e))
  /\ \/ /\ accepted' = [accepted EXCEPT ![e] = @ + 1]
        /\ Given(ent'[e].events) = Given(ent[e].events) /\ Settled(e)' = Settled(e)
     \/ /\ accepted' = accepted /\ Settled(e)' = Settled(e)
        /\ \E x \in Info : Takes(ent[e], ent'[e], accepted[Peer(e)], Settled(Peer(e)), x)
     \/ /\ accepted' = accepted
        /\ Given(ent'[e].events) = Given(ent[e].events)
        /\ Settled(e)' => Settled(e)

\* No new chunk is handed over, and none is taken.
LEMMA Quietly ==
  ASSUME TypeOK, NEW e \in Ends, NEW l2, ent' = [ent EXCEPT ![e] = l2],
         undecodable' = undecodable, releases' = releases, accepted' = accepted,
         wire'[Peer(e)] = wire[Peer(e)], NEW s2, s2 = Bears(l2, Settled(e)),
         Line(e, begun', accepted[e], l2, wire'[e], s2,
              accepted[Peer(e)], ent[Peer(e)], wire[Peer(e)], Settled(Peer(e))),
         Given(l2.events) = Given(ent[e].events), Remembers(ent[e], l2)
  PROVE  Outcome(e)
<1>1. ent'[e] = l2 /\ ent'[Peer(e)] = ent[Peer(e)] /\ Settled(Peer(e))' = Settled(Peer(e))
  BY Elsewhere
<1>2. Settled(e)' => s2
  BY <1>1, Itself
<1>3. Line(e, begun', accepted[e], l2, wire'[e], Settled(e)',
           accepted[Peer(e)], ent[Peer(e)], wire[Peer(e)], Settled(Peer(e)))
  BY <1>2, LineUnsettled
<1>4. Linked("Originator")'
  BY <1>1, <1>3, LinkedBack
<1>5. Settled(e)' => Settled(e)
  BY <1>2 DEF Bears
<1>. QED
  BY <1>1, <1>4, <1>5 DEF Outcome

-----------------------------------------------------------------------------
(* Every step keeps it.                                                    *)

\* s2 asks no less than s.
LEMMA BearsLess ==
  ASSUME NEW l2, NEW s, NEW s2, s2 = Bears(l2, s)
  PROVE  s2 => s
BY DEF Bears

\* begin_protocol.
LEMMA BeginOutcome ==
  ASSUME LInv, BeginProtocol
  PROVE  Outcome("Originator")
<1>. DEFINE e == "Originator"
            l == ent[e]
            l2 == Connect(l)
            s2 == Bears(l2, Settled(e))
<1>1. e \in Ends /\ TypeOK /\ Linked(e) /\ Begins(begun, begun')
  BY DEF Ends, LInv, IInv, TypeOK, BeginProtocol, Begins
<1>. HIDE DEF s2
<1>2. Line(e, begun, accepted[e], l, wire[e], Settled(e),
           accepted[Peer(e)], ent[Peer(e)], wire[Peer(e)], Settled(Peer(e)))
  BY <1>1 DEF Linked
<1>3. /\ Line(e, begun', accepted[e], l2, wire[e], Settled(e),
              accepted[Peer(e)], ent[Peer(e)], wire[Peer(e)], Settled(Peer(e)))
      /\ l.state = "Disconnected" /\ Given(l2.events) = Given(l.events) /\ Remembers(l, l2)
  BY <1>1, <1>2, LineConnects
<1>4. s2 = Bears(l2, Settled(e)) /\ (s2 => Settled(e))
  BY BearsLess DEF s2
<1>5. Line(e, begun', accepted[e], l2, wire[e], s2,
           accepted[Peer(e)], ent[Peer(e)], wire[Peer(e)], Settled(Peer(e)))
  BY <1>1, <1>3, <1>4, LineUnsettled
<1>6. /\ ent' = [ent EXCEPT ![e] = l2]
      /\ undecodable' = undecodable /\ releases' = releases /\ accepted' = accepted
      /\ wire' = wire
  BY <1>3 DEF BeginProtocol, environment
<1>. HIDE DEF l, l2
<1>7. Outcome(e)
  BY <1>1, <1>3, <1>4, <1>5, <1>6, Quietly DEF l
<1>. QED
  BY <1>7

\* A user's send.
LEMMA SendsOutcome ==
  ASSUME LInv, NEW e \in Ends, UserSends(e)
  PROVE  Outcome(e)
<1>. DEFINE l == ent[e]
            a == accepted[e]
            l2 == SendData(l, a + 1)
<1>1. TypeOK /\ Linked(e) /\ Peer(e) \in Ends /\ Peer(e) # e
  BY LinkedBoth, Peers DEF LInv, IInv
<1>2. /\ Line(e, begun, a + 1, l2, wire[e], Settled(e),
              accepted[Peer(e)], ent[Peer(e)], wire[Peer(e)], Settled(Peer(e)))
      /\ l2.events = l.events
  BY <1>1, LineSends DEF Linked
<1>3. /\ ent' = [ent EXCEPT ![e] = l2] /\ accepted' = [accepted EXCEPT ![e] = @ + 1]
      /\ undecodable' = undecodable /\ releases' = releases /\ begun' = begun /\ wire' = wire
  BY DEF UserSends, environment
<1>4. accepted'[e] = a + 1 /\ accepted'[Peer(e)] = accepted[Peer(e)]
  BY <1>1, <1>3 DEF TypeOK
<1>. HIDE DEF l2
<1>5. ent'[e] = l2 /\ ent'[Peer(e)] = ent[Peer(e)] /\ Settled(Peer(e))' = Settled(Peer(e))
  BY <1>1, <1>3, Elsewhere
<1>6. Settled(e)' = Settled(e)
  BY <1>2, <1>3, <1>5 DEF Settled, Told
<1>7. Linked("Originator")'
  BY <1>2, <1>3, <1>4, <1>5, <1>6, LinkedBack
<1>. QED
  BY <1>2, <1>3, <1>5, <1>6, <1>7 DEF Outcome

\* A user's disconnect.
LEMMA ReleasesOutcome ==
  ASSUME LInv, NEW e \in Ends, UserReleases(e)
  PROVE  Outcome(e)
<1>. DEFINE l == ent[e]
            l2 == Disconnect(l)
<1>1. TypeOK /\ Linked(e) /\ Peer(e) \in Ends /\ Peer(e) # e
  BY LinkedBoth, Peers DEF LInv, IInv
<1>2. /\ ent' = [ent EXCEPT ![e] = l2] /\ releases' = [releases EXCEPT ![e] = @ + 1]
      /\ l.state # "Disconnected" /\ undecodable' = undecodable /\ begun' = begun
      /\ wire' = wire /\ accepted' = accepted
  BY DEF UserReleases
<1>3. releases'[e] # 0 /\ releases'[Peer(e)] = releases[Peer(e)]
  BY <1>1, <1>2 DEF TypeOK
<1>4. ~ Settled(e)'
  BY <1>3 DEF Settled
<1>5. /\ Line(e, begun, accepted[e], l2, wire[e], Settled(e)',
              accepted[Peer(e)], ent[Peer(e)], wire[Peer(e)], Settled(Peer(e)))
      /\ Given(l2.events) = Given(l.events)
  BY <1>1, <1>2, <1>4, LineReleases DEF Linked
<1>. HIDE DEF l2
<1>6. ent'[e] = l2 /\ ent'[Peer(e)] = ent[Peer(e)] /\ Settled(Peer(e))' = Settled(Peer(e))
  BY <1>1, <1>2, <1>3, Elsewhere
<1>7. Linked("Originator")'
  BY <1>2, <1>5, <1>6, LinkedBack
<1>. QED
  BY <1>2, <1>4, <1>5, <1>6, <1>7 DEF Outcome

\* Frames go onto the line.
LEMMA TransmitOutcome ==
  ASSUME LInv, NEW e \in Ends, Transmit(e)
  PROVE  Outcome(e)
<1>. DEFINE l == ent[e]
            l2 == Emptied(Pump(l))
            s2 == Bears(l2, Settled(e))
<1>1. TypeOK /\ Linked(e) /\ Peer(e) \in Ends /\ Peer(e) # e
  BY LinkedBoth, Peers DEF LInv, IInv
<1>2. /\ Line(e, begun, accepted[e], l2, wire[e] \o Pump(l).out, Settled(e),
              accepted[Peer(e)], ent[Peer(e)], wire[Peer(e)], Settled(Peer(e)))
      /\ l2.events = l.events
  BY <1>1, LineSent DEF Linked
<1>3. /\ ent' = [ent EXCEPT ![e] = l2] /\ wire' = [wire EXCEPT ![e] = wire[e] \o Pump(l).out]
      /\ undecodable' = undecodable /\ releases' = releases /\ begun' = begun
      /\ accepted' = accepted
  BY DEF Transmit, environment, Emptied
<1>4. wire'[e] = wire[e] \o Pump(l).out /\ wire'[Peer(e)] = wire[Peer(e)]
  BY <1>1, <1>3 DEF TypeOK
<1>5. s2 = Bears(l2, Settled(e)) /\ (s2 => Settled(e))
  BY BearsLess
<1>. HIDE DEF l2, s2
<1>6. Line(e, begun, accepted[e], l2, wire'[e], s2,
           accepted[Peer(e)], ent[Peer(e)], wire[Peer(e)], Settled(Peer(e)))
  BY <1>2, <1>4, <1>5, LineUnsettled
<1>7. Given(l2.events) = Given(l.events) /\ Remembers(l, l2)
  BY <1>2 DEF Remembers, Hears
<1>. QED
  BY <1>1, <1>3, <1>4, <1>5, <1>6, <1>7, Quietly

\* The line loses a frame.
LEMMA LoseOutcome ==
  ASSUME LInv, NEW e \in Ends, Lose(e)
  PROVE  Outcome(e)
<1>. DEFINE l == ent[e]
            s2 == Bears(l, Settled(e))
<1>1. TypeOK /\ Linked(e) /\ Peer(e) \in Ends /\ Peer(e) # e
  BY LinkedBoth, Peers DEF LInv, IInv
<1>2. Line(e, begun, accepted[e], l, Tail(wire[e]), Settled(e),
           accepted[Peer(e)], ent[Peer(e)], wire[Peer(e)], Settled(Peer(e)))
  BY <1>1, LineHeard DEF Linked, Lose
<1>3. /\ ent' = ent /\ wire' = [wire EXCEPT ![e] = Tail(wire[e])]
      /\ undecodable' = undecodable /\ releases' = releases /\ begun' = begun
      /\ accepted' = accepted
  BY DEF Lose
<1>4. wire'[e] = Tail(wire[e]) /\ wire'[Peer(e)] = wire[Peer(e)]
  BY <1>1, <1>3 DEF TypeOK
<1>5. ent' = [ent EXCEPT ![e] = l]
  BY <1>1, <1>3 DEF TypeOK
<1>6. s2 = Bears(l, Settled(e)) /\ (s2 => Settled(e))
  BY BearsLess
<1>7. Remembers(l, l)
  BY DEF Remembers
<1>. HIDE DEF l, s2
<1>8. Line(e, begun', accepted[e], l, wire'[e], s2,
           accepted[Peer(e)], ent[Peer(e)], wire[Peer(e)], Settled(Peer(e)))
  BY <1>2, <1>3, <1>4, <1>6, LineUnsettled
<1>. QED
  BY <1>1, <1>3, <1>4, <1>5, <1>6, <1>7, <1>8, Quietly DEF l

\* T401 runs out.
LEMMA ExpireOutcome ==
  ASSUME LInv, NEW e \in Ends, Expire(e)
  PROVE  Outcome(e)
<1>. DEFINE l == ent[e]
<1>1. TypeOK /\ Linked(e) /\ Peer(e) \in Ends /\ Peer(e) # e
  BY LinkedBoth, Peers DEF LInv, IInv
<1>2. PICK l2 :
        /\ Expires(e, l2)
        /\ \/ l2 = Fail(Expired(l))
           \/ l2 = PollPeer(Expired(l)) \/ l2 = ResendDisc(Expired(l))
           \/ l.state = "AwaitingEstablishment" /\ l2 = ResendSabme(Expired(l))
  BY DEF Expire, GiveUp, AskAgain, ReleaseAgain, Poll
<1>3. /\ ent' = [ent EXCEPT ![e] = l2] /\ wire' = wire
      /\ undecodable' = undecodable /\ releases' = releases /\ begun' = begun
      /\ accepted' = accepted
  BY <1>2 DEF Expires
<1>. DEFINE s2 == Bears(l2, Settled(e))
<1>4. /\ s2 = Bears(l2, Settled(e)) /\ (s2 => Settled(e))
      /\ s2 => Settled(e) /\ ~ Hears(l2, "Released")
  BY DEF Bears
<1>. HIDE DEF s2
<1>5. /\ Line(e, begun, accepted[e], l2, wire[e], s2,
              accepted[Peer(e)], ent[Peer(e)], wire[Peer(e)], Settled(Peer(e)))
      /\ Given(l2.events) = Given(l.events) /\ Remembers(l, l2)
  <2>1. CASE l2 = Fail(Expired(l))
    BY <1>1, <1>4, <2>1, LineFails DEF Linked
  <2>2. CASE \/ l2 = PollPeer(Expired(l)) \/ l2 = ResendDisc(Expired(l))
             \/ l.state = "AwaitingEstablishment" /\ l2 = ResendSabme(Expired(l))
    <3>1. /\ Line(e, begun, accepted[e], l2, wire[e], Settled(e),
                  accepted[Peer(e)], ent[Peer(e)], wire[Peer(e)], Settled(Peer(e)))
          /\ Given(l2.events) = Given(l.events) /\ Remembers(l, l2)
      BY <1>1, <2>2, LineExpires DEF Linked
    <3>. QED
      BY <1>4, <3>1, LineUnsettled
  <2>. QED
    BY <1>2, <2>1, <2>2
<1>. QED
  BY <1>1, <1>3, <1>4, <1>5, Quietly

\* No stream fails to decode.
LEMMA AllDecode ==
  ASSUME MaxUndecodable = 0, TypeOK, NEW e \in Ends, Undecodable(e)
  PROVE  FALSE
<1>1. undecodable["Originator"] \in Nat /\ undecodable["Answerer"] \in Nat
  BY DEF TypeOK, Ends
<1>2. undecodable["Originator"] + undecodable["Answerer"] < 0
  BY DEF Undecodable
<1>. DEFINE x == undecodable["Originator"]
            y == undecodable["Answerer"]
<1>. HIDE DEF x, y
<1>3. x \in Nat /\ y \in Nat /\ x + y < 0
  BY <1>1, <1>2 DEF x, y
<1>. QED
  BY <1>3

\* A frame is received.
LEMMA ReceiveOutcome ==
  ASSUME ~ Srej, MaxUndecodable = 0, LInv, NEW e \in Ends, Receive(e)
  PROVE  Outcome(e)
<1>. DEFINE l == ent[e]
            p == Peer(e)
            v == wire[p]
            b == accepted[p]
            t == Settled(p)
<1>1. TypeOK /\ Linked(e) /\ p \in Ends /\ p # e
  BY LinkedBoth, Peers DEF LInv, IInv
<1>2. PICK l2 : v # <<>> /\ Answers(l, Head(v), l2) /\ Heard(e, l2) /\ undecodable' = undecodable
  <2>1. ASSUME Undecodable(e) PROVE FALSE
    BY <1>1, <2>1, AllDecode
  <2>2. \/ RecvSabme(e) \/ RecvDisc(e) \/ RecvUa(e) \/ RecvDm(e)
        \/ RecvRr(e) \/ RecvRej(e) \/ RecvSrej(e) \/ RecvI(e) \/ Discard(e)
    BY <2>1 DEF Receive
  <2>. QED
    BY <2>2 DEF RecvSabme, RecvDisc, RecvUa, RecvDm, RecvRr, RecvRej, RecvSrej, RecvI, Discard,
                Arrives, Arriving, Open, NowOpen, Answers
<1>3. /\ ent' = [ent EXCEPT ![e] = l2] /\ wire' = [wire EXCEPT ![p] = Tail(v)]
      /\ undecodable' = undecodable /\ releases' = releases /\ begun' = begun
      /\ accepted' = accepted
  BY <1>2 DEF Heard, environment
<1>4. wire'[p] = Tail(v) /\ wire'[e] = wire[e]
  BY <1>1, <1>3 DEF TypeOK
<1>. DEFINE s2 == Bears(l2, Settled(e))
<1>5. s2 = Bears(l2, Settled(e))
  OBVIOUS
<1>. HIDE DEF s2
<1>6. /\ Line(e, begun, accepted[e], l2, wire[e], s2, b, ent[p], Tail(v), t) /\ Remembers(l, l2)
      /\ \/ Given(l2.events) = Given(l.events)
         \/ Untold(l, l2) /\ \E x \in Info : Takes(l, l2, b, t, x)
  BY <1>1, <1>2, <1>5, LineReceives DEF Linked
<1>7. ent'[e] = l2 /\ ent'[p] = ent[p] /\ Settled(p)' = t
  BY <1>1, <1>3, Elsewhere
<1>8. (Settled(e)' => s2) /\ (Untold(l, l2) => Settled(e)' = Settled(e))
  BY <1>3, <1>5, <1>6, <1>7, Itself
<1>9. Line(e, begun, accepted[e], l2, wire[e], Settled(e)', b, ent[p], Tail(v), t)
  BY <1>6, <1>8, LineUnsettled
<1>10. Linked("Originator")'
  BY <1>3, <1>4, <1>7, <1>9, LinkedBack
<1>11. Settled(e)' => Settled(e)
  BY <1>5, <1>8 DEF Bears
<1>. QED
  BY <1>3, <1>6, <1>7, <1>8, <1>10, <1>11 DEF Outcome

-----------------------------------------------------------------------------
(* The inductive invariant and the theorems that follow from it.           *)

LEMMA StepOutcome ==
  ASSUME ~ Srej, MaxUndecodable = 0, LInv, Next
  PROVE  \E e \in Ends : Outcome(e)
<1>1. CASE BeginProtocol
  BY <1>1, BeginOutcome DEF Ends
<1>2. ASSUME NEW e \in Ends,
             \/ UserSends(e) \/ UserReleases(e)
             \/ Transmit(e) \/ Lose(e) \/ Receive(e) \/ Expire(e)
      PROVE  Outcome(e)
  BY <1>2, SendsOutcome, ReleasesOutcome, TransmitOutcome, LoseOutcome, ReceiveOutcome,
     ExpireOutcome
<1>. QED
  BY <1>1, <1>2 DEF Next

\* Two entities that have just been made.
LEMMA NewWay ==
  ASSUME NEW s
  PROVE  OneWay(0, NewEntity, <<>>, NewEntity, <<>>, s)
<1>. DEFINE l == NewEntity
            q == <<>> \o l.out
<1>1. /\ l.pending = <<>> /\ l.unacked = <<>> /\ l.out = <<>> /\ l.events = <<>>
      /\ l.va = 0 /\ l.vr = 0 /\ l.held = NoneHeld /\ l.state = "Disconnected"
  BY DEF NewEntity
<1>2. l \in Entity
  BY NewEntityType
<1>3. Sound(l)
  BY DEF NewEntity, Sound, WindowOf, Timed, Waiting
<1>. HIDE DEF l
<1>4. /\ Len(l.pending) = 0 /\ Len(l.unacked) = 0
      /\ q \in Seq(Frame) /\ Len(q) = 0 /\ <<>> \in Seq(Frame)
  BY <1>1
<1>5. Sent(0, l) = 0 /\ Gone(0, l) = 0
  BY <1>4 DEF Sent, Gone
<1>6. Given(l.events) = <<>> /\ Newest(l) = 0
  BY <1>1, GivenNone DEF Newest
<1>7. Plus(0, 0) = 0
  BY LapmParams DEF Plus
<1>. HIDE DEF q
<1>8. Queued(0, l) /\ Order(0, 0, 0, q, 0, 0) /\ Tally(0, 0, q, 0, 0)
  <2>1. Queued(0, l)
    BY <1>4, <1>5 DEF Queued
  <2>2. Order(0, 0, 0, q, 0, 0)
    BY <1>4 DEF Order
  <2>3. Tally(0, 0, q, 0, 0)
    BY <1>4, <1>7 DEF Tally
  <2>. QED
    BY <2>1, <2>2, <2>3
<1>9. Given(l.events) = Counting(0)
  BY <1>6 DEF Counting
<1>10. Unbroken(0, l, l, <<>>)
  BY <1>1, <1>4, <1>5, <1>6, <1>8, <1>9 DEF Unbroken, q
<1>11. OneWay(0, l, <<>>, l, <<>>, s)
  BY <1>1, <1>2, <1>3, <1>4, <1>5, <1>6, <1>8, <1>10 DEF OneWay, q
<1>. QED
  BY <1>11 DEF l

\* The line is consistent at first.
LEMMA InitLinked == Init => LInv
<1>1. SUFFICES ASSUME Init PROVE LInv
  OBVIOUS
<1>. DEFINE l == NewEntity
            s == Settled("Originator")
            t == Settled("Answerer")
<1>2. IInv
  <2>1. TypeOK
    BY <1>1, InitType
  <2>2. Sound(NewEntity)
    BY DEF NewEntity, Sound, WindowOf, Timed, Waiting
  <2>. QED
    BY <1>1, <2>1, <2>2 DEF Init, IInv
<1>3. Both(0, l, <<>>, s, 0, l, <<>>, t)
  BY NewWay DEF Both
<1>4. Opening(begun, l, <<>>, l, <<>>)
  <2>1. l.out = <<>> /\ l.events = <<>> /\ l.state = "Disconnected"
    BY DEF NewEntity
  <2>. HIDE DEF l
  <2>2. Len(<<>> \o l.out) = 0
    BY <2>1
  <2>3. Given(l.events) = <<>>
    BY <2>1, GivenNone
  <2>4. 1 .. Len(<<>> \o l.out) = {}
    BY <2>2
  <2>. QED
    BY <2>1, <2>3, <2>4 DEF Opening
<1>5. /\ Peer("Originator") = "Answerer" /\ "Originator" \in Ends /\ "Answerer" \in Ends
  BY DEF Peer, Ends
<1>6. /\ accepted["Originator"] = 0 /\ accepted["Answerer"] = 0
      /\ ent["Originator"] = l /\ ent["Answerer"] = l
      /\ wire["Originator"] = <<>> /\ wire["Answerer"] = <<>>
  BY <1>1, <1>5 DEF Init
<1>. HIDE DEF l, s, t
<1>7. Line("Originator", begun, 0, l, <<>>, s, 0, l, <<>>, t)
  BY <1>3, <1>4 DEF Line, Opens
<1>8. Linked("Originator")
  BY <1>5, <1>6, <1>7 DEF Linked, s, t
<1>. QED
  BY <1>2, <1>8 DEF LInv

\* A stutter changes nothing.
LEMMA SameLinked ==
  ASSUME LInv, UNCHANGED vars
  PROVE  LInv'
<1>1. IInv'
  BY DEF LInv, IInv, TypeOK, vars
<1>2. Linked("Originator")'
  BY DEF LInv, Linked, Settled, Told, vars
<1>. QED
  BY <1>1, <1>2 DEF LInv

\* The two ends and the line between them stay consistent.
THEOREM LinkConsistent ==
  ASSUME ~ Srej, MaxUndecodable = 0
  PROVE  Spec => []LInv
<1>1. Init => LInv
  BY InitLinked
<1>2. LInv /\ IInv' /\ [Next]_vars => LInv'
  <2>1. SUFFICES ASSUME LInv, IInv', [Next]_vars PROVE LInv'
    OBVIOUS
  <2>2. CASE Next
    BY <2>1, <2>2, StepOutcome DEF Outcome, LInv
  <2>3. CASE UNCHANGED vars
    BY <2>1, <2>3, SameLinked
  <2>. QED
    BY <2>1, <2>2, <2>3
<1>3. Spec => []IInv
  BY Inductive
<1>. QED
  BY <1>1, <1>2, <1>3, PTL DEF Spec

\* A chunk that the sender no longer keeps is one the receiver has.
LEMMA KeptOrGiven ==
  ASSUME NEW a, NEW l, NEW w, NEW m, NEW v, OneWay(a, l, w, m, v, TRUE), NEW x \in 1 .. a
  PROVE  \/ x \in Range(l.pending)
         \/ \E u \in Range(l.unacked) : u.info = x
         \/ x \in Range(Given(m.events))
<1>. DEFINE S == Sent(a, l)
            G == Gone(a, l)
            n == Newest(m)
<1>1. /\ a \in Nat /\ l \in Entity /\ m \in Entity /\ Sound(l) /\ Queued(a, l)
      /\ Unbroken(a, l, m, v)
  BY DEF OneWay
<1>2. /\ Len(l.pending) \in Nat /\ Len(l.unacked) \in Nat /\ S \in Nat /\ G \in Nat
      /\ S - G = Len(l.unacked) /\ a = S + Len(l.pending)
  BY <1>1, Sizes
<1>3. n \in Nat /\ G <= n /\ Given(m.events) = Counting(n)
  BY <1>1, NewestType DEF Unbroken, Tally
<1>4. l.pending \in Seq(Info) /\ l.unacked \in Seq(Unacked)
  BY <1>1, EntityFields
<1>5. /\ DOMAIN l.pending = 1 .. Len(l.pending) /\ DOMAIN l.unacked = 1 .. Len(l.unacked)
  BY <1>4, LenProperties
<1>. DEFINE P == Len(l.pending)
            U == Len(l.unacked)
<1>6. /\ \A i \in 1 .. U : l.unacked[i].info = G + i
      /\ \A i \in 1 .. P : l.pending[i] = S + i
  BY <1>1 DEF Queued
<1>7. P \in Nat /\ U \in Nat /\ S \in Nat /\ G \in Nat /\ S - G = U /\ a = S + P /\ a \in Nat
  BY <1>1, <1>2
<1>. HIDE DEF S, G, P, U, n
<1>8. CASE x <= G
  <2>1. x \in 1 .. n
    BY <1>3, <1>7, <1>8
  <2>2. DOMAIN Counting(n) = 1 .. n /\ Counting(n)[x] = x
    BY <2>1 DEF Counting
  <2>. QED
    BY <1>3, <2>1, <2>2 DEF Range
<1>9. CASE G < x /\ x <= S
  <2>1. x - G \in 1 .. U /\ G + (x - G) = x
    BY <1>7, <1>9
  <2>2. l.unacked[x - G].info = x
    BY <1>6, <2>1
  <2>3. l.unacked[x - G] \in Range(l.unacked)
    BY <1>5, <2>1 DEF Range, U
  <2>. QED
    BY <2>2, <2>3
<1>10. CASE S < x
  <2>1. x - S \in 1 .. P /\ S + (x - S) = x
    BY <1>7, <1>10
  <2>2. l.pending[x - S] = x
    BY <1>6, <2>1
  <2>. QED
    BY <1>5, <2>1, <2>2 DEF Range, P
<1>11. x <= G \/ (G < x /\ x <= S) \/ S < x
  BY <1>7
<1>. QED
  BY <1>8, <1>9, <1>10, <1>11

\* No acknowledgement retires a frame that did not arrive: with go-back-N and
\* a decoder that never fails, whatever an end no longer keeps its peer's user
\* has (acknowledge, retransmit_from, deliver and the resets).
THEOREM NothingIsForgotten ==
  ASSUME ~ Srej, MaxUndecodable = 0
  PROVE  Spec => []NothingForgotten
<1>1. LInv => NothingForgotten
  <2>1. SUFFICES ASSUME LInv, NEW e \in Ends, Settled(e),
                        NEW x \in 1 .. accepted[e]
                 PROVE  x \in Range(ent[e].pending) \cup {u.info : u \in Range(ent[e].unacked)}
                                \cup Range(Received(Peer(e)))
    BY DEF NothingForgotten
  <2>2. OneWay(accepted[e], ent[e], wire[e], ent[Peer(e)], wire[Peer(e)], Settled(e))
    BY <2>1, LinkedBoth DEF Linked, Line, Both
  <2>3. OneWay(accepted[e], ent[e], wire[e], ent[Peer(e)], wire[Peer(e)], TRUE)
    BY <2>1, <2>2 DEF OneWay
  <2>4. \/ x \in Range(ent[e].pending)
        \/ \E u \in Range(ent[e].unacked) : u.info = x
        \/ x \in Range(Given(ent[Peer(e)].events))
    BY <2>1, <2>3, KeptOrGiven
  <2>. QED
    BY <2>4 DEF Received
<1>2. Spec => []LInv
  BY LinkConsistent
<1>. QED
  BY <1>1, <1>2, PTL

-----------------------------------------------------------------------------
(* The two entities implement a reliable link.                             *)

\* One more element.
LEMMA OneMore ==
  ASSUME NEW old \in Seq(Info), NEW x \in Info, NEW new, new = Append(old, x)
  PROVE  /\ Len(new) > Len(old) /\ Len(new) = Len(old) + 1 /\ Len(old) \in Nat
         /\ old \o SubSeq(new, Len(old) + 1, Len(new)) = new
         /\ new[Len(old) + 1] = x /\ SubSeq(new, 1, Len(old)) = old
<1>1. /\ new \in Seq(Info) /\ Len(new) = Len(old) + 1 /\ Len(old) \in Nat
      /\ \A i \in 1 .. Len(old) : new[i] = old[i]
      /\ new[Len(old) + 1] = x
  BY AppendProperties, LenProperties
<1>. DEFINE more == SubSeq(new, Len(old) + 1, Len(new))
            front == SubSeq(new, 1, Len(old))
<1>2. more = <<x>>
  <2>1. Len(old) + 1 \in 1 .. Len(new) + 1 /\ Len(new) \in Len(old) .. Len(new)
    BY <1>1
  <2>2. /\ more \in Seq(Info) /\ Len(more) = 1 /\ more[1] = x
    BY <1>1, <2>1, SubSeqProperties
  <2>3. <<x>> \in Seq(Info) /\ Len(<<x>>) = 1 /\ <<x>>[1] = x
    OBVIOUS
  <2>. HIDE DEF more
  <2>4. \A i \in 1 .. Len(more) : more[i] = <<x>>[i]
    BY <2>2, <2>3
  <2>. QED
    BY <2>2, <2>3, <2>4, SeqEqual
<1>3. front = old
  <2>1. front \in Seq(Info) /\ Len(front) = Len(old) /\ \A i \in 1 .. Len(old) : front[i] = new[i]
    BY <1>1, SubSeqProperties
  <2>. HIDE DEF front
  <2>. QED
    BY <1>1, <2>1, SeqEqual
<1>4. old \o <<x>> = new
  BY AppendIsConcat
<1>. QED
  BY <1>1, <1>2, <1>3, <1>4

\* What a step comes to, in the terms of ReliableLink.
LEMMA OutcomeLinked ==
  ASSUME LInv, NEW e \in Ends, Outcome(e)
  PROVE  Link!Next \/ UNCHANGED Link!vars
<1>. DEFINE p == Peer(e)
            given == [z \in Ends |-> Received(z)]
            settled == [z \in Ends |-> Settled(z)]
<1>1. /\ p \in Ends /\ p # e /\ Ends = {e, p} /\ Linked(e) /\ TypeOK
  BY Peers, LinkedBoth DEF LInv, IInv
<1>2. Received(p)' = Received(p) /\ Settled(p)' = Settled(p)
  BY DEF Outcome, Received
<1>3. CASE /\ accepted' = [accepted EXCEPT ![e] = @ + 1]
           /\ Given(ent'[e].events) = Given(ent[e].events) /\ Settled(e)' = Settled(e)
  <2>1. given' = given /\ settled' = settled
    BY <1>1, <1>2, <1>3 DEF Received
  <2>2. Link!Accept(e)
    BY <1>3, <2>1 DEF Link!Accept
  <2>. QED
    BY <2>2 DEF Link!Next
<1>4. CASE /\ accepted' = accepted
           /\ Given(ent'[e].events) = Given(ent[e].events)
           /\ Settled(e)' => Settled(e)
  <2>1. given' = given
    BY <1>1, <1>2, <1>4 DEF Received
  <2>2. CASE Settled(e)' = Settled(e)
    <3>1. settled' = settled
      BY <1>1, <1>2, <2>2
    <3>. QED
      BY <1>4, <2>1, <3>1 DEF Link!vars
  <2>3. CASE Settled(e)' # Settled(e)
    <3>1. Settled(e)' = FALSE
      BY <1>4, <2>3 DEF Settled
    <3>2. settled' = [settled EXCEPT ![e] = FALSE]
      BY <1>1, <1>2, <3>1
    <3>3. Link!Unsettle(e)
      BY <1>4, <2>1, <3>2 DEF Link!Unsettle
    <3>. QED
      BY <3>3 DEF Link!Next
  <2>. QED
    BY <2>2, <2>3
<1>5. CASE /\ accepted' = accepted /\ Settled(e)' = Settled(e)
           /\ \E x \in Info : Takes(ent[e], ent'[e], accepted[p], Settled(p), x)
  <2>1. settled' = settled
    BY <1>1, <1>2, <1>5
  <2>2. PICK x \in Info : Takes(ent[e], ent'[e], accepted[p], Settled(p), x)
    BY <1>5
  <2>. DEFINE old == Received(e)
              new == Received(e)'
  <2>3. old \in Seq(Info) /\ new = Append(old, x)
    <3>1. ent[e].events \in Seq(Event)
      BY <1>1, LineTypes, EntityFields DEF Linked
    <3>. QED
      BY <2>2, <3>1, GivenType DEF Takes, Received
  <2>4. Newest(ent[e]) = Link!LastOf(old)
    BY DEF Newest, Link!LastOf, Received
  <2>5. /\ Newest(ent[e]) < x /\ x <= accepted[p]
        /\ Settled(p) => x = Newest(ent[e]) + 1
    BY <2>2 DEF Takes
  <2>6. given[e] = old /\ given'[e] = new /\ settled[p] = Settled(p)
    BY <1>1
  <2>7. given' = [given EXCEPT ![e] = new]
    BY <1>1, <1>2
  <2>. HIDE DEF old, new, given, settled
  <2>8. /\ Len(new) > Len(old) /\ Len(new) = Len(old) + 1 /\ Len(old) \in Nat
        /\ old \o SubSeq(new, Len(old) + 1, Len(new)) = new
        /\ new[Len(old) + 1] = x /\ SubSeq(new, 1, Len(old)) = old
    BY <2>3, OneMore
  <2>9. ASSUME NEW i \in Len(old) + 1 .. Len(new)
        PROVE  /\ new[i] > Link!LastOf(SubSeq(new, 1, i - 1))
               /\ settled[p] => new[i] = Link!LastOf(SubSeq(new, 1, i - 1)) + 1
               /\ new[i] <= accepted[p]
    <3>1. i = Len(old) + 1 /\ i - 1 = Len(old)
      BY <2>8
    <3>2. new[i] = x /\ SubSeq(new, 1, i - 1) = old
      BY <2>8, <3>1
    <3>3. Newest(ent[e]) \in Nat /\ x \in Nat
      <4>1. ent[e] \in Entity
        BY <1>1, LineTypes DEF Linked
      <4>. QED
        BY <4>1, NewestType DEF Info
    <3>. QED
      BY <2>4, <2>5, <2>6, <3>2, <3>3
  <2>10. Link!Give(e, SubSeq(new, Len(old) + 1, Len(new)))
    <3>. DEFINE more == SubSeq(new, Len(old) + 1, Len(new))
    <3>1. given[e] \o more = new
      BY <2>6, <2>8
    <3>. HIDE DEF more
    <3>2. /\ \A i \in Len(given[e]) + 1 .. Len(given[e] \o more) :
               /\ (given[e] \o more)[i] > Link!LastOf(SubSeq(given[e] \o more, 1, i - 1))
               /\ settled[p] => (given[e] \o more)[i]
                                  = Link!LastOf(SubSeq(given[e] \o more, 1, i - 1)) + 1
               /\ (given[e] \o more)[i] <= accepted[p]
          /\ given' = [given EXCEPT ![e] = given[e] \o more]
          /\ accepted' = accepted /\ settled' = settled
      BY <1>5, <2>1, <2>6, <2>7, <2>9, <3>1
    <3>3. Link!Give(e, more)
      BY <3>2 DEF Link!Give, given, settled
    <3>. QED
      BY <3>3 DEF more
  <2>11. Link!Deliver(e)
    BY <2>6, <2>8, <2>10 DEF Link!Deliver, given
  <2>. QED
    BY <2>11 DEF Link!Next
<1>. QED
  BY <1>3, <1>4, <1>5 DEF Outcome

\* What the users see is a reliable link: with go-back-N and a decoder that
\* never fails, chunks arrive in order, once, none made up, and none skipped
\* while the sending user has been told of no release or reset.
THEOREM LinkIsReliable ==
  ASSUME ~ Srej, MaxUndecodable = 0
  PROVE  Spec => LinkSpec
<1>1. Init => Link!Init
  <2>1. SUFFICES ASSUME Init PROVE Link!Init
    OBVIOUS
  <2>2. ASSUME NEW z \in Ends PROVE Received(z) = <<>> /\ Settled(z) = TRUE
    <3>1. ent[z].events = <<>> /\ releases[z] = 0 /\ undecodable[z] = 0
      BY <2>1 DEF Init, NewEntity
    <3>2. Received(z) = <<>>
      BY <3>1, GivenNone DEF Received
    <3>3. 1 .. Len(ent[z].events) = {}
      BY <3>1
    <3>. QED
      BY <3>1, <3>2, <3>3 DEF Settled, Told
  <2>. QED
    BY <2>1, <2>2 DEF Init, Link!Init
<1>2. LInv /\ [Next]_vars => [Link!Next]_Link!vars
  <2>1. SUFFICES ASSUME LInv, [Next]_vars PROVE Link!Next \/ UNCHANGED Link!vars
    OBVIOUS
  <2>2. CASE Next
    BY <2>1, <2>2, StepOutcome, OutcomeLinked
  <2>3. CASE UNCHANGED vars
    BY <2>3 DEF vars, Link!vars, Received, Settled, Told
  <2>. QED
    BY <2>1, <2>2, <2>3
<1>3. Spec => []LInv
  BY LinkConsistent
<1>. QED
  BY <1>1, <1>2, <1>3, PTL DEF Spec, LinkSpec, Link!Spec

=============================================================================
