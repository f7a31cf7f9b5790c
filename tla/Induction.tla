----------------------------- MODULE Induction ------------------------------
(***************************************************************************)
(* Induction over an interval for sets and functions: what the proofs need *)
(* of definitions that go through a sequence one element after another.    *)
(* No operator is a parameter, so that each lemma is cited as it stands.   *)
(***************************************************************************)
EXTENDS Integers, Sequences, WellFoundedInduction, TLAPS

\* A set of numbers that has a member has a least one.
LEMMA LeastMember ==
  ASSUME NEW T, T \subseteq Nat, T # {}
  PROVE  \E n \in T : \A m \in T : n <= m
<1>. DEFINE R == {ss \in Nat \X Nat : ss[1] < ss[2]}
<1>1. IsWellFoundedOn(R, Nat)
  BY NatLessThanWellFounded DEF OpToRel
<1>2. \E x \in T : \A y \in T : ~ (<<y, x>> \in R)
  BY <1>1, WFMin
<1>3. PICK n \in T : \A m \in T : ~ (<<m, n>> \in R)
  BY <1>2
<1>4. ASSUME NEW m \in T PROVE n <= m
  <2>1. m \in Nat /\ n \in Nat /\ ~ (<<m, n>> \in R)
    BY <1>3
  <2>2. m < n => <<m, n>> \in R
    BY <2>1
  <2>. QED
    BY <2>1, <2>2
<1>. QED
  BY <1>4

\* Induction on n, for the numbers that are in T.
LEMMA UpTo ==
  ASSUME NEW N \in Nat, NEW T, 0 \in T, \A n \in 0 .. N - 1 : n \in T => n + 1 \in T
  PROVE  \A n \in 0 .. N : n \in T
<1>. SUFFICES ASSUME NEW k \in 0 .. N, k \notin T PROVE FALSE
  OBVIOUS
<1>. DEFINE Bad == {n \in 0 .. N : n \notin T}
<1>1. Bad \subseteq Nat /\ Bad # {}
  OBVIOUS
<1>2. PICK n \in Bad : \A m \in Bad : n <= m
  BY <1>1, LeastMember
<1>3. n # 0 /\ n - 1 \in 0 .. N - 1
  BY <1>2
<1>4. n - 1 \in T
  BY <1>2, <1>3
<1>. QED
  BY <1>2, <1>3, <1>4

\* f is built by N steps from a: f[n] is step n of f[n - 1].
Iterates(f, N, S, a, step) ==
  /\ f \in [0 .. N -> S] /\ f[0] = a
  /\ \A n \in 1 .. N : f[n] = step[<<n, f[n - 1]>>]

\* What is built one step after another exists.
LEMMA Iterate ==
  ASSUME NEW S, NEW N \in Nat, NEW a \in S, NEW step \in [(1 .. N) \X S -> S]
  PROVE  \E f : Iterates(f, N, S, a, step)
<1>. DEFINE Steps(f, k) == f[0] = a /\ \A n \in 1 .. k : f[n] = step[<<n, f[n - 1]>>]
            T == {k \in 0 .. N : \E f \in [0 .. k -> S] : Steps(f, k)}
<1>1. 0 \in T
  <2>. DEFINE f == [n \in 0 .. 0 |-> a]
  <2>1. f \in [0 .. 0 -> S] /\ Steps(f, 0)
    OBVIOUS
  <2>2. \E g \in [0 .. 0 -> S] : Steps(g, 0)
    BY <2>1
  <2>. HIDE DEF Steps
  <2>. QED
    BY <2>2
<1>2. ASSUME NEW k \in 0 .. N - 1, k \in T PROVE k + 1 \in T
  <2>. HIDE DEF Steps
  <2>1. PICK f \in [0 .. k -> S] : Steps(f, k)
    BY <1>2
  <2>. DEFINE last == step[<<k + 1, f[k]>>]
              g == [n \in 0 .. k + 1 |-> IF n = k + 1 THEN last ELSE f[n]]
  <2>2. last \in S
    OBVIOUS
  <2>3. g[0] = f[0] /\ g[k + 1] = last /\ g[k] = f[k] /\ k + 1 - 1 = k
    OBVIOUS
  <2>4. \A n \in 1 .. k : g[n] = f[n] /\ g[n - 1] = f[n - 1]
    OBVIOUS
  <2>5. g[k + 1] = step[<<k + 1, g[k + 1 - 1]>>]
    BY <2>3
  <2>. HIDE DEF last
  <2>6. g \in [0 .. k + 1 -> S]
    BY <2>2
  <2>. HIDE DEF g
  <2>7. ASSUME NEW n \in 1 .. k + 1 PROVE g[n] = step[<<n, g[n - 1]>>]
    <3>1. CASE n = k + 1
      BY <2>5, <3>1
    <3>2. CASE n # k + 1
      <4>1. n \in 1 .. k
        BY <3>2
      <4>2. f[n] = step[<<n, f[n - 1]>>]
        BY <2>1, <4>1 DEF Steps
      <4>. QED
        BY <2>4, <4>1, <4>2
    <3>. QED
      BY <3>1, <3>2
  <2>8. Steps(g, k + 1)
    BY <2>1, <2>3, <2>7 DEF Steps
  <2>9. k + 1 \in 0 .. N
    OBVIOUS
  <2>. QED
    BY <2>6, <2>8, <2>9
<1>. HIDE DEF T
<1>3. N \in T
  BY <1>1, <1>2, UpTo
<1>. QED
  BY <1>3 DEF T, Iterates

=============================================================================
