----------------------------- MODULE ByteStream -----------------------------
(***************************************************************************)
(* What a connection promises the programs at its two ends: each reads     *)
(* what the other wrote, in order, nothing twice and nothing left out.     *)
(***************************************************************************)
EXTENDS Naturals, Sequences

CONSTANT Ends

VARIABLES written,   \* [Ends -> Nat]: octets a program has given to its end
          got        \* [Ends -> Seq(Nat)]: octets a program has read, each by its place

vars == <<written, got>>

Init ==
  /\ written = [e \in Ends |-> 0]
  /\ got = [e \in Ends |-> <<>>]

\* A program writes.
Write(e) ==
  /\ written' = [written EXCEPT ![e] = written'[e]] /\ written'[e] > written[e]
  /\ UNCHANGED got

\* A program reads the next octets of what the far one has written.
Read(e) ==
  /\ \E f \in Ends \ {e} : \E n \in Len(got[e]) + 1 .. written[f] :
       got' = [got EXCEPT ![e] = [i \in 1 .. n |-> i]]
  /\ UNCHANGED written

Next == \E e \in Ends : Write(e) \/ Read(e)

Spec == Init /\ [][Next]_vars
=============================================================================
