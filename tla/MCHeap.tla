------------------------------- MODULE MCHeap -------------------------------
(***************************************************************************)
(* The bit operations of heap.c compute what Heap says they do.            *)
(***************************************************************************)
EXTENDS Heap, Bitwise

MCRange == 1 .. 300

\* IS_POWER_OF_2.
NoSecondBit(x) == x & (x - 1) = 0

\* fixSize: the bits of size - 1 are smeared to the right.
Smear(n, k) == n | (n \div 2 ^ k)
Smeared(size) ==
  Smear(Smear(Smear(Smear(Smear(size - 1, 1), 2), 4), 8), 16) + 1

ASSUME BitsAssumption ==
  \A n \in MCRange : /\ NoSecondBit(n) <=> IsPowerOf2(n)
                   /\ Smeared(n) = LeastPower(n)
=============================================================================
