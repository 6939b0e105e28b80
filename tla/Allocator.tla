------------------------------ MODULE Allocator ------------------------------
(***************************************************************************)
(* What the heaps of Moonix promise (kalloc and kfree of kernel/heap.c,    *)
(* malloc and free of user/malloc.c): blocks of Total units are handed out *)
(* in powers of two, aligned to their size and disjoint, and a request     *)
(* fails only if no aligned run of the right size is free.                 *)
(***************************************************************************)
EXTENDS Integers

CONSTANTS Total,        \* the number of blocks of the heap, a power of two
          Requests      \* the numbers of blocks that are asked for

VARIABLES blocks,       \* the pieces in use, as records [off, len]
          asked,        \* the number of blocks the last request was for
          failed        \* whether that request failed (and panicked)

Units(b) == b.off .. b.off + b.len - 1

\* The powers of two are the numbers without an odd divisor but 1.
Power(n) == \A d \in 1 .. n : n % d = 0 => d = 1 \/ d % 2 = 0

\* The number of blocks a request for n is given.
Rounded(n) == CHOOSE m \in n .. 2 * n : Power(m) /\ \A j \in n .. m - 1 : ~Power(j)

\* The aligned pieces of len blocks that are wholly free.
FreePieces(len) ==
  {b \in [off : {len * i : i \in 0 .. Total \div len - 1}, len : {len}] :
     \A a \in blocks : Units(a) \cap Units(b) = {}}

Init == blocks = {} /\ asked = 0 /\ failed = FALSE

Alloc(n) ==
  /\ ~failed
  /\ asked' = n
  /\ IF FreePieces(Rounded(n)) = {}
       THEN failed' = TRUE /\ UNCHANGED blocks
       ELSE /\ \E b \in FreePieces(Rounded(n)) : blocks' = blocks \cup {b}
            /\ UNCHANGED failed

Free(b) ==
  /\ ~failed
  /\ blocks' = blocks \ {b}
  /\ UNCHANGED <<asked, failed>>

Next == \/ \E n \in Requests : Alloc(n)
        \/ \E b \in blocks : Free(b)

Spec == Init /\ [][Next]_<<blocks, asked, failed>>
=============================================================================
