-------------------------------- MODULE Heap --------------------------------
(***************************************************************************)
(* kernel/heap.c and user/malloc.c, which is a copy of it with other sizes *)
(* and unsigned types: a buddy system in an array.  Node 0 stands for the  *)
(* whole heap, the children of node i are 2i + 1 and 2i + 2, and           *)
(* longest[i] is the size of the largest free piece below node i.  The     *)
(* nodes below an allocated one keep the values they had when they were    *)
(* free.                                                                   *)
(*                                                                         *)
(* Every pass through a loop of buddyInit, buddyAlloc and buddyFree is a   *)
(* step.  Calls do not overlap: the kernel makes them with interrupts      *)
(* disabled, and the heap of a process belongs to its one thread.  A       *)
(* request that cannot be met ends the machine (kalloc) or the process     *)
(* (malloc).  The names are the kernel's.                                  *)
(*                                                                         *)
(* The history variables blocks, given and asked record the pieces in use  *)
(* and what was asked for.  Callers free what they were given; they may    *)
(* also pass the null pointer (the result for a size of 0) and other       *)
(* addresses outside of the heap, and addresses in a part of the heap that *)
(* is free, which a second free of one piece does.                         *)
(***************************************************************************)
EXTENDS Integers

CONSTANTS Total,        \* HEAP_BLOCK_NUM, a power of two
          MinBlock,     \* MIN_BLOCK_SIZE, the bytes of a block
          HEAP,         \* the address of the array HEAP
          Sizes,        \* the numbers of bytes that are asked for
          Foreign       \* addresses outside of the heap

\* IS_POWER_OF_2: x & (x - 1) is zero if x has no odd divisor but 1.
IsPowerOf2(x) == \A d \in 1 .. x : x % d = 0 => d = 1 \/ d % 2 = 0

ASSUME HeapAssumption == /\ Total \in Nat \ {0} /\ IsPowerOf2(Total)
                         /\ MinBlock \in Nat \ {0}
                         /\ HEAP \in Nat \ {0} /\ Sizes \subseteq Nat
                         /\ Foreign \subseteq Nat \ (HEAP .. HEAP + Total * MinBlock - 1)

VARIABLES pc,           \* the loop the heap is in
          longest,      \* buddyTree.longest
          index, nodeSize,      \* the locals of buddyInit, buddyAlloc, buddyFree
          offset,       \* the result of buddyAlloc, the argument of buddyFree
          bytes,        \* the argument of kalloc
          zeroed,       \* the blocks the last kalloc cleared
          blocks,       \* history: the pieces in use, [off, len]
          given,        \* history: what was asked for and is in use, [ptr, size]
          asked         \* history: the number of blocks of the last request

vars == <<pc, longest, index, nodeSize, offset, bytes, zeroed, blocks, given, asked>>

Index == 0 .. 2 * Total - 2
Left(i)   == 2 * i + 1
Right(i)  == 2 * i + 2
Parent(i) == (i + 1) \div 2 - 1
Larger(a, b) == IF a > b THEN a ELSE b

\* The least power of two that is not below size; the mutant forgets to
\* subtract 1 before it smears the bits to the right.
LeastPower(n) == CHOOSE m \in n .. 2 * n : IsPowerOf2(m) /\ \A j \in n .. m - 1 : ~IsPowerOf2(j)
fixSizeOfNext(size) == LeastPower(size + 1)
fixSize(size)       == LeastPower(size)

Return == /\ pc' = "ready"
          /\ index' = 0 /\ nodeSize' = 0 /\ offset' = 0 /\ bytes' = 0
-----------------------------------------------------------------------------
(* buddyInit: the size of a node is halved at the indices where a new      *)
(* level of the tree begins.                                               *)

Init ==
  /\ pc = "init"
  /\ longest = [i \in Index |-> 0]
  /\ index = 0 /\ nodeSize = 2 * Total
  /\ offset = 0 /\ bytes = 0
  /\ zeroed = {} /\ blocks = {} /\ given = {} /\ asked = 0

InitNode ==
  /\ pc = "init" /\ index < 2 * Total - 1
  /\ nodeSize' = IF IsPowerOf2(index + 1) THEN nodeSize \div 2 ELSE nodeSize
  /\ longest' = [longest EXCEPT ![index] = nodeSize']
  /\ index' = index + 1
  /\ UNCHANGED <<pc, offset, bytes, zeroed, blocks, given, asked>>

InitDone ==
  /\ pc = "init" /\ index >= 2 * Total - 1
  /\ Return
  /\ UNCHANGED <<longest, zeroed, blocks, given, asked>>
-----------------------------------------------------------------------------
(* kalloc and buddyAlloc.                                                  *)

\* The blocks that b bytes need, and the size of the piece they get.
Needed(b) == (b - 1) \div MinBlock + 1
Size(b)   == IF IsPowerOf2(Needed(b)) THEN Needed(b) ELSE fixSize(Needed(b))

\* The result is the null pointer.
AllocNothing ==
  /\ pc = "ready" /\ 0 \in Sizes
  /\ UNCHANGED vars

kalloc(b) ==
  /\ pc = "ready" /\ b > 0
  /\ longest[0] >= Size(b)
  /\ bytes' = b
  /\ index' = 0 /\ nodeSize' = Total
  /\ pc' = "down"
  /\ UNCHANGED <<longest, offset, zeroed, blocks, given, asked>>

Panic(b) ==
  /\ pc = "ready" /\ b > 0
  /\ longest[0] < Size(b)
  /\ asked' = Needed(b)
  /\ pc' = "failed"
  /\ UNCHANGED <<longest, index, nodeSize, offset, bytes, zeroed, blocks, given>>

\* The child to search: the smaller one that is large enough.  The mutant does
\* not look whether it is.
SmallerChild(i, size) == IF longest[Left(i)] <= longest[Right(i)] THEN Left(i) ELSE Right(i)
PickChild(i, size) ==
  IF longest[Left(i)] <= longest[Right(i)]
    THEN IF longest[Left(i)] >= size THEN Left(i) ELSE Right(i)
    ELSE IF longest[Right(i)] >= size THEN Right(i) ELSE Left(i)

Descend ==
  /\ pc = "down" /\ nodeSize # Size(bytes)
  /\ index' = PickChild(index, Size(bytes))
  /\ nodeSize' = nodeSize \div 2
  /\ UNCHANGED <<pc, longest, offset, bytes, zeroed, blocks, given, asked>>

\* The first block of a node of the given size.
Offset(i, size) == (i + 1) * size - Total

Take ==
  /\ pc = "down" /\ nodeSize = Size(bytes)
  /\ longest' = [longest EXCEPT ![index] = 0]
  /\ offset' = Offset(index, nodeSize)
  /\ pc' = "up"
  /\ asked' = Needed(bytes)
  /\ blocks' = blocks \cup {[off |-> offset', len |-> nodeSize]}
  /\ UNCHANGED <<index, nodeSize, bytes, zeroed, given>>

Ascend ==
  /\ pc = "up" /\ index # 0
  /\ index' = Parent(index)
  /\ longest' = [longest EXCEPT ![index'] = Larger(longest[Left(index')], longest[Right(index')])]
  /\ UNCHANGED <<pc, nodeSize, offset, bytes, zeroed, blocks, given, asked>>

\* The address of a block; the mutant forgets that blocks have a size.
AddressOfIndex(off) == HEAP + off
AddressOf(off) == HEAP + off * MinBlock

\* The piece is cleared; how much is computed anew from the number of bytes.
Clear ==
  /\ pc = "up" /\ index = 0
  /\ zeroed' = offset .. offset + fixSize(Needed(bytes)) - 1
  /\ given' = given \cup {[ptr |-> AddressOf(offset), size |-> bytes]}
  /\ Return
  /\ UNCHANGED <<longest, blocks, asked>>
-----------------------------------------------------------------------------
(* kfree and buddyFree.                                                    *)

\* The bounds kfree checks.
InHeap(ptr) == HEAP <= ptr /\ ptr <= HEAP + Total * MinBlock - MinBlock

kfree(ptr) ==
  /\ pc = "ready"
  /\ given' = {p \in given : p.ptr # ptr}
  /\ zeroed' = {}
  /\ IF InHeap(ptr) THEN /\ offset' = (ptr - HEAP) \div MinBlock
                         /\ index' = offset' + Total - 1
                         /\ nodeSize' = 1
                         /\ pc' = "find"
                    ELSE UNCHANGED <<pc, index, nodeSize, offset>>
  /\ UNCHANGED <<longest, bytes, blocks, asked>>

\* Upwards from the leaf of the first block to the node that was allocated.
Find ==
  /\ pc = "find" /\ longest[index] # 0 /\ index # 0
  /\ index' = Parent(index)
  /\ nodeSize' = 2 * nodeSize
  /\ UNCHANGED <<pc, longest, offset, bytes, zeroed, blocks, given, asked>>

\* Nothing is in use there.
NotUsed ==
  /\ pc = "find" /\ longest[index] # 0 /\ index = 0
  /\ Return
  /\ UNCHANGED <<longest, zeroed, blocks, given, asked>>

Found ==
  /\ pc = "find" /\ longest[index] = 0
  /\ longest' = [longest EXCEPT ![index] = nodeSize]
  /\ pc' = "merge"
  /\ blocks' = {b \in blocks : b.off # offset}
  /\ UNCHANGED <<index, nodeSize, offset, bytes, zeroed, given, asked>>

\* The value of a node of the given size from those of its children: two halves
\* that are free are one piece.  The mutant never merges.
NeverMerged(l, r, size) == Larger(l, r)
Merged(l, r, size)      == IF l + r = size THEN size ELSE Larger(l, r)

Merge ==
  /\ pc = "merge" /\ index # 0
  /\ index' = Parent(index)
  /\ nodeSize' = 2 * nodeSize
  /\ longest' = [longest EXCEPT ![index'] =
                   Merged(longest[Left(index')], longest[Right(index')], nodeSize')]
  /\ UNCHANGED <<pc, offset, bytes, zeroed, blocks, given, asked>>

FreeDone ==
  /\ pc = "merge" /\ index = 0
  /\ Return
  /\ UNCHANGED <<longest, zeroed, blocks, given, asked>>
-----------------------------------------------------------------------------
\* panic does not return.
Stopped == pc = "failed" /\ UNCHANGED vars

Heaps == INSTANCE Allocator WITH failed <- pc = "failed", Requests <- {Needed(b) : b \in Sizes \ {0}}
Used(b) == Heaps!Units(b)

Vacant == {AddressOf(o) : o \in {o \in 0 .. Total - 1 : \A b \in blocks : o \notin Used(b)}}

Next == \/ InitNode \/ InitDone
        \/ AllocNothing \/ \E b \in Sizes : kalloc(b) \/ Panic(b)
        \/ Descend \/ Take \/ Ascend \/ Clear
        \/ \E ptr \in {p.ptr : p \in given} \cup Foreign \cup Vacant : kfree(ptr)
        \/ Find \/ NotUsed \/ Found \/ Merge \/ FreeDone
        \/ Stopped

Spec == Init /\ [][Next]_vars
-----------------------------------------------------------------------------
\* The size of the piece that a node stands for.
NodeSize == [i \in Index |-> CHOOSE s \in 1 .. Total : /\ IsPowerOf2(s)
                                                       /\ Total <= s * (i + 1)
                                                       /\ s * (i + 1) < 2 * Total]

\* The blocks of node i.
First(i)  == Offset(i, NodeSize[i])
Covers(i) == First(i) .. First(i) + NodeSize[i] - 1

\* Types of the state: the walks stay inside the tree and know the size of the
\* node they have come to, and nothing outside of the heap is cleared.
TypeOK ==
  /\ pc \in {"init", "ready", "down", "up", "find", "merge", "failed"}
  /\ longest \in [Index -> 0 .. Total]
  /\ index \in Nat /\ nodeSize \in Nat
  /\ pc \in {"down", "up", "find", "merge"} => index \in Index
  /\ pc \in {"down", "find", "merge"} => nodeSize = NodeSize[index]
  /\ offset \in 0 .. Total - 1
  /\ bytes \in Nat
  /\ zeroed \subseteq 0 .. Total - 1
  /\ blocks \subseteq [off : 0 .. Total - 1, len : 1 .. Total]
  /\ given \subseteq [ptr : Nat, size : Nat \ {0}]

\* The nodes whose value is up to date: while a call walks back to the root, all
\* but those above the node it has come to.
Settled == IF pc \in {"up", "merge"}
             THEN {i \in Index : Covers(index) \subseteq Covers(i) => i = index}
             ELSE Index

\* longest tells the truth.  Outside the pieces in use every node holds the
\* size of the largest aligned free piece below it, so that a request is
\* refused only when it has to be, free halves are always merged, and nothing
\* is lost when everything has been freed.  Below a piece in use every node still
\* has its full size, which the comment in buddyFree rests on: the first zero
\* found on the way up is the node that was allocated.
LongestIsExact ==
  /\ TypeOK
  /\ pc # "init" => \A i \in Settled :
       LET inside == {b \in blocks : Covers(i) \subseteq Used(b)}
           free   == {j \in Index : /\ Covers(j) \subseteq Covers(i)
                                    /\ \A b \in blocks : Used(b) \cap Covers(j) = {}}
       IN  /\ \A b \in inside : longest[i] = IF NodeSize[i] = b.len THEN 0 ELSE NodeSize[i]
           /\ inside = {} => /\ \A j \in free : NodeSize[j] <= longest[i]
                             /\ longest[i] # 0 => \E j \in free : NodeSize[j] = longest[i]

\* kalloc clears the piece it returns, and nothing of another one.
ClearsItsPiece == zeroed # {} => \E b \in blocks : Used(b) = zeroed

Bytes(p) == p.ptr .. p.ptr + p.size - 1

\* What callers were given lies in the heap, apart from everything else that is
\* in use, byte by byte; and between calls nothing is in use that no caller
\* can free.
BytesAreOwned ==
  /\ \A p \in given : /\ Bytes(p) \subseteq HEAP .. HEAP + Total * MinBlock - 1
                      /\ \A q \in given : p # q => Bytes(p) \cap Bytes(q) = {}
  /\ pc = "ready" => \A b \in blocks : \E p \in given : p.ptr = AddressOf(b.off)

\* The buddy system is an allocator of disjoint aligned blocks that fails
\* only when nothing fits.
ImplementsAllocator == Heaps!Spec
=============================================================================
