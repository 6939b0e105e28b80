--------------------------- MODULE FrameAllocator ---------------------------
(***************************************************************************)
(* kernel/memory.c: the page frames [startPpn, endPpn) managed by a        *)
(* segment tree in an array.  Node 1 is the root, the children of node i   *)
(* are 2i and 2i + 1, and the leaves start at firstSingle; a node is 1 when *)
(* no frame below it is free.                                              *)
(*                                                                         *)
(* Every pass through a loop of newAllocator, alloc and dealloc is a step, *)
(* so that the invariants say what holds in the middle of a loop.  The     *)
(* history variable held records the frames handed out and not given back; *)
(* no action's effect on the tree depends on it.                           *)
(***************************************************************************)
EXTENDS Integers

CONSTANTS StartPpn, EndPpn      \* the arguments of initFrameAllocator

ASSUME FrameAssumption == /\ StartPpn \in Nat \ {0}
                          /\ EndPpn \in Nat
                          /\ StartPpn < EndPpn

VARIABLES pc,           \* the loop the allocator is in
          firstSingle, node,    \* sta.firstSingle, sta.node
          p,            \* the index the current loop is at
          result,       \* the frame the last alloc chose
          held          \* history: frames allocated and not deallocated

vars == <<pc, firstSingle, node, p, result, held>>

Length == EndPpn - StartPpn     \* sta.length
Start  == StartPpn - 1          \* sta.startPpn

\* The & of two nodes; the mutant is |.
Either(a, b) == IF a = 1 \/ b = 1 THEN 1 ELSE 0
Both(a, b)   == IF a = 1 /\ b = 1 THEN 1 ELSE 0

\* The parent of a node, i >> 1; the mutant rounds up.
HalfUp(i) == (i + 1) \div 2
Half(i)   == i \div 2

\* The frames newAllocator marks as free: all but the last one.
Managed == StartPpn .. EndPpn - 2

Leaf(ppn) == ppn - Start + firstSingle
Frame(i)  == i - firstSingle + Start
-----------------------------------------------------------------------------
(* newAllocator: find the first leaf, set the leaves, then build the tree. *)

Init ==
  /\ pc = "grow"
  /\ firstSingle = 1
  /\ node = <<>>
  /\ p = 0 /\ result = 0
  /\ held = {}

Grow ==
  /\ pc = "grow" /\ firstSingle < Length + 2
  /\ firstSingle' = firstSingle * 2
  /\ UNCHANGED <<pc, node, p, result, held>>

Grown ==
  /\ pc = "grow" /\ firstSingle >= Length + 2
  /\ p' = 1
  /\ pc' = "fill"
  /\ UNCHANGED <<firstSingle, node, result, held>>

\* Every node is marked as full first.
Fill ==
  /\ pc = "fill" /\ p < 2 * firstSingle
  /\ node' = [i \in 1 .. p |-> IF i < p THEN node[i] ELSE 1]
  /\ p' = p + 1
  /\ UNCHANGED <<pc, firstSingle, result, held>>

\* The leaf of the first frame is firstSingle + 1; the mutant also frees the
\* leaf in front of it.
AllLeaves == 0
FirstLeaf == 1

Filled ==
  /\ pc = "fill" /\ p >= 2 * firstSingle
  /\ p' = FirstLeaf
  /\ pc' = "free"
  /\ UNCHANGED <<firstSingle, node, result, held>>

FreeLeaf ==
  /\ pc = "free" /\ p < Length
  /\ node' = [node EXCEPT ![firstSingle + p] = 0]
  /\ p' = p + 1
  /\ UNCHANGED <<pc, firstSingle, result, held>>

Freed ==
  /\ pc = "free" /\ p >= Length
  /\ p' = firstSingle - 1
  /\ pc' = "build"
  /\ UNCHANGED <<firstSingle, node, result, held>>

Pull(i) == [node EXCEPT ![i] = Both(node[2 * i], node[2 * i + 1])]

Build ==
  /\ pc = "build" /\ p >= 1
  /\ node' = Pull(p)
  /\ p' = p - 1
  /\ UNCHANGED <<pc, firstSingle, result, held>>

BuildDone ==
  /\ pc = "build" /\ p < 1
  /\ pc' = "ready"
  /\ UNCHANGED <<firstSingle, node, p, result, held>>
-----------------------------------------------------------------------------
(* alloc walks down to a free leaf, takes it and updates its ancestors.    *)

Alloc ==
  /\ pc = "ready" /\ node[1] # 1
  /\ p' = 1
  /\ pc' = "down"
  /\ UNCHANGED <<firstSingle, node, result, held>>

Depleted ==
  /\ pc = "ready" /\ node[1] = 1
  /\ pc' = "panic"
  /\ UNCHANGED <<firstSingle, node, p, result, held>>

\* The child to go to; the mutant goes right as long as it can.
GreedyRight(i) == IF node[2 * i + 1] = 0 \/ 2 * i + 1 < firstSingle THEN 2 * i + 1 ELSE 2 * i
FreeChild(i)   == IF node[2 * i] = 0 THEN 2 * i ELSE 2 * i + 1

Descend ==
  /\ pc = "down" /\ p < firstSingle
  /\ p' = FreeChild(p)
  /\ UNCHANGED <<pc, firstSingle, node, result, held>>

Take ==
  /\ pc = "down" /\ p >= firstSingle
  /\ result' = Frame(p)
  /\ node' = [node EXCEPT ![p] = 1]
  /\ p' = Half(p)
  /\ pc' = "up"
  /\ held' = held \cup {Frame(p)}
  /\ UNCHANGED firstSingle

\* dealloc of a frame that is free returns at once.
Dealloc(ppn) ==
  /\ pc = "ready"
  /\ node[Leaf(ppn)] = 1
  /\ node' = [node EXCEPT ![Leaf(ppn)] = 0]
  /\ p' = Half(Leaf(ppn))
  /\ pc' = "up"
  /\ held' = held \ {ppn}
  /\ UNCHANGED <<firstSingle, result>>

\* The walk back to the root, of alloc and of dealloc; the mutant stops below
\* the root.
RootIsTop == p > 1
NotDone   == p > 0

Ascend ==
  /\ pc = "up" /\ NotDone
  /\ node' = Pull(p)
  /\ p' = Half(p)
  /\ UNCHANGED <<pc, firstSingle, result, held>>

Return ==
  /\ pc = "up" /\ ~NotDone
  /\ pc' = "ready"
  /\ UNCHANGED <<firstSingle, node, p, result, held>>

\* panic does not return.
Stopped == pc = "panic" /\ UNCHANGED vars

NewAllocator ==
  Grow \/ Grown \/ Fill \/ Filled \/ FreeLeaf \/ Freed \/ Build \/ BuildDone

Next ==
  \/ NewAllocator
  \/ Alloc \/ Depleted \/ Descend \/ Take
  \/ \E ppn \in Managed : Dealloc(ppn)
  \/ Ascend \/ Return \/ Stopped

Spec == Init /\ [][Next]_vars

\* The calls run to their end.
FairSpec == Spec /\ WF_vars(NewAllocator)
                 /\ WF_vars(Descend \/ Take \/ Ascend \/ Return)
-----------------------------------------------------------------------------
\* The leaves have been set.
Ready == pc \in {"build", "ready", "down", "up", "panic"}
Nodes == 1 .. 2 * firstSingle - 1
Inner == 1 .. firstSingle - 1

\* Types of the state: the walks of alloc, dealloc and newAllocator stay inside
\* the tree, and only managed frames are handed out.
TypeOK ==
  /\ Ready \/ pc \in {"grow", "fill", "free"}
  /\ firstSingle \in Nat \ {0}
  /\ pc # "grow" => firstSingle >= Length + 2
  /\ Ready \/ pc = "free" => node \in [Nodes -> {0, 1}]
  /\ p \in Nat
  /\ pc = "build" => p < firstSingle
  /\ pc = "down" => p \in Nodes
  /\ pc = "up" => p < firstSingle
  /\ result \in Nat
  /\ held \subseteq Managed

Consistent(i) == node[i] = Both(node[2 * i], node[2 * i + 1])

\* In the middle of a walk only the node the walk has come to can disagree
\* with its children; everywhere else the tree is consistent.
TreeConsistent ==
  /\ pc = "build" => \A i \in Inner : i > p => Consistent(i)
  /\ pc \in {"ready", "down", "panic"} => \A i \in Inner : Consistent(i)
  /\ pc = "up" => \A i \in Inner : i # p => Consistent(i)

\* The leaves say which frames are held: a frame is free in the tree if and
\* only if it is managed and was not handed out.
LeavesMatchHeld ==
  Ready =>
    \A i \in firstSingle .. 2 * firstSingle - 1 :
      node[i] = 0 <=> Frame(i) \in Managed \ held

\* alloc walks along nodes with a free frame below them, so that it ends at a
\* free leaf.
WalkIsFree == pc = "down" => node[p] = 0

\* The loops that set the leaves.
FillOK ==
  /\ ~Ready => held = {}
  /\ pc = "grow" => node = <<>>
  /\ pc = "fill" => /\ p \in 1 .. 2 * firstSingle
                    /\ node = [i \in 1 .. p - 1 |-> 1]
  /\ pc = "free" => /\ p \in 1 .. Length
                    /\ \A i \in Nodes : node[i] = 0 <=> i \in firstSingle + 1 .. firstSingle + p - 1
RootWasFull    == pc = "panic" => node[1] = 1

IInv == TypeOK /\ TreeConsistent /\ LeavesMatchHeld /\ WalkIsFree /\ FillOK
          /\ RootWasFull

\* No frame is handed out twice, and only managed ones are: two page tables
\* never share a frame.
TakeIsFresh == [][held' # held /\ pc = "down" => /\ result' \in Managed \ held
                                                 /\ held' = held \cup {result'}]_vars

\* "Physical memory depleted!" is the truth: alloc panics only when every
\* managed frame is held.
PanicMeansFull == pc = "panic" => held = Managed

\* Every call of alloc and dealloc returns.
CallReturns == pc \in {"down", "up"} ~> pc = "ready"
=============================================================================
