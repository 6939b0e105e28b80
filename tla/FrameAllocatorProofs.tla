------------------------ MODULE FrameAllocatorProofs ------------------------
(***************************************************************************)
(* For every range of frames: the segment tree of memory.c stays           *)
(* consistent through every step of every walk, and alloc never hands out  *)
(* a frame that is held.                                                   *)
(***************************************************************************)
EXTENDS FrameAllocator, WellFoundedInduction, TLAPS

USE DEF Ready

\* What the loops use of the arithmetic of a tree in an array.
LEMMA HalfFacts ==
  ASSUME NEW i \in Nat
  PROVE  /\ Half(i) \in Nat
         /\ i = 2 * Half(i) \/ i = 2 * Half(i) + 1
         /\ i > 0 => Half(i) < i
         /\ \A j \in Nat : 2 * j = i \/ 2 * j + 1 = i => j = Half(i)
BY DEF Half

LEMMA ChildFacts ==
  ASSUME firstSingle \in Nat \ {0}, NEW i \in Inner
  PROVE  /\ i \in Nodes /\ i \in Nat /\ i < firstSingle
         /\ 2 * i \in Nodes /\ 2 * i + 1 \in Nodes
         /\ 2 * i # i /\ 2 * i + 1 # i
BY DEF Inner, Nodes

LEMMA BothFacts == \A a, b : Both(a, b) \in {0, 1}
BY DEF Both

\* Updating one node keeps the array well formed, makes the node consistent,
\* and disturbs at most its parent.
LEMMA PullFacts ==
  ASSUME firstSingle \in Nat \ {0}, node \in [Nodes -> {0, 1}], NEW i \in Inner,
         UNCHANGED firstSingle, node' = Pull(i)
  PROVE  /\ node' \in [Nodes -> {0, 1}]
         /\ \A j \in Nodes : j # i => node'[j] = node[j]
         /\ Consistent(i)'
         /\ \A j \in Inner : j # i /\ j # Half(i) /\ Consistent(j) => Consistent(j)'
<1>1. i \in Nodes /\ i \in Nat /\ 2 * i \in Nodes /\ 2 * i + 1 \in Nodes /\ 2 * i # i /\ 2 * i + 1 # i
  BY ChildFacts
<1>2. node' \in [Nodes -> {0, 1}]
  BY <1>1, BothFacts DEF Pull
<1>3. \A j \in Nodes : j # i => node'[j] = node[j]
  BY DEF Pull
<1>4. node'[i] = Both(node[2 * i], node[2 * i + 1])
  BY <1>1 DEF Pull
<1>5. Consistent(i)'
  BY <1>1, <1>3, <1>4 DEF Consistent
<1>6. ASSUME NEW j \in Inner, j # i, j # Half(i), Consistent(j)
      PROVE  Consistent(j)'
  <2>1. j \in Nodes /\ j \in Nat /\ 2 * j \in Nodes /\ 2 * j + 1 \in Nodes
    BY ChildFacts
  <2>2. 2 * j # i /\ 2 * j + 1 # i
    BY <1>1, <1>6, <2>1, HalfFacts
  <2> QED BY <2>1, <2>2, <1>3, <1>6 DEF Consistent
<1> QED BY <1>2, <1>3, <1>5, <1>6

\* Updating one leaf disturbs at most its parent.
LEMMA LeafFacts ==
  ASSUME firstSingle \in Nat \ {0}, node \in [Nodes -> {0, 1}],
         NEW i \in firstSingle .. 2 * firstSingle - 1, NEW v \in {0, 1},
         UNCHANGED firstSingle, node' = [node EXCEPT ![i] = v]
  PROVE  /\ node' \in [Nodes -> {0, 1}]
         /\ node'[i] = v
         /\ \A j \in Nodes : j # i => node'[j] = node[j]
         /\ Half(i) \in Nat /\ Half(i) < firstSingle
         /\ \A j \in Inner : j # Half(i) /\ Consistent(j) => Consistent(j)'
<1>1. i \in Nodes /\ i \in Nat
  BY DEF Nodes
<1>2. node' \in [Nodes -> {0, 1}] /\ node'[i] = v /\ \A j \in Nodes : j # i => node'[j] = node[j]
  BY <1>1
<1>3. Half(i) \in Nat /\ Half(i) < firstSingle
  BY <1>1, HalfFacts
<1>4. ASSUME NEW j \in Inner, j # Half(i), Consistent(j)
      PROVE  Consistent(j)'
  <2>1. j \in Nodes /\ j \in Nat /\ 2 * j \in Nodes /\ 2 * j + 1 \in Nodes /\ j # i
    BY ChildFacts
  <2>2. 2 * j # i /\ 2 * j + 1 # i
    BY <1>1, <1>4, <2>1, HalfFacts
  <2> QED BY <2>1, <2>2, <1>2, <1>4 DEF Consistent
<1> QED BY <1>2, <1>3, <1>4

LEMMA InitIInv == Init => IInv
BY FrameAssumption DEF Init, IInv, TypeOK, TreeConsistent, LeavesMatchHeld, WalkIsFree,
   FillOK, RootWasFull, Managed

LEMMA EmptyIsFunction == <<>> = [i \in 1 .. 0 |-> 1]
OBVIOUS

\* The steps of newAllocator.
LEMMA NewAllocatorIInv ==
  ASSUME IInv, NewAllocator
  PROVE  IInv'
<1> USE FrameAssumption
<1>0. firstSingle \in Nat \ {0} /\ p \in Nat /\ Length \in Nat \ {0}
  BY DEF IInv, TypeOK, Length
<1>1. CASE Grow
  BY <1>1 DEF Grow, IInv, TypeOK, TreeConsistent, LeavesMatchHeld, WalkIsFree, FillOK, RootWasFull
<1>2. CASE Grown
  <2>1. node' = [i \in 1 .. p' - 1 |-> 1]
    BY <1>2, EmptyIsFunction DEF Grown, IInv, FillOK
  <2> QED
    BY <1>0, <1>2, <2>1 DEF Grown, IInv, TypeOK, TreeConsistent, LeavesMatchHeld, WalkIsFree, FillOK, RootWasFull
<1>5. CASE Fill
  <2>1. /\ pc = "fill" /\ pc' = "fill" /\ p \in 1 .. 2 * firstSingle - 1 /\ p' = p + 1
        /\ node = [i \in 1 .. p - 1 |-> 1] /\ firstSingle' = firstSingle
        /\ UNCHANGED <<result, held>> /\ held = {}
        /\ node' = [i \in 1 .. p |-> IF i < p THEN node[i] ELSE 1]
    BY <1>0, <1>5 DEF Fill, IInv, FillOK
  <2>2. node' = [i \in 1 .. p' - 1 |-> 1]
    BY <1>0, <2>1
  <2> QED
    BY <1>0, <2>1, <2>2 DEF IInv, TypeOK, TreeConsistent, LeavesMatchHeld, WalkIsFree, FillOK, RootWasFull
<1>6. CASE Filled
  <2>1. /\ pc' = "free" /\ UNCHANGED <<firstSingle, node, result, held>> /\ p' = 1 /\ held = {}
        /\ node = [i \in 1 .. 2 * firstSingle - 1 |-> 1]
    BY <1>0, <1>6 DEF Filled, FirstLeaf, IInv, FillOK
  <2>2. node \in [Nodes -> {0, 1}] /\ \A i \in Nodes : node[i] = 1 /\ i \notin firstSingle + 1 .. firstSingle
    BY <1>0, <2>1 DEF Nodes
  <2>3. Nodes' = Nodes
    BY <2>1 DEF Nodes
  <2>4. firstSingle >= Length + 2
    BY <1>6 DEF Filled, IInv, TypeOK
  <2>5. TypeOK'
    BY <1>0, <2>1, <2>2, <2>3, <2>4 DEF IInv, TypeOK
  <2>6. FillOK'
    BY <1>0, <2>1, <2>2, <2>3 DEF FillOK
  <2> QED BY <2>1, <2>5, <2>6 DEF IInv, TreeConsistent, LeavesMatchHeld, WalkIsFree, RootWasFull
<1>7. CASE FreeLeaf
  <2>1. /\ pc = "free" /\ pc' = "free" /\ UNCHANGED <<firstSingle, result, held>> /\ held = {}
        /\ p \in 1 .. Length - 1 /\ p' = p + 1
        /\ node \in [Nodes -> {0, 1}] /\ node' = [node EXCEPT ![firstSingle + p] = 0]
        /\ \A i \in Nodes : node[i] = 0 <=> i \in firstSingle + 1 .. firstSingle + p - 1
        /\ firstSingle >= Length + 2
    BY <1>0, <1>7 DEF FreeLeaf, IInv, TypeOK, FillOK
  <2>2. firstSingle + p \in Nodes /\ Nodes' = Nodes
    BY <1>0, <2>1 DEF Nodes
  <2>3. node' \in [Nodes -> {0, 1}]
    BY <2>1
  <2>4. ASSUME NEW i \in Nodes
        PROVE  node'[i] = 0 <=> i \in firstSingle + 1 .. firstSingle + p' - 1
    <3>1. CASE i = firstSingle + p
      BY <1>0, <2>1, <2>2, <3>1
    <3>2. CASE i # firstSingle + p
      <4>1. node'[i] = node[i]
        BY <2>1, <3>2
      <4>2. i \in firstSingle + 1 .. firstSingle + p - 1 <=> i \in firstSingle + 1 .. firstSingle + p' - 1
        BY <1>0, <2>1, <3>2 DEF Nodes
      <4> QED BY <2>1, <4>1, <4>2
    <3> QED BY <3>1, <3>2
  <2>5. TypeOK'
    BY <1>0, <2>1, <2>2, <2>3 DEF IInv, TypeOK
  <2>6. FillOK'
    BY <1>0, <2>1, <2>2, <2>4 DEF FillOK
  <2> QED BY <2>1, <2>5, <2>6 DEF IInv, TreeConsistent, LeavesMatchHeld, WalkIsFree, RootWasFull
<1>8. CASE Freed
  <2>1. /\ pc' = "build" /\ UNCHANGED <<firstSingle, node, result, held>> /\ held = {}
        /\ p = Length /\ p' = firstSingle - 1
        /\ node \in [Nodes -> {0, 1}] /\ Nodes' = Nodes
        /\ \A i \in Nodes : node[i] = 0 <=> i \in firstSingle + 1 .. firstSingle + Length - 1
        /\ firstSingle >= Length + 2
    BY <1>0, <1>8 DEF Freed, IInv, TypeOK, FillOK, Nodes
  <2>2. TypeOK'
    BY <1>0, <2>1 DEF IInv, TypeOK
  <2>3. TreeConsistent'
    BY <1>0, <2>1 DEF TreeConsistent, Inner
  <2>4. LeavesMatchHeld'
    <3>1. ASSUME NEW i \in firstSingle .. 2 * firstSingle - 1
          PROVE  node[i] = 0 <=> Frame(i) \in Managed
      <4>1. i \in Nodes
        BY <1>0 DEF Nodes
      <4>2. i \in firstSingle + 1 .. firstSingle + Length - 1 <=> Frame(i) \in Managed
        BY <1>0 DEF Frame, Managed, Start, Length
      <4> QED BY <2>1, <4>1, <4>2
    <3> QED BY <2>1, <3>1 DEF LeavesMatchHeld, Frame, Managed
  <2> QED BY <2>1, <2>2, <2>3, <2>4 DEF IInv, WalkIsFree, FillOK, RootWasFull
<1>3. CASE Build
  <2>1. /\ firstSingle \in Nat \ {0} /\ firstSingle' = firstSingle /\ node \in [Nodes -> {0, 1}]
        /\ p \in Inner /\ p \in Nat /\ node' = Pull(p) /\ p' = p - 1
        /\ pc = "build" /\ pc' = "build" /\ UNCHANGED <<result, held>>
    BY <1>3 DEF Build, IInv, TypeOK, Inner
  <2>q. PICK q \in Inner : q = p
    BY <2>1
  <2>2. /\ node' \in [Nodes -> {0, 1}] /\ \A j \in Nodes : j # q => node'[j] = node[j]
        /\ Consistent(q)'
        /\ \A j \in Inner : j # q /\ j # Half(q) /\ Consistent(j) => Consistent(j)'
    BY <2>1, <2>q, PullFacts
  <2>3. TypeOK'
    <3>1. Nodes' = Nodes
      BY <2>1 DEF Nodes
    <3> QED BY <2>1, <2>2, <3>1 DEF IInv, TypeOK, Inner
  <2>4. TreeConsistent'
    <3>1. ASSUME NEW i \in Inner, i > p - 1
          PROVE  Consistent(i)'
      <4>1. CASE i = q
        BY <4>1, <2>2
      <4>2. CASE i # q
        <5>1. i > p /\ i # Half(q)
          BY <4>2, <3>1, <2>1, <2>q, HalfFacts DEF Inner
        <5>2. Consistent(i)
          BY <5>1, <2>1 DEF IInv, TreeConsistent
        <5> QED BY <4>2, <5>1, <5>2, <2>2
      <4> QED BY <4>1, <4>2
    <3>2. Inner' = Inner
      BY <2>1 DEF Inner
    <3> QED BY <2>1, <3>1, <3>2 DEF TreeConsistent
  <2>5. LeavesMatchHeld'
    <3>1. \A i \in firstSingle .. 2 * firstSingle - 1 : i \in Nodes /\ i # q
      BY <2>1, <2>q DEF Nodes, Inner
    <3> QED BY <2>1, <2>2, <3>1 DEF IInv, LeavesMatchHeld, Frame
  <2> QED BY <2>1, <2>3, <2>4, <2>5 DEF IInv, WalkIsFree, FillOK, RootWasFull
<1>4. CASE BuildDone
  <2>1. \A i \in Inner : i > p
    BY <1>4 DEF BuildDone, Inner, IInv, TypeOK
  <2>2. TreeConsistent'
    BY <1>4, <2>1 DEF BuildDone, IInv, TreeConsistent, Consistent, Inner
  <2> QED
    BY <1>4, <2>2 DEF BuildDone, IInv, TypeOK, LeavesMatchHeld, WalkIsFree, FillOK, RootWasFull,
       Frame, Nodes
<1> QED BY <1>1, <1>2, <1>3, <1>4, <1>5, <1>6, <1>7, <1>8 DEF NewAllocator

\* The steps of alloc down to the leaf it takes.
LEMMA DescentIInv ==
  ASSUME IInv, Alloc \/ Depleted \/ Descend
  PROVE  IInv'
<1> USE FrameAssumption
<1>0. /\ UNCHANGED <<firstSingle, node, result, held>> /\ Nodes' = Nodes /\ Inner' = Inner
      /\ pc \in {"ready", "down"} /\ pc' \in {"down", "panic"}
      /\ firstSingle \in Nat \ {0} /\ node \in [Nodes -> {0, 1}] /\ firstSingle >= Length + 2
  BY DEF IInv, TypeOK, Alloc, Depleted, Descend, Nodes, Inner
<1>1. TreeConsistent' /\ LeavesMatchHeld' /\ FillOK'
  <2>1. \A i \in Inner : Consistent(i) /\ Consistent(i)'
    BY <1>0 DEF IInv, TreeConsistent, Consistent
  <2>2. LeavesMatchHeld' /\ FillOK'
    BY <1>0 DEF IInv, LeavesMatchHeld, FillOK, RootWasFull, Frame
  <2> QED BY <1>0, <2>1, <2>2 DEF TreeConsistent
<1>2. p' \in Nat /\ (pc' = "down" => p' \in Nodes /\ node[p'] = 0)
  <2>1. CASE Alloc
    BY <2>1, <1>0 DEF Alloc, Nodes
  <2>2. CASE Depleted
    BY <2>2, <1>0 DEF Depleted, IInv, TypeOK
  <2>3. CASE Descend
    <3>1. p \in Inner /\ node[p] = 0 /\ p' = FreeChild(p) /\ Consistent(p)
      BY <2>3, <1>0 DEF Descend, IInv, TypeOK, WalkIsFree, TreeConsistent, Inner, Nodes
    <3>2. 2 * p \in Nodes /\ 2 * p + 1 \in Nodes
      BY <3>1, <1>0, ChildFacts
    <3>3. node[2 * p] = 0 \/ node[2 * p + 1] = 0
      BY <3>1, <3>2, <1>0 DEF Consistent, Both
    <3>4. p' \in Nodes /\ node[p'] = 0
      BY <3>1, <3>2, <3>3 DEF FreeChild
    <3> QED BY <3>4 DEF Nodes
  <2> QED BY <2>1, <2>2, <2>3
<1>3. TypeOK'
  BY <1>0, <1>2 DEF IInv, TypeOK
<1>4. RootWasFull'
  BY <1>0 DEF Alloc, Depleted, Descend, RootWasFull
<1> QED BY <1>0, <1>1, <1>2, <1>3, <1>4 DEF IInv, WalkIsFree

\* The leaf alloc takes was free, and is the leaf of a managed frame.
LEMMA TakeFacts ==
  ASSUME IInv, Take
  PROVE  /\ p \in firstSingle .. 2 * firstSingle - 1
         /\ Frame(p) \in Managed \ held
  BY DEF IInv, TypeOK, LeavesMatchHeld, WalkIsFree, Take, Nodes

\* The frame of a leaf and the leaf of a frame.
LEMMA FrameFacts ==
  ASSUME firstSingle \in Nat \ {0}, firstSingle >= Length + 2
  PROVE  /\ \A ppn \in Managed : /\ Leaf(ppn) \in firstSingle .. 2 * firstSingle - 1
                                 /\ Frame(Leaf(ppn)) = ppn
         /\ \A i, j \in firstSingle .. 2 * firstSingle - 1 : Frame(i) = Frame(j) => i = j
BY FrameAssumption DEF Managed, Leaf, Frame, Start, Length

\* Taking a leaf and giving one back.
LEMMA LeafIInv ==
  ASSUME IInv, Take \/ \E ppn \in Managed : Dealloc(ppn)
  PROVE  IInv'
<1> USE FrameAssumption
<1>0. /\ firstSingle \in Nat \ {0} /\ node \in [Nodes -> {0, 1}] /\ firstSingle >= Length + 2
      /\ firstSingle' = firstSingle /\ pc \in {"ready", "down"} /\ pc' = "up"
      /\ Nodes' = Nodes /\ Inner' = Inner /\ held \subseteq Managed
      /\ \A i \in Inner : Consistent(i)
      /\ \A i \in firstSingle .. 2 * firstSingle - 1 : node[i] = 0 <=> Frame(i) \in Managed \ held
  BY DEF IInv, TypeOK, Take, Dealloc, Nodes, Inner, TreeConsistent, LeavesMatchHeld
<1>1. PICK i \in firstSingle .. 2 * firstSingle - 1, v \in {0, 1} :
        /\ node' = [node EXCEPT ![i] = v]
        /\ p' = Half(i)
        /\ Frame(i) \in Managed
        /\ held' = IF v = 1 THEN held \cup {Frame(i)} ELSE held \ {Frame(i)}
        /\ result' \in Nat
  <2>1. CASE Take
    <3>1. p \in firstSingle .. 2 * firstSingle - 1 /\ Frame(p) \in Managed
      BY <2>1, TakeFacts
    <3>2. Frame(p) \in Nat
      BY <3>1 DEF Managed
    <3> QED BY <2>1, <3>1, <3>2 DEF Take
  <2>2. CASE \E ppn \in Managed : Dealloc(ppn)
    <3>1. PICK ppn \in Managed : Dealloc(ppn)
      BY <2>2
    <3>2. Leaf(ppn) \in firstSingle .. 2 * firstSingle - 1 /\ Frame(Leaf(ppn)) = ppn
      BY <1>0, FrameFacts
    <3>3. PICK l \in firstSingle .. 2 * firstSingle - 1 : l = Leaf(ppn)
      BY <3>2
    <3>4. /\ node' = [node EXCEPT ![l] = 0] /\ p' = Half(l) /\ Frame(l) \in Managed
          /\ held' = held \ {Frame(l)} /\ result' \in Nat
      BY <3>1, <3>2, <3>3 DEF Dealloc, IInv, TypeOK
    <3> WITNESS l \in firstSingle .. 2 * firstSingle - 1, 0 \in {0, 1}
    <3> QED BY <3>4
  <2> QED BY <2>1, <2>2
<1>2. /\ node' \in [Nodes -> {0, 1}] /\ node'[i] = v
      /\ \A j \in Nodes : j # i => node'[j] = node[j]
      /\ Half(i) \in Nat /\ Half(i) < firstSingle
      /\ \A j \in Inner : j # Half(i) /\ Consistent(j) => Consistent(j)'
  BY <1>0, <1>1, LeafFacts
<1>3. TypeOK'
  BY <1>0, <1>1, <1>2 DEF TypeOK
<1>4. TreeConsistent'
  BY <1>0, <1>1, <1>2 DEF TreeConsistent
<1>5. LeavesMatchHeld'
  <2>1. ASSUME NEW j \in firstSingle .. 2 * firstSingle - 1
        PROVE  node'[j] = 0 <=> Frame(j) \in Managed \ held'
    <3>1. CASE j = i
      BY <3>1, <1>1, <1>2
    <3>2. CASE j # i
      <4>1. node'[j] = node[j]
        BY <3>2, <1>0, <1>2 DEF Nodes
      <4>2. Frame(j) # Frame(i)
        BY <3>2, <1>0, FrameFacts
      <4> QED BY <4>1, <4>2, <1>0, <1>1
    <3> QED BY <3>1, <3>2
  <2> QED BY <2>1, <1>0 DEF LeavesMatchHeld, Frame, Managed
<1> QED BY <1>0, <1>3, <1>4, <1>5 DEF IInv, WalkIsFree, FillOK, RootWasFull

\* The walk back to the root.
LEMMA AscentIInv ==
  ASSUME IInv, Ascend \/ Return
  PROVE  IInv'
<1>0. /\ firstSingle \in Nat \ {0} /\ node \in [Nodes -> {0, 1}] /\ firstSingle >= Length + 2
      /\ UNCHANGED <<firstSingle, result, held>> /\ pc = "up" /\ p \in Nat /\ p < firstSingle
      /\ Nodes' = Nodes /\ Inner' = Inner
      /\ \A i \in Inner : i # p => Consistent(i)
  BY DEF IInv, TypeOK, Ascend, Return, Nodes, Inner, TreeConsistent
<1>1. CASE Ascend
  <2>1. p \in Inner /\ node' = Pull(p) /\ p' = Half(p) /\ pc' = "up"
    BY <1>0, <1>1 DEF Ascend, NotDone, Inner
  <2>q. PICK q \in Inner : q = p
    BY <2>1
  <2>2. /\ node' \in [Nodes -> {0, 1}] /\ \A j \in Nodes : j # q => node'[j] = node[j]
        /\ Consistent(q)'
        /\ \A j \in Inner : j # q /\ j # Half(q) /\ Consistent(j) => Consistent(j)'
    BY <1>0, <2>1, <2>q, PullFacts
  <2>3. Half(p) \in Nat /\ Half(p) < firstSingle
    BY <1>0, <2>1, HalfFacts DEF Inner
  <2>4. TypeOK'
    BY <1>0, <2>1, <2>2, <2>3 DEF IInv, TypeOK
  <2>5. TreeConsistent'
    BY <1>0, <2>1, <2>q, <2>2 DEF TreeConsistent
  <2>6. LeavesMatchHeld'
    <3>1. \A i \in firstSingle .. 2 * firstSingle - 1 : i \in Nodes /\ i # q
      BY <1>0, <2>q DEF Nodes
    <3> QED BY <1>0, <2>1, <2>2, <3>1 DEF IInv, LeavesMatchHeld, Frame
  <2> QED BY <2>1, <2>4, <2>5, <2>6 DEF IInv, WalkIsFree, FillOK, RootWasFull
<1>2. CASE Return
  <2>1. \A i \in Inner : i # p
    BY <1>0, <1>2 DEF Return, NotDone, Inner
  <2>2. pc' = "ready" /\ UNCHANGED <<node, p>>
    BY <1>2 DEF Return
  <2>3. TreeConsistent'
    BY <1>0, <2>1, <2>2 DEF TreeConsistent, Consistent
  <2>4. TypeOK' /\ LeavesMatchHeld'
    BY <1>0, <2>2 DEF IInv, TypeOK, LeavesMatchHeld, Frame
  <2> QED BY <2>2, <2>3, <2>4 DEF IInv, WalkIsFree, FillOK, RootWasFull
<1> QED BY <1>1, <1>2

LEMMA StepIInv == IInv /\ [Next]_vars => IInv'
<1> SUFFICES ASSUME IInv, [Next]_vars PROVE IInv'
  OBVIOUS
<1>1. CASE UNCHANGED vars
  <2>1. /\ UNCHANGED <<pc, firstSingle, node, p, result, held>>
        /\ Nodes' = Nodes /\ Inner' = Inner
    BY <1>1 DEF vars, Nodes, Inner
  <2> QED
    BY <2>1 DEF IInv, TypeOK, TreeConsistent, LeavesMatchHeld, WalkIsFree, FillOK, RootWasFull,
       Consistent, Frame
<1> QED
  BY <1>1, NewAllocatorIInv, DescentIInv, LeafIInv, AscentIInv DEF Next, Stopped

\* A full root has nothing but full leaves below it: of the nodes that are not
\* full the smallest would have a full parent.
LEMMA FullRoot ==
  ASSUME IInv, node[1] = 1, pc = "panic"
  PROVE  \A i \in Nodes : node[i] = 1
<1> DEFINE T == {i \in Nodes : node[i] = 0}
           R == OpToRel(<, Nat)
<1>1. /\ firstSingle \in Nat \ {0} /\ node \in [Nodes -> {0, 1}]
      /\ \A i \in Inner : Consistent(i)
  BY DEF IInv, TypeOK, TreeConsistent
<1>2. SUFFICES ASSUME T # {} PROVE FALSE
  BY <1>1
<1>3. T \subseteq Nat
  BY <1>1 DEF Nodes
<1>4. IsWellFoundedOn(R, Nat)
  BY NatLessThanWellFounded, Zenon
<1> HIDE DEF T, R
<1>5. PICK x \in T : \A y \in T : ~(<<y, x>> \in R)
  BY <1>2, <1>3, <1>4, WFMin
<1>6. \A y \in T : ~(y < x)
  BY <1>3, <1>5 DEF R, OpToRel
<1>7. x \in Nodes /\ node[x] = 0 /\ x \in Nat /\ x # 1 /\ x > 1
  BY <1>3 DEF T, Nodes
<1>8. Half(x) \in Inner /\ Half(x) < x /\ (x = 2 * Half(x) \/ x = 2 * Half(x) + 1)
  BY <1>1, <1>7, HalfFacts DEF Inner, Nodes
<1>9. Half(x) \in Nodes /\ node[Half(x)] = 0
  BY <1>1, <1>7, <1>8, ChildFacts DEF Consistent, Both
<1> QED BY <1>6, <1>8, <1>9 DEF T

\* alloc panics only when every managed frame is held.
THEOREM PanicIsTrue == Spec => []PanicMeansFull
<1>1. IInv => PanicMeansFull
  <2> SUFFICES ASSUME IInv, pc = "panic" PROVE held = Managed
    BY DEF PanicMeansFull
  <2>1. /\ firstSingle \in Nat \ {0} /\ firstSingle >= Length + 2 /\ held \subseteq Managed
        /\ \A i \in firstSingle .. 2 * firstSingle - 1 : node[i] = 0 <=> Frame(i) \in Managed \ held
    BY DEF IInv, TypeOK, LeavesMatchHeld
  <2>2. \A i \in Nodes : node[i] = 1
    BY FullRoot DEF IInv, RootWasFull
  <2>3. ASSUME NEW ppn \in Managed PROVE ppn \in held
    <3>1. Leaf(ppn) \in firstSingle .. 2 * firstSingle - 1 /\ Frame(Leaf(ppn)) = ppn
      BY <2>1, FrameFacts
    <3>2. Leaf(ppn) \in Nodes
      BY <3>1, <2>1 DEF Nodes
    <3> QED BY <3>1, <3>2, <2>1, <2>2
  <2> QED BY <2>1, <2>3
<1> QED BY InitIInv, StepIInv, <1>1, PTL DEF Spec

\* The segment tree of memory.c, for every range of frames: types, and the
\* tree's consistency in the middle of every walk.
THEOREM TreeInvariant == Spec => [](TypeOK /\ TreeConsistent)
<1>1. IInv => TypeOK /\ TreeConsistent
  BY DEF IInv
<1> QED BY InitIInv, StepIInv, <1>1, PTL DEF Spec

\* The leaves of the tree say which of the managed frames are free, in the middle
\* of every walk of alloc and dealloc, for every range of frames.
THEOREM LeavesAreTheFrames == Spec => []LeavesMatchHeld
<1>1. IInv => LeavesMatchHeld
  BY DEF IInv
<1> QED BY InitIInv, StepIInv, <1>1, PTL DEF Spec

\* alloc hands out only frames that are managed and not held, for every range
\* of frames and every sequence of calls.
THEOREM AllocIsFresh == Spec => TakeIsFresh
<1>1. IInv /\ [Next]_vars =>
        [held' # held /\ pc = "down" => /\ result' \in Managed \ held
                                        /\ held' = held \cup {result'}]_vars
  <2> SUFFICES ASSUME IInv, Next, held' # held, pc = "down"
               PROVE  result' \in Managed \ held /\ held' = held \cup {result'}
    BY DEF vars
  <2>1. Take
    BY DEF Next, NewAllocator, Grow, Grown, Fill, Filled, FreeLeaf, Freed, Build, BuildDone, Alloc, Depleted, Descend, Dealloc, Ascend,
       Return, Stopped, vars
  <2> QED BY <2>1, TakeFacts DEF Take
<1> QED BY <1>1, InitIInv, StepIInv, PTL DEF Spec, TakeIsFresh
=============================================================================
