----------------------------- MODULE QueueProofs -----------------------------
(***************************************************************************)
(* For any number of queues, nodes and items: the linked nodes of queue.c  *)
(* hold what was pushed in order, no node is lost or in two places, and    *)
(* the queues implement module Fifo.                                       *)
(***************************************************************************)
EXTENDS Queue, TLAPS

\* What Append and Tail do to a sequence, elementwise.
LEMMA AppendFacts ==
  ASSUME NEW S, NEW c \in Seq(S), NEW x \in S
  PROVE  /\ Append(c, x) \in Seq(S)
         /\ Len(Append(c, x)) = Len(c) + 1
         /\ Append(c, x)[Len(c) + 1] = x
         /\ \A i \in 1 .. Len(c) : Append(c, x)[i] = c[i]
OBVIOUS

LEMMA TailFacts ==
  ASSUME NEW S, NEW c \in Seq(S), c # <<>>
  PROVE  /\ Tail(c) \in Seq(S)
         /\ Len(c) \in Nat \ {0}
         /\ Len(Tail(c)) = Len(c) - 1
         /\ Head(c) = c[1]
         /\ \A i \in 1 .. Len(c) - 1 : Tail(c)[i] = c[i + 1]
OBVIOUS

\* The code's test for an empty queue agrees with the history variable: the
\* two pointers are null exactly if no node is left.
LEMMA EmptyFacts ==
  ASSUME IInv, NEW q \in Name
  PROVE  /\ chain[q] \in Seq(Node) /\ Len(chain[q]) \in Nat
         /\ isEmpty(q) <=> chain[q] = <<>>
         /\ isEmpty(q) <=> Len(chain[q]) = 0
         /\ ~isEmpty(q) => /\ head[q] = chain[q][1] /\ tail[q] = chain[q][Len(chain[q])]
                           /\ head[q] \in Node /\ tail[q] \in Node
<1>1. TypeOK
  BY DEF IInv, ListHoldsChain
<1>2. /\ chain[q] \in Seq(Node) /\ Len(chain[q]) \in Nat
      /\ chain[q] = <<>> <=> Len(chain[q]) = 0
      /\ \A i \in 1 .. Len(chain[q]) : chain[q][i] \in Node
  BY <1>1 DEF TypeOK
<1>3. /\ Len(chain[q]) = 0 => head[q] = NULL /\ tail[q] = NULL
      /\ Len(chain[q]) > 0 => head[q] = chain[q][1] /\ tail[q] = chain[q][Len(chain[q])]
  BY DEF IInv, ListHoldsChain
<1> QED BY <1>2, <1>3, QueueAssumption DEF isEmpty

LEMMA InitIInv == Init => IInv
BY DEF Init, IInv, ListHoldsChain, NodesAreOwned, TypeOK

\* pushBack links a node that is in no queue behind the last one.
LEMMA PushIInv ==
  ASSUME IInv, NEW q \in Name, NEW x \in Item, pushBack(q, x)
  PROVE  IInv'
<1> DEFINE k == Len(chain[q])
<1>1. PICK n \in Node \ heap :
        /\ heap' = heap \cup {n}
        /\ item' = [item EXCEPT ![n] = x]
        /\ Link(q, n)
        /\ chain' = [chain EXCEPT ![q] = Append(@, n)]
        /\ UNCHANGED ret
  BY DEF pushBack
<1>2. TypeOK /\ ListHoldsChain /\ NodesAreOwned
  BY DEF IInv, ListHoldsChain
<1>3. \A r \in Name : /\ chain[r] \in Seq(Node) /\ Len(chain[r]) \in Nat
                      /\ \A i \in 1 .. Len(chain[r]) : chain[r][i] \in Node /\ chain[r][i] # n
  BY <1>1, <1>2 DEF TypeOK, NodesAreOwned
<1>4. /\ \A r \in Name \ {q} : chain'[r] = chain[r]
      /\ chain'[q] = Append(chain[q], n)
      /\ chain' \in [Name -> Seq(Node)]
  BY <1>1, <1>2, <1>3, AppendFacts DEF TypeOK
<1>5. /\ k \in Nat /\ Len(chain'[q]) = k + 1 /\ chain'[q][k + 1] = n
      /\ \A i \in 1 .. k : chain'[q][i] = chain[q][i]
  BY <1>3, <1>4, AppendFacts
<1>6. /\ isEmpty(q) <=> k = 0
      /\ k > 0 => head[q] = chain[q][1] /\ tail[q] = chain[q][k] /\ tail[q] \in Node
  BY EmptyFacts, <1>5
<1>7. /\ next' = IF k = 0 THEN [next EXCEPT ![n] = NULL]
                 ELSE [next EXCEPT ![n] = NULL, ![tail[q]] = n]
      /\ tail' = [tail EXCEPT ![q] = n]
      /\ head' = IF k = 0 THEN [head EXCEPT ![q] = n] ELSE head
  BY <1>1, <1>6 DEF Link
<1>8. TypeOK'
  BY <1>1, <1>2, <1>4, <1>6, <1>7 DEF TypeOK
<1>9. NodesAreOwned'
  <2>1. \A m \in Node : m \in heap' <=> \E r \in Name : \E i \in 1 .. Len(chain'[r]) : chain'[r][i] = m
    <3> TAKE m \in Node
    <3>1. CASE m = n
      BY <3>1, <1>1, <1>5
    <3>2. CASE m # n
      <4>1. m \in heap' <=> m \in heap
        BY <3>2, <1>1
      <4>2. \A r \in Name : (\E i \in 1 .. Len(chain'[r]) : chain'[r][i] = m)
                              <=> (\E i \in 1 .. Len(chain[r]) : chain[r][i] = m)
        <5>1. \A r \in Name \ {q} : (\E i \in 1 .. Len(chain'[r]) : chain'[r][i] = m)
                                    <=> (\E i \in 1 .. Len(chain[r]) : chain[r][i] = m)
          BY <1>4
        <5>2. ASSUME NEW i \in 1 .. k + 1, chain'[q][i] = m
              PROVE  i \in 1 .. k /\ chain[q][i] = m
          BY <5>2, <3>2, <1>5
        <5>3. ASSUME NEW i \in 1 .. k, chain[q][i] = m
              PROVE  i \in 1 .. k + 1 /\ chain'[q][i] = m
          BY <5>3, <1>5
        <5>4. (\E i \in 1 .. k + 1 : chain'[q][i] = m) <=> (\E i \in 1 .. k : chain[q][i] = m)
          BY <5>2, <5>3
        <5> QED BY <5>1, <5>4, <1>5
      <4> QED BY <4>1, <4>2, <1>2 DEF NodesAreOwned
    <3> QED BY <3>1, <3>2
  <2>2. ASSUME NEW a \in Name, NEW b \in Name, NEW i \in 1 .. Len(chain'[a]), NEW j \in 1 .. Len(chain'[b]),
               chain'[a][i] = chain'[b][j]
        PROVE  a = b /\ i = j
    <3>1. \A r \in Name, h \in Nat : h \in 1 .. Len(chain'[r]) =>
            \/ h \in 1 .. Len(chain[r]) /\ chain'[r][h] = chain[r][h] /\ chain'[r][h] # n
            \/ r = q /\ h = k + 1 /\ chain'[r][h] = n
      <4> TAKE r \in Name, h \in Nat
      <4> HAVE h \in 1 .. Len(chain'[r])
      <4>1. CASE r = q
        <5>1. h \in 1 .. k \/ h = k + 1
          BY <4>1, <1>5
        <5> QED BY <4>1, <5>1, <1>3, <1>5
      <4>2. CASE r # q
        BY <4>2, <1>3, <1>4
      <4> QED BY <4>1, <4>2
    <3>2. i \in Nat /\ j \in Nat
      BY <1>3, <1>4, <1>5
    <3> QED BY <2>2, <3>1, <3>2, <1>2 DEF NodesAreOwned
  <2> QED BY <2>1, <2>2 DEF NodesAreOwned
<1>10. ListHoldsChain'
  <2> SUFFICES ASSUME NEW r \in Name
               PROVE  /\ Len(chain'[r]) = 0 => head'[r] = NULL /\ tail'[r] = NULL
                      /\ Len(chain'[r]) > 0 => head'[r] = chain'[r][1] /\ tail'[r] = chain'[r][Len(chain'[r])]
                      /\ \A i \in 1 .. Len(chain'[r]) - 1 : next'[chain'[r][i]] = chain'[r][i + 1]
    BY <1>8 DEF ListHoldsChain
  <2>1. /\ Len(chain[r]) = 0 => head[r] = NULL /\ tail[r] = NULL
        /\ Len(chain[r]) > 0 => head[r] = chain[r][1] /\ tail[r] = chain[r][Len(chain[r])]
        /\ \A i \in 1 .. Len(chain[r]) - 1 : next[chain[r][i]] = chain[r][i + 1]
    BY <1>2 DEF ListHoldsChain
  <2>2. CASE r # q
    <3>1. ASSUME NEW i \in 1 .. Len(chain[r]) - 1 PROVE next'[chain[r][i]] = next[chain[r][i]]
      <4>1. i \in 1 .. Len(chain[r]) /\ chain[r][i] \in Node \ {n}
        BY <1>3
      <4>2. k > 0 => k \in 1 .. k /\ chain[r][i] # chain[q][k]
        BY <2>2, <4>1, <1>2, <1>5 DEF NodesAreOwned
      <4> QED BY <4>1, <4>2, <1>2, <1>6, <1>7, <1>5 DEF TypeOK
    <3> QED BY <2>1, <2>2, <3>1, <1>2, <1>4, <1>7 DEF TypeOK
  <2>3. CASE r = q
    <3>1. head'[q] = chain'[q][1] /\ tail'[q] = n
      BY <2>1, <2>3, <1>2, <1>5, <1>6, <1>7 DEF TypeOK
    <3>2. ASSUME NEW i \in 1 .. k - 1 PROVE next'[chain[q][i]] = chain[q][i + 1]
      <4>1. i \in 1 .. k /\ k \in 1 .. k /\ chain[q][i] \in Node \ {n}
        BY <1>3, <1>5
      <4>2. chain[q][i] # chain[q][k]
        BY <4>1, <1>2, <1>5 DEF NodesAreOwned
      <4>3. next[chain[q][i]] = chain[q][i + 1]
        BY <2>1, <2>3
      <4> QED BY <4>1, <4>2, <4>3, <1>2, <1>5, <1>6, <1>7 DEF TypeOK
    <3>3. k > 0 => next'[chain[q][k]] = n
      BY <1>2, <1>5, <1>6, <1>7 DEF TypeOK
    <3>4. \A i \in 1 .. k : next'[chain'[q][i]] = chain'[q][i + 1]
      <4>1. ASSUME NEW i \in 1 .. k PROVE next'[chain'[q][i]] = chain'[q][i + 1]
        <5>1. chain'[q][i] = chain[q][i]
          BY <1>5
        <5>2. CASE i = k
          BY <5>1, <5>2, <3>3, <1>5
        <5>3. CASE i # k
          <6>1. i \in 1 .. k - 1 /\ i + 1 \in 1 .. k
            BY <5>3, <1>5
          <6> QED BY <5>1, <6>1, <3>2, <1>5
        <5> QED BY <5>2, <5>3
      <4> QED BY <4>1
    <3> QED BY <2>3, <3>1, <3>4, <1>5
  <2> QED BY <2>2, <2>3
<1> QED BY <1>9, <1>10 DEF IInv

\* popFront unlinks the first node and frees it.
LEMMA PopIInv ==
  ASSUME IInv, NEW q \in Name, popFront(q)
  PROVE  IInv'
<1> DEFINE k == Len(chain[q])
           n == head[q]
<1>1. TypeOK /\ ListHoldsChain /\ NodesAreOwned
  BY DEF IInv, ListHoldsChain
<1>2. /\ \A r \in Name : /\ chain[r] \in Seq(Node) /\ Len(chain[r]) \in Nat
                         /\ \A i \in 1 .. Len(chain[r]) : chain[r][i] \in Node
      /\ chain[q] # <<>> /\ k \in Nat \ {0}
      /\ n = chain[q][1] /\ tail[q] = chain[q][k] /\ n \in Node
  BY <1>1, EmptyFacts DEF TypeOK, popFront
<1>3. /\ heap' = heap \ {n} /\ chain' = [chain EXCEPT ![q] = Tail(@)]
      /\ item' = item /\ next' = next
      /\ ret' = item[n]
  BY DEF popFront, FreeHead, Front
<1>4. /\ \A r \in Name \ {q} : chain'[r] = chain[r]
      /\ chain'[q] = Tail(chain[q])
      /\ chain' \in [Name -> Seq(Node)]
  BY <1>1, <1>2, <1>3, TailFacts DEF TypeOK
<1>5. /\ Len(chain'[q]) = k - 1
      /\ \A i \in 1 .. k - 1 : chain'[q][i] = chain[q][i + 1]
  BY <1>2, <1>4, TailFacts
<1>6. n = tail[q] <=> k = 1
  <2>1. 1 \in 1 .. k /\ k \in 1 .. k
    BY <1>2
  <2>2. \A i, j \in 1 .. k : chain[q][i] = chain[q][j] => i = j
    BY <1>1 DEF NodesAreOwned
  <2>3. chain[q][1] = chain[q][k] => 1 = k
    BY <2>1, <2>2
  <2> QED BY <2>3, <1>2
<1>7. k > 1 => next[n] = chain[q][2]
  <2>1. k > 1 => 1 \in 1 .. k - 1
    BY <1>2
  <2> QED BY <2>1, <1>1, <1>2 DEF ListHoldsChain
<1>8. /\ head' = IF k = 1 THEN [head EXCEPT ![q] = NULL] ELSE [head EXCEPT ![q] = next[n]]
      /\ tail' = IF k = 1 THEN [tail EXCEPT ![q] = NULL] ELSE tail
  BY <1>1, <1>6 DEF popFront, TypeOK
<1>9. TypeOK'
  BY <1>1, <1>2, <1>3, <1>4, <1>8 DEF TypeOK
<1>10. \A r \in Name, i \in Nat : i \in 1 .. Len(chain'[r]) =>
         \/ r # q /\ i \in 1 .. Len(chain[r]) /\ chain'[r][i] = chain[r][i]
         \/ r = q /\ i + 1 \in 1 .. k /\ chain'[r][i] = chain[q][i + 1]
  <2>1. \A r \in Name \ {q}, i \in Nat : i \in 1 .. Len(chain'[r]) =>
          i \in 1 .. Len(chain[r]) /\ chain'[r][i] = chain[r][i]
    BY <1>4
  <2>2. \A i \in 1 .. k - 1 : i + 1 \in 1 .. k /\ chain'[q][i] = chain[q][i + 1]
    BY <1>2, <1>5
  <2> QED BY <2>1, <2>2, <1>5
<1>11. \A r \in Name, i \in Nat : i \in 1 .. Len(chain'[r]) => chain'[r][i] # n
  <2>1. 1 \in 1 .. k
    BY <1>2
  <2> QED BY <2>1, <1>1, <1>2, <1>10 DEF NodesAreOwned
<1>12. NodesAreOwned'
  <2>1. ASSUME NEW m \in Node
        PROVE  m \in heap' <=> \E r \in Name : \E i \in 1 .. Len(chain'[r]) : chain'[r][i] = m
    <3>1. ASSUME NEW r \in Name, NEW i \in 1 .. Len(chain'[r]), chain'[r][i] = m PROVE m \in heap'
      <4>1. i \in Nat
        BY <1>2, <1>4, <1>5
      <4>2. m # n /\ \E j \in 1 .. Len(chain[r]) : chain[r][j] = m
        BY <3>1, <4>1, <1>10, <1>11
      <4> QED BY <4>2, <1>1, <1>3 DEF NodesAreOwned
    <3>2. ASSUME m \in heap' PROVE \E r \in Name : \E i \in 1 .. Len(chain'[r]) : chain'[r][i] = m
      <4>1. PICK r \in Name : \E i \in 1 .. Len(chain[r]) : chain[r][i] = m
        BY <3>2, <1>1, <1>3 DEF NodesAreOwned
      <4>a. PICK i \in 1 .. Len(chain[r]) : chain[r][i] = m
        BY <4>1
      <4>2. CASE r # q
        BY <4>a, <4>2, <1>4
      <4>3. CASE r = q
        <5>1. i # 1
          BY <3>2, <4>a, <4>3, <1>2, <1>3
        <5>2. i - 1 \in 1 .. k - 1 /\ i - 1 + 1 = i
          BY <5>1, <4>3, <1>2
        <5> QED BY <5>2, <4>a, <4>3, <1>5
      <4> QED BY <4>2, <4>3
    <3> QED BY <3>1, <3>2
  <2>2. ASSUME NEW a \in Name, NEW b \in Name, NEW i \in 1 .. Len(chain'[a]), NEW j \in 1 .. Len(chain'[b]),
               chain'[a][i] = chain'[b][j]
        PROVE  a = b /\ i = j
    <3>1. i \in Nat /\ j \in Nat
      BY <1>2, <1>4, <1>5
    <3> QED BY <2>2, <3>1, <1>1, <1>10 DEF NodesAreOwned
  <2> QED BY <2>1, <2>2 DEF NodesAreOwned
<1>13. ListHoldsChain'
  <2> SUFFICES ASSUME NEW r \in Name
               PROVE  /\ Len(chain'[r]) = 0 => head'[r] = NULL /\ tail'[r] = NULL
                      /\ Len(chain'[r]) > 0 => head'[r] = chain'[r][1] /\ tail'[r] = chain'[r][Len(chain'[r])]
                      /\ \A i \in 1 .. Len(chain'[r]) - 1 : next'[chain'[r][i]] = chain'[r][i + 1]
    BY <1>9 DEF ListHoldsChain
  <2>1. /\ Len(chain[r]) = 0 => head[r] = NULL /\ tail[r] = NULL
        /\ Len(chain[r]) > 0 => head[r] = chain[r][1] /\ tail[r] = chain[r][Len(chain[r])]
        /\ \A i \in 1 .. Len(chain[r]) - 1 : next[chain[r][i]] = chain[r][i + 1]
    BY <1>1 DEF ListHoldsChain
  <2>2. CASE r # q
    BY <2>1, <2>2, <1>1, <1>3, <1>4, <1>8 DEF TypeOK
  <2>3. CASE r = q
    BY <2>1, <2>3, <1>1, <1>2, <1>3, <1>5, <1>7, <1>8 DEF TypeOK
  <2> QED BY <2>2, <2>3
<1> QED BY <1>12, <1>13 DEF IInv

LEMMA StepIInv == IInv /\ [Next]_vars => IInv'
<1>1. ASSUME IInv, UNCHANGED vars PROVE IInv'
  BY <1>1 DEF vars, IInv, ListHoldsChain, NodesAreOwned, TypeOK
<1> QED BY <1>1, PushIInv, PopIInv DEF Next

LEMMA QueueInvariant == Spec => []IInv
BY InitIInv, StepIInv, PTL DEF Spec

\* For any number of queues on a heap of any size: from head to tail each list
\* consists of the nodes that were pushed and not yet popped, in order.
THEOREM ListsHoldChains == Spec => []ListHoldsChain
<1>1. IInv => ListHoldsChain
  BY DEF IInv
<1> QED BY <1>1, QueueInvariant, PTL

\* No node is leaked, freed while it is linked, or linked in two places.
THEOREM NodesAreNeverShared == Spec => []NodesAreOwned
<1>1. IInv => NodesAreOwned
  BY DEF IInv
<1> QED BY <1>1, QueueInvariant, PTL

-----------------------------------------------------------------------------
\* Every step of the linked nodes is a step of the abstract queues, or none.
LEMMA StepRefines ==
  IInv /\ [Next]_vars => [FifoQueue!Next]_<<[q \in Name |-> Items(chain[q])], ret>>
<1> DEFINE contents == [q \in Name |-> Items(chain[q])]
<1> SUFFICES ASSUME IInv, [Next]_vars
             PROVE  FifoQueue!Next \/ (contents' = contents /\ ret' = ret)
  OBVIOUS
<1>1. TypeOK /\ NodesAreOwned
  BY DEF IInv, ListHoldsChain
<1>2. \A r \in Name : /\ chain[r] \in Seq(Node) /\ Len(chain[r]) \in Nat
                      /\ \A i \in 1 .. Len(chain[r]) : chain[r][i] \in Node
  BY <1>1 DEF TypeOK
<1>c. \A r \in Name : contents[r] = [i \in 1 .. Len(chain[r]) |-> item[chain[r][i]]]
  BY DEF Items
<1>d. ASSUME NEW r \in Name
      PROVE  /\ contents[r] \in Seq(Item) /\ Len(contents[r]) = Len(chain[r])
             /\ \A i \in 1 .. Len(chain[r]) : contents[r][i] = item[chain[r][i]]
  <2>1. Items(chain[r]) \in Seq(Item) /\ Len(Items(chain[r])) = Len(chain[r])
    BY <1>1, <1>2 DEF Items, TypeOK
  <2>2. contents[r] = Items(chain[r])
    BY DEF Items
  <2>3. \A i \in 1 .. Len(chain[r]) : Items(chain[r])[i] = item[chain[r][i]]
    BY DEF Items
  <2> HIDE DEF contents
  <2> QED BY <2>1, <2>2, <2>3
<1>a. /\ contents = [r \in Name |-> contents[r]]
      /\ contents' = [r \in Name |-> contents'[r]]
      /\ \A r \in Name : contents'[r] = [i \in 1 .. Len(chain'[r]) |-> item'[chain'[r][i]]]
  BY DEF Items
<1>b. /\ FifoQueue!Next <=> \E q \in Name : FifoQueue!Pop(q) \/ \E x \in Item : FifoQueue!Push(q, x)
      /\ \A q \in Name : FifoQueue!Pop(q) <=> /\ contents[q] # <<>>
                                              /\ ret' = Head(contents[q])
                                              /\ contents' = [contents EXCEPT ![q] = Tail(@)]
      /\ \A q \in Name : \A x : FifoQueue!Push(q, x) <=> /\ contents' = [contents EXCEPT ![q] = Append(@, x)]
                                                         /\ ret' = ret
  BY DEF FifoQueue!Next, FifoQueue!Pop, FifoQueue!Push
<1>5. ASSUME UNCHANGED vars PROVE contents' = contents /\ ret' = ret
  BY <1>5 DEF vars, Items
<1> HIDE DEF contents
<1>3. ASSUME NEW q \in Name, NEW x \in Item, pushBack(q, x)
      PROVE  FifoQueue!Push(q, x)
  <2>c. /\ contents[q] \in Seq(Item) /\ Len(contents[q]) = Len(chain[q]) /\ Len(chain[q]) \in Nat
        /\ \A i \in 1 .. Len(chain[q]) : contents[q][i] = item[chain[q][i]]
    BY <1>2, <1>d
  <2>1. PICK n \in Node \ heap :
          /\ item' = [item EXCEPT ![n] = x]
          /\ chain' = [chain EXCEPT ![q] = Append(@, n)]
          /\ ret' = ret
    BY <1>3 DEF pushBack
  <2>2. /\ \A r \in Name \ {q} : chain'[r] = chain[r]
        /\ chain'[q] = Append(chain[q], n)
    BY <1>1, <2>1 DEF TypeOK
  <2>3. \A r \in Name, i \in Nat : i \in 1 .. Len(chain[r]) => item'[chain[r][i]] = item[chain[r][i]]
    BY <1>1, <1>2, <2>1 DEF TypeOK, NodesAreOwned
  <2>4. ASSUME NEW r \in Name PROVE contents'[r] = [contents EXCEPT ![q] = Append(@, x)][r]
    <3>1. contents'[r] = [i \in 1 .. Len(chain'[r]) |-> item'[chain'[r][i]]]
      BY <1>a
    <3>2. CASE r # q
      <4>1. contents'[r] = contents[r]
        <5>1. chain'[r] = chain[r]
          BY <3>2, <2>2
        <5>2. \A i \in 1 .. Len(chain[r]) : item'[chain[r][i]] = item[chain[r][i]]
          BY <1>2, <2>3
        <5>3. contents[r] = [i \in 1 .. Len(chain[r]) |-> item[chain[r][i]]]
          BY <1>c
        <5> QED BY <3>1, <5>1, <5>2, <5>3
      <4> QED BY <4>1, <3>2, <1>a
    <3>3. CASE r = q
      <4>1. /\ Len(chain'[q]) = Len(chain[q]) + 1
            /\ chain'[q][Len(chain[q]) + 1] = n
            /\ \A i \in 1 .. Len(chain[q]) : chain'[q][i] = chain[q][i]
        BY <1>2, <2>2, AppendFacts
      <4>2. item'[n] = x
        BY <1>1, <2>1 DEF TypeOK
      <4>3. /\ Append(contents[q], x) \in Seq(Item)
            /\ Len(Append(contents[q], x)) = Len(chain[q]) + 1
            /\ Append(contents[q], x)[Len(chain[q]) + 1] = x
            /\ \A i \in 1 .. Len(chain[q]) : Append(contents[q], x)[i] = contents[q][i]
        BY <2>c, AppendFacts
      <4>4. \A i \in 1 .. Len(chain[q]) + 1 : item'[chain'[q][i]] = Append(contents[q], x)[i]
        BY <4>1, <4>2, <4>3, <2>c, <2>3
      <4>5. Append(contents[q], x) = [i \in 1 .. Len(chain[q]) + 1 |-> Append(contents[q], x)[i]]
        BY <4>3, <2>c
      <4>6. contents'[q] = Append(contents[q], x)
        BY <3>1, <3>3, <4>1, <4>4, <4>5
      <4> QED BY <3>3, <4>6, <1>a
    <3> QED BY <3>2, <3>3
  <2>5. contents' = [contents EXCEPT ![q] = Append(@, x)]
    BY <2>4, <1>a
  <2> QED BY <2>1, <2>5, <1>b
<1>4. ASSUME NEW q \in Name, popFront(q)
      PROVE  FifoQueue!Pop(q)
  <2>c. /\ contents[q] \in Seq(Item) /\ Len(contents[q]) = Len(chain[q]) /\ Len(chain[q]) \in Nat
        /\ \A i \in 1 .. Len(chain[q]) : contents[q][i] = item[chain[q][i]]
    BY <1>2, <1>d
  <2>1. /\ item' = item /\ ret' = item[head[q]]
        /\ chain' = [chain EXCEPT ![q] = Tail(@)]
        /\ chain[q] # <<>> /\ head[q] = chain[q][1]
    BY <1>4, EmptyFacts DEF popFront, Front
  <2>2. /\ \A r \in Name \ {q} : chain'[r] = chain[r]
        /\ chain'[q] = Tail(chain[q])
    BY <1>1, <2>1 DEF TypeOK
  <2>3. contents[q] # <<>> /\ Head(contents[q]) = item[head[q]]
    <3>1. Len(chain[q]) \in Nat \ {0}
      BY <1>2, <2>1
    <3> QED BY <3>1, <2>c, <2>1
  <2>4. ASSUME NEW r \in Name PROVE contents'[r] = [contents EXCEPT ![q] = Tail(@)][r]
    <3>1. contents'[r] = [i \in 1 .. Len(chain'[r]) |-> item[chain'[r][i]]]
      BY <1>a, <2>1
    <3>2. CASE r # q
      <4>1. contents'[r] = contents[r]
        BY <3>1, <3>2, <1>2, <1>c, <2>2
      <4> QED BY <4>1, <3>2, <1>a
    <3>3. CASE r = q
      <4>1. /\ Len(chain[q]) \in Nat \ {0}
            /\ Len(chain'[q]) = Len(chain[q]) - 1
            /\ \A i \in 1 .. Len(chain[q]) - 1 : chain'[q][i] = chain[q][i + 1]
        <5>1. chain[q] \in Seq(Node)
          BY <1>2
        <5> QED BY <5>1, <2>1, <2>2, TailFacts
      <4>2. /\ Tail(contents[q]) \in Seq(Item)
            /\ Len(Tail(contents[q])) = Len(chain[q]) - 1
            /\ \A i \in 1 .. Len(chain[q]) - 1 : Tail(contents[q])[i] = contents[q][i + 1]
        BY <2>c, <2>3, TailFacts
      <4>3. \A i \in 1 .. Len(chain[q]) - 1 : item[chain'[q][i]] = Tail(contents[q])[i]
        BY <4>1, <4>2, <2>c
      <4>4. Tail(contents[q]) = [i \in 1 .. Len(chain[q]) - 1 |-> Tail(contents[q])[i]]
        <5> DEFINE u == Tail(contents[q])
        <5>1. u \in Seq(Item) /\ Len(u) = Len(chain[q]) - 1
          BY <4>2
        <5> HIDE DEF u
        <5>2. u = [i \in 1 .. Len(u) |-> u[i]]
          BY <5>1
        <5> QED BY <5>1, <5>2 DEF u
      <4>5. contents'[q] = Tail(contents[q])
        BY <3>1, <3>3, <4>1, <4>3, <4>4
      <4> QED BY <3>3, <4>5, <1>a
    <3> QED BY <3>2, <3>3
  <2>5. contents' = [contents EXCEPT ![q] = Tail(@)]
    BY <2>4, <1>a
  <2> QED BY <2>1, <2>3, <2>5, <1>b
<1> QED BY <1>3, <1>4, <1>5, <1>b DEF Next

LEMMA InitRefines == Init => FifoQueue!Init
<1> SUFFICES ASSUME Init PROVE FifoQueue!Init
  OBVIOUS
<1>1. ASSUME NEW q \in Name PROVE Items(chain[q]) = <<>>
  <2>1. chain[q] = <<>>
    BY DEF Init
  <2>2. Items(<<>>) \in Seq(Item) /\ Len(Items(<<>>)) = 0
    BY DEF Items
  <2> QED BY <2>1, <2>2
<1> QED BY <1>1 DEF Init, FifoQueue!Init

\* The queues of queue.c are first-in first-out queues that do not disturb each
\* other, for any number of queues, nodes and items.
THEOREM QueueImplementsFifo == Spec => ImplementsFifo
<1>1. Spec => [][FifoQueue!Next]_<<[q \in Name |-> Items(chain[q])], ret>>
  BY StepRefines, QueueInvariant, PTL DEF Spec
<1>2. Spec => FifoQueue!Init
  BY InitRefines DEF Spec
<1> QED BY <1>1, <1>2, PTL DEF ImplementsFifo, FifoQueue!Spec
=============================================================================
