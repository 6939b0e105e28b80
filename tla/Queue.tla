-------------------------------- MODULE Queue --------------------------------
(***************************************************************************)
(* kernel/queue.c: queues of linked nodes.  The nodes of all queues (the   *)
(* characters and the waiting threads of standard input) come from one     *)
(* heap, and a node that popFront freed is handed out again, zeroed, by    *)
(* the next kalloc.                                                        *)
(*                                                                         *)
(* The calls are made with interrupts disabled (module Kernel), so each is *)
(* one step.  The history variable chain records which nodes each queue    *)
(* was given, oldest first; no action reads it.                            *)
(***************************************************************************)
EXTENDS Integers, Sequences

CONSTANTS Name, Item,   \* the queues, and what is put into them
          Node,         \* addresses of nodes
          NULL

ASSUME QueueAssumption == NULL \notin Node

VARIABLES head, tail,   \* the two pointers of each queue
          item, next,   \* the fields of each node
          heap,         \* the nodes that are allocated
          ret,          \* what the last popFront returned
          chain         \* history: the nodes of each queue in order

vars == <<head, tail, item, next, heap, ret, chain>>

Init ==
  /\ head = [q \in Name |-> NULL] /\ tail = [q \in Name |-> NULL]
  /\ item \in {[n \in Node |-> x] : x \in Item}
  /\ next = [n \in Node |-> NULL]
  /\ heap = {}
  /\ ret \in Item
  /\ chain = [q \in Name |-> <<>>]

isEmpty(q) == head[q] = tail[q] /\ head[q] = NULL

\* Linking the new node n behind the last one.  The mutants forget that the
\* queue may be empty, or to move the tail.
LinkNoHead(q, n) ==
  /\ tail' = [tail EXCEPT ![q] = n]
  /\ next' = IF isEmpty(q) THEN next ELSE [next EXCEPT ![n] = NULL, ![tail[q]] = n]
  /\ UNCHANGED head
LinkKeepsTail(q, n) ==
  IF isEmpty(q)
    THEN /\ head' = [head EXCEPT ![q] = n] /\ tail' = [tail EXCEPT ![q] = n]
         /\ next' = [next EXCEPT ![n] = NULL]
    ELSE /\ next' = [next EXCEPT ![n] = NULL, ![tail[q]] = n]
         /\ UNCHANGED <<head, tail>>
Link(q, n) ==
  IF isEmpty(q)
    THEN /\ head' = [head EXCEPT ![q] = n] /\ tail' = [tail EXCEPT ![q] = n]
         /\ next' = [next EXCEPT ![n] = NULL]
    ELSE /\ next' = [next EXCEPT ![n] = NULL, ![tail[q]] = n]
         /\ tail' = [tail EXCEPT ![q] = n]
         /\ UNCHANGED head

\* kalloc hands out any node that is free.  (When there is none it panics.)
pushBack(q, data) ==
  \E n \in Node \ heap :
    /\ heap' = heap \cup {n}
    /\ item' = [item EXCEPT ![n] = data]
    /\ Link(q, n)
    /\ chain' = [chain EXCEPT ![q] = Append(@, n)]
    /\ UNCHANGED ret

\* kfree of the node; the mutant frees nothing.
FreeNothing(q) == heap' = heap
FreeHead(q)    == heap' = heap \ {head[q]}

\* The value returned.
Front(q)     == item[head[q]]

\* Its callers ask isEmpty first.
popFront(q) ==
  /\ ~isEmpty(q)
  /\ ret' = Front(q)
  /\ IF head[q] = tail[q]
       THEN head' = [head EXCEPT ![q] = NULL] /\ tail' = [tail EXCEPT ![q] = NULL]
       ELSE head' = [head EXCEPT ![q] = next[@]] /\ UNCHANGED tail
  /\ FreeHead(q)
  /\ chain' = [chain EXCEPT ![q] = Tail(@)]
  /\ UNCHANGED <<item, next>>

Next == \E q \in Name : popFront(q) \/ \E x \in Item : pushBack(q, x)

Spec == Init /\ [][Next]_vars
-----------------------------------------------------------------------------
\* Types of the state: what popFront returns is an item that was pushed.
TypeOK ==
  /\ head \in [Name -> Node \cup {NULL}] /\ tail \in [Name -> Node \cup {NULL}]
  /\ item \in [Node -> Item] /\ next \in [Node -> Node \cup {NULL}]
  /\ heap \subseteq Node
  /\ ret \in Item
  /\ chain \in [Name -> Seq(Node)]

\* The state keeps its types.  From head, the next pointers lead through the nodes of the queue, in the
\* order they were pushed, to tail, through any sequence of pushes and pops
\* that empties and refills the queue.
ListHoldsChain ==
  /\ TypeOK
  /\ \A q \in Name :
       LET c == chain[q]
           n == Len(c)
       IN  /\ n = 0 => head[q] = NULL /\ tail[q] = NULL
           /\ n > 0 => head[q] = c[1] /\ tail[q] = c[n]
           /\ \A i \in 1 .. n - 1 : next[c[i]] = c[i + 1]

\* The allocated nodes are those in the queues, each in one place: popFront
\* frees the node it unlinks and no other, and none is leaked.
NodesAreOwned ==
  /\ \A n \in Node : n \in heap <=> \E q \in Name : \E i \in 1 .. Len(chain[q]) : chain[q][i] = n
  /\ \A q, r \in Name : \A i \in 1 .. Len(chain[q]), j \in 1 .. Len(chain[r]) :
       chain[q][i] = chain[r][j] => q = r /\ i = j

IInv == ListHoldsChain /\ NodesAreOwned

Items(c) == [i \in 1 .. Len(c) |-> item[c[i]]]

FifoQueue == INSTANCE Fifo WITH contents <- [q \in Name |-> Items(chain[q])]

\* The linked nodes are first-in first-out queues that do not disturb each
\* other.
ImplementsFifo == FifoQueue!Spec
=============================================================================
