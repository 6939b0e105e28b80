-------------------------------- MODULE Fifo --------------------------------
(***************************************************************************)
(* What kernel/queue.c promises: unbounded first-in first-out queues.      *)
(* Module Queue implements them with linked nodes on the heap; module      *)
(* Kernel uses them as sequences.                                          *)
(***************************************************************************)
EXTENDS Sequences

CONSTANTS Name, Item    \* the queues, and what is put into them

VARIABLES contents,     \* the items in each queue, oldest first
          ret           \* what the last popFront returned

Init == /\ contents = [q \in Name |-> <<>>]
        /\ ret \in Item

Push(q, x) == /\ contents' = [contents EXCEPT ![q] = Append(@, x)]
              /\ UNCHANGED ret

Pop(q) == /\ contents[q] # <<>>
          /\ ret' = Head(contents[q])
          /\ contents' = [contents EXCEPT ![q] = Tail(@)]

Next == \E q \in Name : Pop(q) \/ \E x \in Item : Push(q, x)

Spec == Init /\ [][Next]_<<contents, ret>>
=============================================================================
