----------------------------- MODULE RRScheduler -----------------------------
(***************************************************************************)
(* kernel/rrscheduler.c: the ready queue as a circular doubly linked list  *)
(* laid out in an array.  Entry 0 is the dummy head, entry tid + 1 belongs *)
(* to thread tid; the fields of RRInfo are one function each.              *)
(*                                                                         *)
(* All calls are made with interrupts disabled (module Kernel), so each is *)
(* one step.  The history variable order records the threads pushed and    *)
(* not yet popped; no action reads it.  It is what the list has to hold,   *)
(* and the queue of module Scheduler under the refinement mapping.         *)
(***************************************************************************)
EXTENDS Integers, Sequences

CONSTANTS MaxThread, MaxTime

ASSUME RRAssumption == /\ MaxThread \in Nat \ {0}
                       /\ MaxTime \in Nat \ {0}

VARIABLES next, prev, valid, slice,   \* rrScheduler.threads[]: the list
          current,                    \* rrScheduler.current, 0 for none
          order                       \* history: pushed and not yet popped

rrVars == <<next, prev, valid, slice, current, order>>

Tid   == 0 .. MaxThread - 1
Index == 0 .. MaxThread
Entry(tid) == tid + 1

Init ==
  /\ next = [i \in Index |-> 0]
  /\ prev = [i \in Index |-> 0]
  /\ valid = [i \in Index |-> 0]
  /\ slice = [i \in Index |-> 0]
  /\ current = 0
  /\ order = <<>>
-----------------------------------------------------------------------------
(* schedulerPush links the entry between the tail and the dummy head.  The *)
(* assignments are in program order, which matters when the list is empty  *)
(* and prev[0] is 0.  The panic on an out-of-range tid is not reachable    *)
(* from Tid.                                                               *)

\* The entry is linked in front of the first one instead of behind the last.
PushAtFront(tid) ==
  LET e == Entry(tid)
      h == next[0]
  IN  /\ slice' = [slice EXCEPT ![e] = IF @ = 0 THEN MaxTime ELSE @]
      /\ valid' = [valid EXCEPT ![e] = 1]
      /\ next' = [next EXCEPT ![0] = e, ![e] = h]
      /\ prev' = [prev EXCEPT ![h] = e, ![e] = 0]
      /\ order' = Append(order, tid)
      /\ UNCHANGED current

\* The dummy head keeps pointing at the old tail.
PushForgetsTail(tid) ==
  LET e == Entry(tid)
      p == prev[0]
  IN  /\ slice' = [slice EXCEPT ![e] = IF @ = 0 THEN MaxTime ELSE @]
      /\ valid' = [valid EXCEPT ![e] = 1]
      /\ next' = [next EXCEPT ![p] = e, ![e] = 0]
      /\ prev' = [prev EXCEPT ![e] = p]
      /\ order' = Append(order, tid)
      /\ UNCHANGED current

schedulerPush(tid) ==
  LET e == Entry(tid)
      p == prev[0]
  IN  /\ slice' = [slice EXCEPT ![e] = IF @ = 0 THEN MaxTime ELSE @]
      /\ valid' = [valid EXCEPT ![e] = 1]
      /\ next' = [next EXCEPT ![p] = e, ![e] = 0]
      /\ prev' = [prev EXCEPT ![e] = p, ![0] = e]
      /\ order' = Append(order, tid)
      /\ UNCHANGED current

\* schedulerPop unlinks the first entry, if there is one, and makes it the
\* current one; the caller gets its index minus one, or -1 from an empty list.
schedulerPop ==
  LET e == next[0]
      n == next[e]
      p == prev[e]
  IN  /\ e # 0
      /\ prev' = [prev EXCEPT ![n] = p, ![e] = 0]
      /\ next' = [next EXCEPT ![p] = n, ![e] = 0]
      /\ valid' = [valid EXCEPT ![e] = 0]
      /\ current' = e
      /\ order' = Tail(order)
      /\ UNCHANGED slice

\* schedulerTick charges the current entry.  Without one it changes nothing
\* (and reports the slice as used up).
schedulerTick ==
  /\ current # 0
  /\ slice' = [slice EXCEPT ![current] = @ - 1]
  /\ UNCHANGED <<next, prev, valid, current, order>>

schedulerExit(tid) ==
  /\ current = Entry(tid)
  /\ current' = 0
  /\ UNCHANGED <<next, prev, valid, slice, order>>
-----------------------------------------------------------------------------
Sched == INSTANCE Scheduler
           WITH ready   <- order,
                time    <- [t \in Tid |-> slice[Entry(t)]],
                running <- current - 1

\* The clients (module Kernel) keep the contract of the interface.
Next ==
  \/ \E tid \in Tid : Sched!MayPush(tid) /\ schedulerPush(tid)
  \/ schedulerPop
  \/ Sched!MayTick /\ schedulerTick
  \/ \E tid \in Tid : schedulerExit(tid)

Spec == Init /\ [][Next]_rrVars

\* idleMain calls schedulerPop in an endless loop.
FairSpec == Spec /\ WF_rrVars(schedulerPop)
-----------------------------------------------------------------------------
\* Indices stay in the array and no slice underflows or grows past maxTime.
TypeOK ==
  /\ next \in [Index -> Index]
  /\ prev \in [Index -> Index]
  /\ valid \in [Index -> 0 .. 1]
  /\ slice \in [Index -> 0 .. MaxTime]
  /\ current \in Index
  /\ order \in Seq(Tid)

\* No thread is in the queue twice.
OrderInjective ==
  \A i, j \in 1 .. Len(order) : order[i] = order[j] => i = j

\* Starting at the dummy head, next and prev run through exactly the threads
\* that were pushed and not popped, in the order of the pushes: the pointer
\* surgery of schedulerPush and schedulerPop never loses, repeats or reorders
\* an entry, at an empty, one-element or longer list.
ListHoldsOrder ==
  LET n == Len(order)
  IN  /\ n = 0 => next[0] = 0 /\ prev[0] = 0
      /\ n > 0 => /\ next[0] = Entry(order[1])
                  /\ prev[Entry(order[1])] = 0
                  /\ prev[0] = Entry(order[n])
                  /\ next[Entry(order[n])] = 0
      /\ \A i \in 1 .. n - 1 : /\ next[Entry(order[i])] = Entry(order[i + 1])
                               /\ prev[Entry(order[i + 1])] = Entry(order[i])

IInv == TypeOK /\ OrderInjective /\ ListHoldsOrder

\* The linked list implements the FIFO queue of module Scheduler.
ImplementsScheduler == Sched!SchedulerSpec

\* No ready thread starves: whatever is pushed behind it, a queued thread is
\* popped and becomes the current one.
QueuedIsServed == \A t \in Tid : Sched!Queued(t) ~> current = Entry(t)
=============================================================================
