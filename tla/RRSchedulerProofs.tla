-------------------------- MODULE RRSchedulerProofs --------------------------
(***************************************************************************)
(* For every number of threads and every slice length: the linked list of  *)
(* rrscheduler.c holds the pushed threads in order, and implements the     *)
(* FIFO queue of module Scheduler.                                         *)
(***************************************************************************)
EXTENDS RRScheduler, TLAPS

\* A newly created list is empty.
LEMMA InitIInv == Init => IInv
BY RRAssumption DEF Init, IInv, TypeOK, OrderInjective, ListHoldsOrder, Index, Tid, Entry

\* What Append and Tail do to the history variable, elementwise.
LEMMA AppendFacts ==
  ASSUME NEW q \in Seq(Tid), NEW t \in Tid
  PROVE  /\ Append(q, t) \in Seq(Tid)
         /\ Len(Append(q, t)) = Len(q) + 1
         /\ Append(q, t)[Len(q) + 1] = t
         /\ \A i \in 1 .. Len(q) : Append(q, t)[i] = q[i]
OBVIOUS

LEMMA TailFacts ==
  ASSUME NEW q \in Seq(Tid), q # <<>>
  PROVE  /\ Tail(q) \in Seq(Tid)
         /\ Len(Tail(q)) = Len(q) - 1
         /\ Head(q) = q[1]
         /\ Len(q) \in Nat \ {0}
         /\ \A i \in 1 .. Len(q) - 1 : Tail(q)[i] = q[i + 1]
OBVIOUS

\* schedulerPush of a thread that is not queued keeps the list well formed.
LEMMA PushIInv ==
  ASSUME IInv, NEW tid \in Tid, Sched!MayPush(tid), schedulerPush(tid)
  PROVE  IInv'
<1> DEFINE e == Entry(tid)
           p == prev[0]
           n == Len(order)
<1> USE RRAssumption
<1>a. TypeOK /\ OrderInjective /\ ListHoldsOrder
  BY DEF IInv
<1>b. e \in Index \ {0} /\ 0 \in Index /\ e \in Index
  BY DEF Index, Tid, Entry
<1>c. p \in Index /\ n \in Nat /\ \A i \in 1 .. n : order[i] \in Tid
  BY <1>a, <1>b DEF TypeOK
<1>d. \A i \in 1 .. n : order[i] # tid
  BY DEF Sched!MayPush, Sched!Queued
<1>1. /\ TypeOK /\ OrderInjective /\ ListHoldsOrder
      /\ e \in Index \ {0} /\ p \in Index /\ n \in Nat
      /\ \A i \in 1 .. n : order[i] \in Tid /\ order[i] # tid
  BY <1>a, <1>b, <1>c, <1>d
<1>2. /\ order' = Append(order, tid)
      /\ next' = [next EXCEPT ![p] = e, ![e] = 0]
      /\ prev' = [prev EXCEPT ![e] = p, ![0] = e]
  BY DEF schedulerPush
<1>3. /\ order' \in Seq(Tid) /\ Len(order') = n + 1 /\ order'[n + 1] = tid
      /\ \A i \in 1 .. n : order'[i] = order[i]
  BY <1>1, <1>2, AppendFacts DEF TypeOK
<1>4. TypeOK'
  <2>1. next' \in [Index -> Index] /\ prev' \in [Index -> Index]
    BY <1>a, <1>b, <1>c, <1>2 DEF TypeOK
  <2>2. valid' \in [Index -> 0 .. 1]
    BY <1>a, <1>b DEF schedulerPush, TypeOK
  <2>3. slice[e] \in 0 .. MaxTime
    BY <1>a, <1>b DEF TypeOK
  <2>4. slice' \in [Index -> 0 .. MaxTime]
    <3>1. CASE slice[e] = 0
      <4>1. slice' = [slice EXCEPT ![e] = MaxTime]
        BY <3>1 DEF schedulerPush
      <4>2. MaxTime \in 0 .. MaxTime
        OBVIOUS
      <4> QED BY <4>1, <4>2, <1>a DEF TypeOK
    <3>2. CASE slice[e] # 0
      <4>1. slice' = [slice EXCEPT ![e] = slice[e]]
        BY <3>2 DEF schedulerPush
      <4> QED BY <4>1, <2>3, <1>a DEF TypeOK
    <3> QED BY <3>1, <3>2
  <2>5. current' \in Index
    BY <1>a DEF schedulerPush, TypeOK
  <2> QED BY <2>1, <2>2, <2>4, <2>5, <1>3 DEF TypeOK
<1>5. OrderInjective'
  BY <1>1, <1>3 DEF OrderInjective
<1>6. p # e
  <2>1. CASE n = 0
    BY <2>1, <1>1 DEF ListHoldsOrder
  <2>2. CASE n > 0
    BY <2>2, <1>1 DEF ListHoldsOrder, Entry, Tid
  <2> QED BY <2>1, <2>2, <1>1
<1>7. /\ next'[e] = 0 /\ next'[p] = e
      /\ prev'[e] = p /\ prev'[0] = e
      /\ \A i \in Index \ {p, e} : next'[i] = next[i]
      /\ \A i \in Index \ {0, e} : prev'[i] = prev[i]
  <2>1. next \in [Index -> Index] /\ prev \in [Index -> Index]
    BY <1>a DEF TypeOK
  <2> QED BY <2>1, <1>b, <1>c, <1>2, <1>6
<1>8. ListHoldsOrder'
  <2>1. CASE n = 0
    BY <2>1, <1>1, <1>3, <1>7 DEF ListHoldsOrder, Entry, Index, Tid
  <2>2. CASE n > 0
    <3>1. p = Entry(order[n]) /\ next[0] = Entry(order[1]) /\ prev[Entry(order[1])] = 0
      BY <2>2, <1>1 DEF ListHoldsOrder
    <3>2. \A i \in 1 .. n : Entry(order[i]) \in Index \ {0, e}
      BY <1>1 DEF Entry, Index, Tid
    <3>3. \A i \in 1 .. n - 1 : Entry(order[i]) # p
      BY <3>1, <1>1, SMTT(30) DEF OrderInjective, Entry, Tid
    <3>4. next'[0] = next[0]
      BY <3>1, <3>2, <1>1, <1>7, <2>2 DEF Index
    <3>5. \A i \in 1 .. n - 1 : /\ next'[Entry(order[i])] = Entry(order[i + 1])
                                /\ prev'[Entry(order[i + 1])] = Entry(order[i])
      BY <3>2, <3>3, <1>1, <1>7 DEF ListHoldsOrder
    <3>6. prev'[Entry(order[1])] = 0
      BY <3>1, <3>2, <1>7, <2>2, <1>1
    <3> QED
      BY <3>1, <3>4, <3>5, <3>6, <2>2, <1>1, <1>3, <1>7 DEF ListHoldsOrder
  <2> QED BY <2>1, <2>2, <1>1
<1> QED BY <1>4, <1>5, <1>8 DEF IInv

\* schedulerPop keeps the list well formed, and unlinks the oldest thread.
LEMMA PopIInv ==
  ASSUME IInv, schedulerPop
  PROVE  /\ IInv'
         /\ order # <<>>
         /\ current' = Entry(Head(order))
<1> DEFINE e == next[0]
           n == Len(order)
<1> USE RRAssumption
<1>1. /\ TypeOK /\ OrderInjective /\ ListHoldsOrder
      /\ n \in Nat
      /\ \A i \in 1 .. n : order[i] \in Tid
  BY DEF IInv, TypeOK
<1>2. n > 0 /\ order # <<>>
  BY <1>1 DEF ListHoldsOrder, schedulerPop, TypeOK
<1>3. e = Entry(order[1]) /\ e \in Index \ {0} /\ prev[e] = 0
  BY <1>1, <1>2 DEF ListHoldsOrder, Entry, Tid, Index
<1>4. /\ order' = Tail(order) /\ order' \in Seq(Tid) /\ Len(order') = n - 1
      /\ Head(order) = order[1]
      /\ \A i \in 1 .. n - 1 : order'[i] = order[i + 1]
  BY <1>1, <1>2, TailFacts DEF schedulerPop, TypeOK
<1>5. /\ next[e] \in Index
      /\ prev' = [prev EXCEPT ![next[e]] = 0, ![e] = 0]
      /\ next' = [next EXCEPT ![0] = next[e], ![e] = 0]
  BY <1>1, <1>3 DEF schedulerPop, TypeOK
<1>6. TypeOK'
  <2>1. 0 \in Index
    BY DEF Index
  <2>2. next' \in [Index -> Index] /\ prev' \in [Index -> Index]
    BY <1>1, <1>3, <1>5, <2>1 DEF TypeOK
  <2>3. valid' \in [Index -> 0 .. 1]
    BY <1>1, <1>3 DEF schedulerPop, TypeOK
  <2> QED BY <1>1, <1>3, <1>4, <2>2, <2>3 DEF schedulerPop, TypeOK
<1>7. OrderInjective'
  BY <1>1, <1>4 DEF OrderInjective
<1>8. /\ next'[0] = next[e] /\ prev'[next[e]] = 0
      /\ \A i \in Index \ {0, e} : next'[i] = next[i]
      /\ \A i \in Index \ {next[e], e} : prev'[i] = prev[i]
  BY <1>1, <1>3, <1>5 DEF TypeOK, Index
<1>9. \A i \in 2 .. n : Entry(order[i]) \in Index \ {0, e}
  BY <1>1, <1>3 DEF OrderInjective, Entry, Index, Tid
<1>10. ListHoldsOrder'
  <2>1. CASE n = 1
    <3>1. next[e] = 0
      BY <2>1, <1>1, <1>3 DEF ListHoldsOrder
    <3> QED
      BY <2>1, <3>1, <1>4, <1>8 DEF ListHoldsOrder
  <2>2. CASE n > 1
    <3>1. next[e] = Entry(order[2])
      BY <2>2, <1>1, <1>3 DEF ListHoldsOrder
    <3>2. prev'[0] = Entry(order[n]) /\ next'[Entry(order[n])] = 0
      BY <2>2, <3>1, <1>1, <1>3, <1>8, <1>9 DEF ListHoldsOrder, Index
    <3>3. \A i \in 2 .. n - 1 : /\ next'[Entry(order[i])] = Entry(order[i + 1])
                                /\ prev'[Entry(order[i + 1])] = Entry(order[i])
      <4> SUFFICES ASSUME NEW i \in 2 .. n - 1
                   PROVE  /\ next'[Entry(order[i])] = Entry(order[i + 1])
                          /\ prev'[Entry(order[i + 1])] = Entry(order[i])
        OBVIOUS
      <4>1. /\ next[Entry(order[i])] = Entry(order[i + 1])
            /\ prev[Entry(order[i + 1])] = Entry(order[i])
        BY <1>1 DEF ListHoldsOrder
      <4>2. Entry(order[i + 1]) # next[e]
        BY <3>1, <1>1 DEF OrderInjective, Entry, Tid
      <4> QED BY <4>1, <4>2, <1>1, <1>8, <1>9
    <3> QED
      BY <2>2, <3>1, <3>2, <3>3, <1>1, <1>4, <1>8 DEF ListHoldsOrder
  <2> QED BY <2>1, <2>2, <1>1, <1>2
<1>11. current' = Entry(Head(order))
  BY <1>3, <1>4 DEF schedulerPop
<1> QED BY <1>2, <1>6, <1>7, <1>10, <1>11 DEF IInv

\* Every step keeps the inductive invariant.
LEMMA StepIInv == IInv /\ [Next]_rrVars => IInv'
<1> SUFFICES ASSUME IInv, [Next]_rrVars PROVE IInv'
  OBVIOUS
<1>1. CASE \E tid \in Tid : Sched!MayPush(tid) /\ schedulerPush(tid)
  BY <1>1, PushIInv
<1>2. CASE schedulerPop
  BY <1>2, PopIInv
<1>3. CASE Sched!MayTick /\ schedulerTick
  <2>1. current \in Index \ {0} /\ slice[current] \in 1 .. MaxTime
    BY <1>3, RRAssumption, SMTT(30) DEF IInv, TypeOK, Index, schedulerTick, Sched!MayTick,
       Sched!NoTid, Entry, Tid
  <2>2. slice' \in [Index -> 0 .. MaxTime]
    <3>1. slice[current] - 1 \in 0 .. MaxTime
      BY <2>1, RRAssumption
    <3>2. slice' = [slice EXCEPT ![current] = slice[current] - 1]
      BY <1>3 DEF schedulerTick
    <3> QED BY <3>1, <3>2 DEF IInv, TypeOK
  <2>3. UNCHANGED <<next, prev, valid, current, order>>
    BY <1>3 DEF schedulerTick
  <2> QED
    BY <2>2, <2>3 DEF IInv, TypeOK, OrderInjective, ListHoldsOrder
<1>4. CASE \E tid \in Tid : schedulerExit(tid)
  <2>1. current' \in Index /\ UNCHANGED <<next, prev, valid, slice, order>>
    BY <1>4, RRAssumption DEF schedulerExit, Index
  <2> QED
    BY <2>1 DEF IInv, TypeOK, OrderInjective, ListHoldsOrder
<1>5. CASE UNCHANGED rrVars
  BY <1>5 DEF rrVars, IInv, TypeOK, OrderInjective, ListHoldsOrder
<1> QED BY <1>1, <1>2, <1>3, <1>4, <1>5 DEF Next

\* The list invariant of rrscheduler.c, for every MaxThread and MaxTime.
THEOREM ListInvariant == Spec => [](TypeOK /\ OrderInjective /\ ListHoldsOrder)
<1>1. IInv => TypeOK /\ OrderInjective /\ ListHoldsOrder
  BY DEF IInv
<1> QED BY InitIInv, StepIInv, <1>1, PTL DEF Spec

\* Every step of the list is a step of the FIFO queue, or leaves it alone.
LEMMA StepRefines == IInv /\ [Next]_rrVars => [Sched!SchedulerNext]_(Sched!schedVars)
<1> SUFFICES ASSUME IInv, [Next]_rrVars
             PROVE  Sched!SchedulerNext \/ UNCHANGED Sched!schedVars
  OBVIOUS
<1> DEFINE absTime == [t \in Tid |-> slice[Entry(t)]]
<1>0. TypeOK /\ Tid = Sched!Tid
  BY DEF IInv, Tid, Sched!Tid
<1>1. CASE \E tid \in Tid : Sched!MayPush(tid) /\ schedulerPush(tid)
  <2>1. PICK tid \in Tid : Sched!MayPush(tid) /\ schedulerPush(tid)
    BY <1>1
  <2>2. absTime' = [absTime EXCEPT ![tid] = IF @ = 0 THEN MaxTime ELSE @]
    <3>0. Entry(tid) \in Index
      BY RRAssumption DEF Entry, Tid, Index
    <3>1. slice \in [Index -> 0 .. MaxTime] /\ Entry(tid) \in Index
      BY <1>0, <3>0 DEF TypeOK
    <3>2. slice'[Entry(tid)] = IF slice[Entry(tid)] = 0 THEN MaxTime ELSE slice[Entry(tid)]
      BY <2>1, <3>1 DEF schedulerPush
    <3>3. \A t \in Tid : t # tid => slice'[Entry(t)] = slice[Entry(t)]
      BY <2>1, <3>1, RRAssumption DEF schedulerPush, Entry, Tid, Index
    <3>4. absTime' = [t \in Tid |-> slice'[Entry(t)]]
      OBVIOUS
    <3> QED BY <3>2, <3>3, <3>4
  <2>3. Sched!Push(tid) /\ UNCHANGED (current - 1)
    BY <2>1, <2>2 DEF schedulerPush, Sched!Push
  <2> QED BY <2>1, <2>3, <1>0 DEF Sched!SchedulerNext
<1>2. CASE schedulerPop
  <2>1. order # <<>> /\ current' = Entry(Head(order)) /\ order' = Tail(order) /\ slice' = slice
    BY <1>2, PopIInv DEF schedulerPop
  <2>2. Head(order) \in Tid
    BY <2>1, <1>0, TailFacts DEF TypeOK
  <2>3. Sched!Pop /\ UNCHANGED absTime
    BY <2>1, <2>2 DEF Sched!Pop, Entry, Tid
  <2> QED BY <2>1, <2>3 DEF Sched!SchedulerNext
<1>3. CASE Sched!MayTick /\ schedulerTick
  <2>1. current \in Index \ {0} /\ current - 1 \in Tid
    BY <1>3, <1>0, RRAssumption DEF TypeOK, Index, schedulerTick, Tid
  <2>2. absTime' = [absTime EXCEPT ![current - 1] = @ - 1]
    <3>1. slice \in [Index -> 0 .. MaxTime] /\ Entry(current - 1) = current
      BY <1>0, <2>1 DEF TypeOK, Entry, Index
    <3>2. slice'[Entry(current - 1)] = slice[Entry(current - 1)] - 1
      BY <1>3, <3>1, <2>1 DEF schedulerTick
    <3>3. \A t \in Tid : t # current - 1 => slice'[Entry(t)] = slice[Entry(t)]
      BY <1>3, <3>1, <2>1, RRAssumption DEF schedulerTick, Entry, Tid, Index
    <3>4. absTime' = [t \in Tid |-> slice'[Entry(t)]]
      OBVIOUS
    <3> QED BY <2>1, <3>2, <3>3, <3>4
  <2>3. Sched!Tick /\ UNCHANGED <<order, current - 1>>
    BY <1>3, <2>1, <2>2 DEF schedulerTick, Sched!Tick, Sched!NoTid, Tid
  <2> QED BY <1>3, <2>3 DEF Sched!SchedulerNext
<1>4. CASE \E tid \in Tid : schedulerExit(tid)
  <2>1. PICK tid \in Tid : schedulerExit(tid)
    BY <1>4
  <2>2. Sched!Exit(tid) /\ UNCHANGED <<order, absTime>>
    BY <2>1 DEF schedulerExit, Sched!Exit, Sched!NoTid, Entry, Tid
  <2> QED BY <2>2, <1>0 DEF Sched!SchedulerNext
<1>5. CASE UNCHANGED rrVars
  BY <1>5 DEF rrVars, Sched!schedVars
<1> QED BY <1>1, <1>2, <1>3, <1>4, <1>5 DEF Next

\* rrscheduler.c implements the scheduler interface: every behaviour of the
\* linked list is a behaviour of the FIFO queue.
THEOREM RRImplementsScheduler == Spec => ImplementsScheduler
<1>1. Init => Sched!SchedulerInit
  BY RRAssumption DEF Init, Sched!SchedulerInit, Sched!Tid, Sched!NoTid, Tid, Entry, Index
<1> QED
  BY <1>1, InitIInv, StepIInv, StepRefines, PTL
  DEF Spec, ImplementsScheduler, Sched!SchedulerSpec
=============================================================================
