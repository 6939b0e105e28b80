---------------------------- MODULE KernelProofs ----------------------------
(***************************************************************************)
(* The safety properties of module Kernel for every number of slots,       *)
(* stacks, queue nodes and characters and every slice length.              *)
(***************************************************************************)
EXTENDS Kernel, WellFoundedInduction, TLAPS

USE SchedulerAssumption, KernelAssumption

\* allocTid finds a free slot if there is one.
LEMMA LeastFreeFacts ==
  ASSUME NEW occ, NEW s \in Tid, ~occ[s]
  PROVE  LeastFree(occ) \in Tid /\ ~occ[LeastFree(occ)]
<1> DEFINE T == {t \in Tid : ~occ[t]}
           R == OpToRel(<, Nat)
<1>1. T # {} /\ T \subseteq Nat
  BY DEF Tid
<1>2. IsWellFoundedOn(R, Nat)
  BY NatLessThanWellFounded, Zenon
<1> HIDE DEF T, R
<1>3. PICK x \in T : \A y \in T : ~(<<y, x>> \in R)
  BY <1>1, <1>2, WFMin
<1>4. \A y \in T : ~(y < x)
  BY <1>1, <1>3 DEF R, OpToRel
<1>5. x \in Tid /\ ~occ[x]
  BY DEF T
<1>6. \A u \in 0 .. x - 1 : u \in Tid
  BY <1>5 DEF Tid
<1>7. \A u \in 0 .. x - 1 : occ[u]
  BY <1>4, <1>5, <1>6 DEF T, Tid
<1> QED BY <1>5, <1>7 DEF LeastFree

\* What Append, Head and Tail do to a queue of threads.
LEMMA AppendFacts ==
  ASSUME NEW q \in Seq(Tid), NEW t \in Tid
  PROVE  /\ Append(q, t) \in Seq(Tid)
         /\ Len(Append(q, t)) = Len(q) + 1 /\ Len(q) \in Nat
         /\ Append(q, t)[Len(q) + 1] = t
         /\ \A i \in 1 .. Len(q) : Append(q, t)[i] = q[i]
OBVIOUS

LEMMA TailFacts ==
  ASSUME NEW q \in Seq(Tid), q # <<>>
  PROVE  /\ Tail(q) \in Seq(Tid) /\ Head(q) \in Tid
         /\ Len(Tail(q)) = Len(q) - 1 /\ Len(q) \in Nat \ {0}
         /\ Head(q) = q[1]
         /\ \A i \in 1 .. Len(q) - 1 : Tail(q)[i] = q[i + 1]
OBVIOUS

\* No thread is in q twice.
Once(q) == \A i, j \in 1 .. Len(q) : q[i] = q[j] => i = j

\* A thread that is not in a queue can be appended, and the first one removed:
\* the queue still holds every thread once, and exactly the right ones.
LEMMA QueueAppend ==
  ASSUME NEW q \in Seq(Tid), Once(q), NEW t \in Tid, ~InQueue(q, t)
  PROVE  /\ Append(q, t) \in Seq(Tid) /\ Once(Append(q, t))
         /\ \A u : InQueue(Append(q, t), u) <=> InQueue(q, u) \/ u = t
<1> DEFINE r == Append(q, t)
<1>1. /\ r \in Seq(Tid) /\ Len(r) = Len(q) + 1 /\ Len(q) \in Nat /\ r[Len(q) + 1] = t
      /\ \A i \in 1 .. Len(q) : r[i] = q[i]
  BY AppendFacts
<1> HIDE DEF r
<1>2. Once(r)
  BY <1>1 DEF Once, InQueue
<1>3. ASSUME NEW u, InQueue(r, u) PROVE InQueue(q, u) \/ u = t
  BY <1>1, <1>3 DEF InQueue
<1>4. ASSUME NEW u, InQueue(q, u) PROVE InQueue(r, u)
  BY <1>1, <1>4 DEF InQueue
<1>5. InQueue(r, t)
  BY <1>1 DEF InQueue
<1> QED BY <1>1, <1>2, <1>3, <1>4, <1>5 DEF r

LEMMA QueueTail ==
  ASSUME NEW q \in Seq(Tid), Once(q), q # <<>>
  PROVE  /\ Tail(q) \in Seq(Tid) /\ Once(Tail(q)) /\ Head(q) \in Tid
         /\ \A u : InQueue(Tail(q), u) <=> InQueue(q, u) /\ u # Head(q)
         /\ InQueue(q, Head(q))
<1> DEFINE r == Tail(q)
<1>1. /\ r \in Seq(Tid) /\ Len(r) = Len(q) - 1 /\ Len(q) \in Nat \ {0}
      /\ Head(q) = q[1] /\ Head(q) \in Tid
      /\ \A i \in 1 .. Len(q) - 1 : r[i] = q[i + 1]
  BY TailFacts
<1> HIDE DEF r
<1>2. Once(r)
  <2> SUFFICES ASSUME NEW i \in 1 .. Len(r), NEW j \in 1 .. Len(r), r[i] = r[j] PROVE i = j
    BY DEF Once
  <2>1. i + 1 \in 1 .. Len(q) /\ j + 1 \in 1 .. Len(q) /\ q[i + 1] = q[j + 1]
    BY <1>1
  <2> QED BY <2>1 DEF Once
<1>3. ASSUME NEW u, InQueue(r, u) PROVE InQueue(q, u) /\ u # Head(q)
  <2>1. PICK i \in 1 .. Len(r) : r[i] = u
    BY <1>3 DEF InQueue
  <2>2. i + 1 \in 1 .. Len(q) /\ q[i + 1] = u /\ 1 \in 1 .. Len(q) /\ i + 1 # 1
    BY <1>1, <2>1
  <2> QED BY <1>1, <2>2 DEF InQueue, Once
<1>4. ASSUME NEW u, InQueue(q, u), u # Head(q) PROVE InQueue(r, u)
  <2>1. PICK i \in 1 .. Len(q) : q[i] = u
    BY <1>4 DEF InQueue
  <2>2. i # 1 /\ i - 1 \in 1 .. Len(r) /\ r[i - 1] = u
    BY <1>1, <1>4, <2>1
  <2> QED BY <2>2 DEF InQueue
<1>5. InQueue(q, Head(q))
  BY <1>1 DEF InQueue
<1> QED BY <1>1, <1>2, <1>3, <1>4, <1>5 DEF r
-----------------------------------------------------------------------------
(* Steps that leave the threads alone.                                     *)

LEMMA Still ==
  ASSUME IInv,
         UNCHANGED <<poolVars, cur, busy, waitQueue, buf, stacks, live, own, schedVars>>
  PROVE  /\ LiveOK' /\ SliceOK' /\ CtxOK'
         /\ ReadyIsQueued' /\ SleeperIsAwaited' /\ OneActive'
         /\ StacksAreOwned' /\ ThreadIsWhereItLeft'
<1>1. /\ LiveOK /\ SliceOK /\ CtxOK
      /\ ReadyIsQueued /\ SleeperIsAwaited /\ OneActive
      /\ StacksAreOwned /\ ThreadIsWhereItLeft
  BY DEF IInv
<1>2. /\ status' = status /\ occupied' = occupied /\ thread' = thread
      /\ cur' = cur /\ busy' = busy /\ waitQueue' = waitQueue /\ buf' = buf
      /\ stacks' = stacks /\ live' = live /\ own' = own
      /\ ready' = ready /\ time' = time /\ running' = running
  BY DEF poolVars, schedVars
<1>3. LiveOK' /\ SliceOK'
  BY <1>1, <1>2 DEF LiveOK, SliceOK, Queued
<1>4. CtxOK'
  BY <1>1, <1>2 DEF CtxOK, IsHost
<1>5. ReadyIsQueued'
  BY <1>1, <1>2 DEF ReadyIsQueued, Queued
<1>6. SleeperIsAwaited' /\ OneActive'
  BY <1>1, <1>2 DEF SleeperIsAwaited, OneActive, Active, IsHost, InQueue
<1>7. StacksAreOwned' /\ ThreadIsWhereItLeft'
  BY <1>1, <1>2 DEF StacksAreOwned, ExitedOnHart, ThreadIsWhereItLeft
<1> QED BY <1>3, <1>4, <1>5, <1>6, <1>7

\* What is known about the place of the hart and the thread on it survives if
\* the hart stays there, or goes to one nothing is said about.
LEMMA StillCur ==
  ASSUME IInv,
         UNCHANGED <<poolVars, cur, busy, waitQueue, buf, stacks, live, own, schedVars>>,
         \/ pc' = pc
         \/ pc' \notin {"switch", "user", "popChar", "retrieve"}
         \/ pc = "user" /\ pc' = "popChar"
  PROVE  CurOK' /\ WokenReaderFindsChar'
<1>1. CurOK /\ WokenReaderFindsChar
  BY DEF IInv
<1>2. /\ status' = status /\ occupied' = occupied /\ thread' = thread
      /\ cur' = cur /\ busy' = busy /\ buf' = buf
      /\ live' = live /\ own' = own /\ time' = time /\ running' = running
  BY DEF poolVars, schedVars
<1>3. CurOK'
  BY <1>1, <1>2 DEF CurOK, IsHost
<1>4. WokenReaderFindsChar'
  BY <1>1, <1>2 DEF WokenReaderFindsChar
<1> QED BY <1>3, <1>4

\* The devices.
LEMMA DeviceIInv ==
  ASSUME IInv, TimerFires \/ \E c \in Char : Type(c)
  PROVE  IInv'
<1>1. /\ UNCHANGED <<poolVars, cur, busy, waitQueue, buf, stacks, live, own, schedVars>>
      /\ UNCHANGED <<pc, sie, idleCtx, consumed>>
  BY DEF TimerFires, Type, cpuVars, inVars
<1>2. HartOK'
  BY <1>1 DEF IInv, HartOK, NoWildSwitch
<1>3. timer' \in {"armed", "pending"} /\ uart' \in Seq(Char) /\ typed' \in Seq(Char)
  <2>1. timer \in {"armed", "pending"} /\ uart \in Seq(Char) /\ typed \in Seq(Char)
    BY DEF IInv, TypeOK
  <2>2. CASE TimerFires
    BY <2>1, <2>2 DEF TimerFires
  <2>3. ASSUME NEW c \in Char, Type(c) PROVE uart' \in Seq(Char) /\ typed' \in Seq(Char) /\ timer' = timer
    BY <2>1, <2>3 DEF Type
  <2> QED BY <2>1, <2>2, <2>3
<1>4. TypeOK'
  BY <1>1, <1>3 DEF IInv, TypeOK, poolVars, schedVars
<1> QED BY <1>1, <1>2, <1>4, Still, StillCur DEF IInv

\* panic and shutdown.
LEMMA StopIInv ==
  ASSUME IInv, Stop
  PROVE  IInv'
<1>1. /\ UNCHANGED <<poolVars, cur, busy, waitQueue, buf, stacks, live, own, schedVars>>
      /\ UNCHANGED <<sie, idleCtx, timer, uart, typed, consumed>>
      /\ pc' = "halted"
  BY DEF Stop, cpuVars, inVars, devVars
<1>2. HartOK'
  BY <1>1 DEF IInv, HartOK, NoWildSwitch, ThreadPc
<1>3. TypeOK'
  BY <1>1 DEF IInv, TypeOK, poolVars, schedVars
<1> QED BY <1>1, <1>2, <1>3, Still, StillCur DEF IInv

\* The steps of the boot thread and of idle that do not touch a thread.
LEMMA QuietIInv ==
  ASSUME IInv, RunCPU \/ Disable \/ AcquireNothing \/ Enable \/ Wfi \/ SysRead
  PROVE  IInv'
<1>1. /\ UNCHANGED <<poolVars, cur, busy, waitQueue, buf, stacks, live, own, schedVars>>
      /\ UNCHANGED <<timer, uart, typed, consumed>>
  BY DEF RunCPU, Disable, AcquireNothing, Enable, Wfi, SysRead, cpuVars, inVars, devVars
<1>2. HartOK /\ TypeOK
  BY DEF IInv
<1>3. CASE RunCPU
  <2>1. pc' = "idleMain" /\ idleCtx' = NULL /\ sie' = sie
    BY <1>2, <1>3 DEF RunCPU, HartOK, ResumeAt
  <2>2. HartOK' /\ TypeOK'
    BY <1>1, <1>2, <1>3, <2>1 DEF RunCPU, HartOK, NoWildSwitch, ThreadPc, IdlePc, TypeOK, poolVars, schedVars, NULL
  <2> QED BY <1>1, <2>1, <2>2, Still, StillCur DEF IInv
<1>4. CASE Disable
  <2>1. pc' = "acquire" /\ idleCtx' = idleCtx /\ sie' = FALSE
    BY <1>4 DEF Disable, ClearSie, cpuVars
  <2>2. HartOK' /\ TypeOK'
    BY <1>1, <1>2, <1>4, <2>1 DEF Disable, HartOK, NoWildSwitch, ThreadPc, IdlePc, TypeOK, poolVars, schedVars
  <2> QED BY <1>1, <2>1, <2>2, Still, StillCur DEF IInv
<1>5. CASE AcquireNothing \/ Wfi
  <2>1. pc' \in {"enable", "stalled"} /\ idleCtx' = idleCtx /\ sie' = sie
    BY <1>5 DEF AcquireNothing, Wfi, cpuVars
  <2>2. HartOK' /\ TypeOK'
    BY <1>1, <1>2, <1>5, <2>1 DEF AcquireNothing, Wfi, HartOK, NoWildSwitch, ThreadPc, IdlePc, TypeOK, poolVars, schedVars
  <2> QED BY <1>1, <2>1, <2>2, Still, StillCur DEF IInv
<1>6. CASE Enable
  <2>1. pc' = "wfi" /\ idleCtx' = idleCtx /\ sie' = TRUE
    BY <1>6 DEF Enable, cpuVars
  <2>2. HartOK' /\ TypeOK'
    BY <1>1, <1>2, <1>6, <2>1 DEF Enable, HartOK, NoWildSwitch, ThreadPc, IdlePc, TypeOK, poolVars, schedVars
  <2> QED BY <1>1, <2>1, <2>2, Still, StillCur DEF IInv
<1>7. CASE SysRead
  <2>1. pc = "user" /\ pc' = "popChar" /\ idleCtx' = idleCtx /\ sie' = FALSE
    BY <1>7 DEF SysRead, InUser, cpuVars
  <2>2. HartOK' /\ TypeOK'
    BY <1>1, <1>2, <2>1 DEF HartOK, NoWildSwitch, ThreadPc, IdlePc, TypeOK, poolVars, schedVars
  <2> QED BY <1>1, <2>1, <2>2, Still, StillCur DEF IInv
<1> QED BY <1>3, <1>4, <1>5, <1>6, <1>7

\* The state in which main calls runCPU.
LEMMA InitIInv == Init => IInv
<1> SUFFICES ASSUME Init PROVE IInv
  OBVIOUS
<1> DEFINE occ(g) == [t \in Tid |-> t \in g]
           any(f) == [NewUserThread(1, f, NoTid) EXCEPT !.ctx = NULL]
<1>1. PICK g \in SUBSET Tid, f \in Files :
        LET sh == LeastFree(occ(g))
        IN  /\ g # Tid
            /\ pc = "boot" /\ sie = TRUE
            /\ timer = "armed" /\ uart = <<>>
            /\ status = [t \in Tid |-> "Ready"]
            /\ occupied = [occ(g) EXCEPT ![sh] = TRUE]
            /\ thread = [t \in Tid |-> IF t = sh THEN NewUserThread(1, f, NoTid) ELSE any(f)]
            /\ cur = [tid |-> 0, thread |-> any(f)]
            /\ busy = FALSE /\ idleCtx = "idle"
            /\ ready = <<sh>>
            /\ time = [t \in Tid |-> IF t = sh THEN MaxTime ELSE 0]
            /\ running = NoTid
            /\ buf = <<>> /\ waitQueue = <<>>
            /\ stacks = {IdleStack, 1}
            /\ typed = <<>> /\ consumed = <<>>
            /\ live = {sh}
            /\ own = [t \in Tid |-> thread[t]]
  BY DEF Init
<1> DEFINE sh == LeastFree(occ(g))
           new == NewUserThread(1, f, NoTid)
<1>2. sh \in Tid
  <2>1. PICK s \in Tid : s \notin g
    BY <1>1
  <2> QED BY <2>1, LeastFreeFacts
<1>3. /\ pc = "boot" /\ sie = TRUE
      /\ timer = "armed" /\ uart = <<>>
      /\ status = [t \in Tid |-> "Ready"]
      /\ occupied = [occ(g) EXCEPT ![sh] = TRUE]
      /\ thread = [t \in Tid |-> IF t = sh THEN new ELSE any(f)]
      /\ cur = [tid |-> 0, thread |-> any(f)]
      /\ busy = FALSE /\ idleCtx = "idle"
      /\ ready = <<sh>>
      /\ time = [t \in Tid |-> IF t = sh THEN MaxTime ELSE 0]
      /\ running = NoTid
      /\ buf = <<>> /\ waitQueue = <<>>
      /\ stacks = {IdleStack, 1}
      /\ typed = <<>> /\ consumed = <<>>
      /\ live = {sh}
      /\ own = [t \in Tid |-> thread[t]]
  BY <1>1
<1> HIDE DEF sh
<1>4. new \in Thread /\ any(f) \in Thread /\ new.kstack = 1 /\ new.wait = NoTid /\ new.ctx = "new"
  BY DEF NewUserThread, Thread, ThreadCtx, Stack, NULL
<1> HIDE DEF new, any
<1>5. 0 \in Tid
  BY DEF Tid
<1>6. occupied \in [Tid -> BOOLEAN] /\ occupied[sh]
  <2>1. occ(g) \in [Tid -> BOOLEAN]
    <3>1. \A t \in Tid : (t \in g) \in BOOLEAN
      OBVIOUS
    <3> QED BY <3>1
  <2> HIDE DEF occ
  <2> QED BY <1>2, <1>3, <2>1
<1>7. thread \in [Tid -> Thread] /\ thread[sh] = new /\ own = thread
  BY <1>2, <1>3, <1>4
<1>8. time \in [Tid -> 0 .. MaxTime] /\ time[sh] > 0
  <2>1. MaxTime \in 0 .. MaxTime /\ 0 \in 0 .. MaxTime /\ MaxTime > 0
    OBVIOUS
  <2> QED BY <1>2, <1>3, <2>1
<1>9. ready \in Seq(Tid) /\ \A t \in Tid : Queued(t) <=> t = sh
  BY <1>2, <1>3 DEF Queued
<1>10. TypeOK
  <2>1. cur \in [tid : Tid, thread : Thread]
    BY <1>3, <1>4, <1>5
  <2>2. pc \in IdlePc \cup ThreadPc \cup {"boot", "halted", "wild"} /\ idleCtx \in {NULL, "idle", "switched"}
    BY <1>3
  <2>3. status \in [Tid -> Status]
    BY <1>3 DEF Status
  <2>4. stacks \subseteq Stack /\ live \subseteq Tid /\ running \in Tid \cup {NoTid}
    BY <1>2, <1>3 DEF Stack, IdleStack
  <2>5. uart \in Seq(Char) /\ typed \in Seq(Char) /\ buf \in Seq(Char) /\ consumed \in Seq(Char)
        /\ waitQueue \in Seq(Tid)
    BY <1>3
  <2> QED BY <1>3, <1>6, <1>7, <1>8, <1>9, <2>1, <2>2, <2>3, <2>4, <2>5 DEF TypeOK
<1>11. HartOK
  BY <1>3 DEF HartOK, NoWildSwitch, ThreadPc
<1>12. CurOK
  BY <1>3 DEF CurOK
<1>13. LiveOK /\ SliceOK
  BY <1>2, <1>3, <1>6, <1>8, <1>9 DEF LiveOK, SliceOK
<1>14. CtxOK
  BY <1>2, <1>3, <1>4, <1>7 DEF CtxOK, Resumable
<1>15. ReadyIsQueued
  BY <1>2, <1>3, <1>9 DEF ReadyIsQueued
<1>16. SleeperIsAwaited /\ OneActive
  <2>1. \A t \in Tid : ~InQueue(waitQueue, t) /\ ~IsHost(t)
    <3>1. \A t \in Tid : t # NoTid
      BY DEF Tid, NoTid
    <3>2. thread[sh].wait = NoTid
      BY <1>4, <1>7
    <3>3. \A t \in Tid : ~IsHost(t)
      BY <1>3, <3>1, <3>2 DEF IsHost
    <3>4. \A t \in Tid : ~InQueue(waitQueue, t)
      BY <1>3 DEF InQueue
    <3> QED BY <3>3, <3>4
  <2> QED BY <1>2, <1>3, <2>1 DEF SleeperIsAwaited, OneActive
<1>17. WokenReaderFindsChar
  BY <1>2, <1>3, <1>4, <1>7 DEF WokenReaderFindsChar
<1>18. StacksAreOwned
  BY <1>2, <1>3, <1>4, <1>7 DEF StacksAreOwned, ExitedOnHart, IdleStack
<1>19. ThreadIsWhereItLeft
  BY <1>3, <1>7 DEF ThreadIsWhereItLeft
<1> QED
  BY <1>10, <1>11, <1>12, <1>13, <1>14, <1>15, <1>16, <1>17, <1>18, <1>19 DEF IInv
-----------------------------------------------------------------------------
(* Steps of the thread on the hart.                                        *)

\* Much of the invariant does not care what the thread on the hart is doing.
LEMMA SameThreads ==
  ASSUME IInv,
         UNCHANGED <<status, occupied, thread, busy, waitQueue, stacks, live, ready>>,
         cur'.tid = cur.tid, cur'.thread.kstack = cur.thread.kstack
  PROVE  /\ LiveOK' /\ CtxOK' /\ ReadyIsQueued' /\ SleeperIsAwaited' /\ OneActive'
         /\ StacksAreOwned'
<1>1. LiveOK /\ CtxOK /\ ReadyIsQueued /\ SleeperIsAwaited /\ OneActive /\ StacksAreOwned
  BY DEF IInv
<1>2. LiveOK'
  BY <1>1 DEF LiveOK
<1>3. CtxOK'
  BY <1>1 DEF CtxOK, IsHost
<1>4. ReadyIsQueued'
  BY <1>1 DEF ReadyIsQueued, Queued
<1>5. SleeperIsAwaited' /\ OneActive'
  BY <1>1 DEF SleeperIsAwaited, OneActive, Active, IsHost, InQueue
<1>6. StacksAreOwned'
  BY <1>1 DEF StacksAreOwned, ExitedOnHart
<1> QED BY <1>2, <1>3, <1>4, <1>5, <1>6

\* The thread on the hart is the only one that is ready or running, and it is
\* neither queued nor waiting nor a host.
LEMMA OnHartFacts ==
  ASSUME IInv, pc \in {"switch", "user", "popChar"}
  PROVE  /\ busy /\ cur.tid \in Tid /\ cur.tid \in live /\ status[cur.tid] = "Running"
         /\ running = cur.tid /\ time[cur.tid] \in 1 .. MaxTime
         /\ ~Queued(cur.tid) /\ ~InQueue(waitQueue, cur.tid) /\ ~IsHost(cur.tid)
         /\ \A t \in live : t # cur.tid => status[t] = "Sleeping" /\ ~InQueue(waitQueue, t)
<1>1. /\ busy /\ cur.tid \in live /\ status[cur.tid] = "Running"
      /\ running = cur.tid /\ time[cur.tid] > 0
  BY DEF IInv, HartOK, CurOK
<1>2. cur.tid \in Tid /\ time[cur.tid] \in 0 .. MaxTime /\ live \subseteq Tid
  BY DEF IInv, TypeOK
<1>3. ~Queued(cur.tid)
  BY <1>1, <1>2 DEF IInv, ReadyIsQueued
<1>4. ~InQueue(waitQueue, cur.tid) /\ ~IsHost(cur.tid)
  BY <1>1, <1>2 DEF IInv, SleeperIsAwaited
<1>5. \A t \in live : t # cur.tid => status[t] = "Sleeping" /\ ~InQueue(waitQueue, t)
  BY <1>1 DEF IInv, OneActive, Active
<1> QED BY <1>1, <1>2, <1>3, <1>4, <1>5

\* CPU.current with another context keeps everything else.
LEMMA CurWithCtx ==
  ASSUME TypeOK, NEW c \in ThreadCtx
  PROVE  LET new == [cur EXCEPT !.thread.ctx = c]
         IN  /\ new \in [tid : Tid, thread : Thread]
             /\ new.tid = cur.tid /\ new.thread.ctx = c
             /\ new.thread.kstack = cur.thread.kstack
             /\ new.thread.wait = cur.thread.wait
             /\ new.thread.files = cur.thread.files
<1>1. cur \in [tid : Tid, thread : Thread]
  BY DEF TypeOK
<1> QED BY <1>1 DEF Thread

\* The history of the current thread with another context.
LEMMA OwnWithCtx ==
  ASSUME TypeOK, NEW c \in ThreadCtx
  PROVE  LET new == [own EXCEPT ![cur.tid].ctx = c]
         IN  /\ new \in [Tid -> Thread]
             /\ new[cur.tid].ctx = c
             /\ new[cur.tid].kstack = own[cur.tid].kstack
             /\ new[cur.tid].wait = own[cur.tid].wait
             /\ new[cur.tid].files = own[cur.tid].files
             /\ \A t \in Tid : t # cur.tid => new[t] = own[t]
<1>1. own \in [Tid -> Thread] /\ cur.tid \in Tid
  BY DEF TypeOK
<1> QED BY <1>1 DEF Thread

LEMMA SwitchIInv ==
  ASSUME IInv, SwitchToThread
  PROVE  IInv'
<1>1. /\ pc = "switch" /\ TypeOK /\ HartOK /\ CurOK
      /\ cur.thread.ctx \in Resumable
  BY DEF IInv, SwitchToThread, CurOK
<1>2. /\ UNCHANGED <<status, occupied, thread, busy, waitQueue, stacks, live, ready>>
      /\ UNCHANGED <<time, running, own, buf, timer, uart, typed, consumed>>
      /\ idleCtx' = "switched"
      /\ cur' = [cur EXCEPT !.thread.ctx = NULL]
      /\ pc' = ResumeAt(cur.thread.ctx) /\ sie' = (pc' = "user")
  BY DEF SwitchToThread, devVars, poolVars, inVars, schedVars
<1>3. pc' \in ThreadPc /\ (pc' = "popChar" <=> cur.thread.ctx = "popChar")
  BY <1>1, <1>2 DEF ResumeAt, Resumable, ThreadPc, NULL
<1>4. /\ cur' \in [tid : Tid, thread : Thread]
      /\ cur'.tid = cur.tid /\ cur'.thread.ctx = NULL
      /\ cur'.thread.kstack = cur.thread.kstack
      /\ cur'.thread.wait = cur.thread.wait
      /\ cur'.thread.files = cur.thread.files
  BY <1>1, <1>2, CurWithCtx DEF ThreadCtx
<1>5. sie' \in BOOLEAN /\ (sie' => pc' = "user")
  BY <1>2
<1>6. TypeOK'
  BY <1>1, <1>2, <1>3, <1>4, <1>5 DEF TypeOK
<1>7. HartOK'
  BY <1>1, <1>2, <1>3, <1>5 DEF HartOK, NoWildSwitch, ThreadPc
<1>8. CurOK'
  BY <1>1, <1>2, <1>3, <1>4 DEF CurOK, ThreadPc, IsHost
<1>9. SliceOK'
  BY <1>2 DEF IInv, SliceOK, Queued
<1>10. WokenReaderFindsChar'
  BY <1>2, <1>3 DEF IInv, WokenReaderFindsChar, ThreadPc
<1>11. ThreadIsWhereItLeft'
  BY <1>2, <1>4 DEF IInv, ThreadIsWhereItLeft
<1> QED
  BY <1>2, <1>4, <1>6, <1>7, <1>8, <1>9, <1>10, <1>11, SameThreads DEF IInv

LEMMA PopCharIInv ==
  ASSUME IInv, PopChar
  PROVE  IInv'
<1>1. pc = "popChar" /\ TypeOK /\ HartOK /\ CurOK /\ buf # <<>>
  BY DEF IInv, PopChar
<1>2. /\ UNCHANGED <<status, occupied, thread, cur, busy, waitQueue, stacks, live, ready>>
      /\ UNCHANGED <<time, running, own, timer, uart, typed, idleCtx>>
      /\ pc' = "user" /\ sie' = TRUE
      /\ buf' = Tail(buf) /\ consumed' = Append(consumed, Head(buf))
  BY DEF PopChar, devVars, poolVars, cpuVars, schedVars
<1>3. buf' \in Seq(Char) /\ consumed' \in Seq(Char)
  <2>1. buf \in Seq(Char) /\ consumed \in Seq(Char)
    BY <1>1 DEF TypeOK
  <2>2. Tail(buf) \in Seq(Char) /\ Head(buf) \in Char
    BY <1>1, <2>1
  <2> QED BY <1>2, <2>1, <2>2
<1>4. TypeOK'
  BY <1>1, <1>2, <1>3 DEF TypeOK, ThreadPc
<1>5. HartOK'
  BY <1>1, <1>2 DEF HartOK, NoWildSwitch, ThreadPc
<1>6. CurOK'
  BY <1>1, <1>2 DEF CurOK, IsHost
<1>7. SliceOK'
  BY <1>2 DEF IInv, SliceOK, Queued
<1>8. WokenReaderFindsChar'
  BY <1>1, <1>2, OnHartFacts DEF WokenReaderFindsChar
<1>9. ThreadIsWhereItLeft'
  BY <1>2 DEF IInv, ThreadIsWhereItLeft
<1> QED
  BY <1>2, <1>4, <1>5, <1>6, <1>7, <1>8, <1>9, SameThreads DEF IInv

LEMMA FileIInv ==
  ASSUME IInv, SysFile
  PROVE  IInv'
<1>1. pc = "user" /\ TypeOK /\ HartOK /\ CurOK
  BY DEF IInv, SysFile, InUser
<1>2. PICK f \in Files : /\ cur' = [cur EXCEPT !.thread.files = f]
                         /\ own' = [own EXCEPT ![cur.tid].files = f]
  BY DEF SysFile
<1>3. /\ UNCHANGED <<status, occupied, thread, busy, waitQueue, stacks, live, ready>>
      /\ UNCHANGED <<time, running, timer, uart, typed, idleCtx, pc, sie, buf, consumed>>
  BY DEF SysFile, devVars, poolVars, inVars, schedVars
<1>4. /\ cur' \in [tid : Tid, thread : Thread]
      /\ cur'.tid = cur.tid /\ cur'.thread.ctx = cur.thread.ctx
      /\ cur'.thread.kstack = cur.thread.kstack
      /\ cur'.thread.wait = cur.thread.wait
      /\ cur'.thread.files = f
  <2>1. cur \in [tid : Tid, thread : Thread]
    BY <1>1 DEF TypeOK
  <2> QED BY <1>2, <2>1 DEF Thread
<1>5. /\ own' \in [Tid -> Thread]
      /\ own'[cur.tid].ctx = own[cur.tid].ctx
      /\ own'[cur.tid].kstack = own[cur.tid].kstack
      /\ own'[cur.tid].wait = own[cur.tid].wait
      /\ own'[cur.tid].files = f
      /\ \A t \in Tid : t # cur.tid => own'[t] = own[t]
  <2>1. own \in [Tid -> Thread] /\ cur.tid \in Tid
    BY <1>1 DEF TypeOK
  <2> QED BY <1>2, <2>1 DEF Thread
<1>6. TypeOK'
  BY <1>1, <1>3, <1>4, <1>5 DEF TypeOK
<1>7. HartOK'
  BY <1>1, <1>3 DEF HartOK, NoWildSwitch
<1>8. CurOK'
  BY <1>1, <1>3, <1>4, <1>5 DEF CurOK
<1>9. SliceOK'
  BY <1>3 DEF IInv, SliceOK, Queued
<1>10. WokenReaderFindsChar'
  BY <1>1, <1>3 DEF IInv, WokenReaderFindsChar
<1>11. ThreadIsWhereItLeft'
  BY <1>1, <1>3, <1>4, <1>5, OnHartFacts DEF IInv, ThreadIsWhereItLeft, TypeOK
<1> QED
  BY <1>3, <1>4, <1>6, <1>7, <1>8, <1>9, <1>10, <1>11, SameThreads DEF IInv

\* An interrupt that finds a thread on the hart finds it in user mode.
LEMMA TrapFacts ==
  ASSUME IInv, TrapReady
  PROVE  /\ busy => pc = "user"
         /\ ~busy => pc \in {"boot", "idleMain", "wfi", "stalled", "disable"}
<1>1. pc \in IdlePc \cup ThreadPc \cup {"boot", "halted", "wild"} /\ HartOK
  BY DEF IInv, TypeOK
<1>2. (pc = "user" \/ sie) /\ pc # "halted"
  BY DEF TrapReady
<1> QED BY <1>1, <1>2 DEF HartOK, NoWildSwitch, IdlePc, ThreadPc

\* Back to idle from the thread on the hart.
LEMMA ToIdleFacts ==
  ASSUME IInv, pc \in ThreadPc, NEW c \in ThreadCtx, SwitchToIdle(c), Leave(c),
         busy' = busy
  PROVE  /\ pc' = "retrieve" /\ sie' = FALSE /\ idleCtx' = NULL /\ HartOK'
         /\ cur' \in [tid : Tid, thread : Thread] /\ own' \in [Tid -> Thread]
         /\ cur'.tid = cur.tid /\ cur'.thread.ctx = c
         /\ cur'.thread.kstack = cur.thread.kstack
         /\ cur'.thread.wait = cur.thread.wait
         /\ cur'.thread.files = cur.thread.files
         /\ own'[cur.tid].ctx = c
         /\ own'[cur.tid].kstack = own[cur.tid].kstack
         /\ own'[cur.tid].wait = own[cur.tid].wait
         /\ own'[cur.tid].files = own[cur.tid].files
         /\ \A t \in Tid : t # cur.tid => own'[t] = own[t]
<1>1. TypeOK /\ HartOK /\ idleCtx = "switched" /\ busy
  BY DEF IInv, HartOK, ThreadPc
<1>2. pc' = "retrieve" /\ sie' = FALSE /\ idleCtx' = NULL
  BY <1>1 DEF SwitchToIdle, ResumeAt, NULL
<1>3. HartOK'
  BY <1>1, <1>2 DEF HartOK, NoWildSwitch, ThreadPc
<1>4. cur' = [cur EXCEPT !.thread.ctx = c] /\ own' = [own EXCEPT ![cur.tid].ctx = c]
  BY DEF SwitchToIdle, Leave
<1> QED BY <1>1, <1>2, <1>3, <1>4, CurWithCtx, OwnWithCtx

LEMMA TimerIInv ==
  ASSUME IInv, TimerInterrupt
  PROVE  IInv'
<1>1. /\ TypeOK /\ HartOK /\ CurOK /\ TrapReady
      /\ timer' = "armed"
      /\ UNCHANGED <<status, occupied, thread, busy, waitQueue, stacks, live, ready>>
      /\ UNCHANGED <<running, uart, typed, buf, consumed>>
  BY DEF IInv, TimerInterrupt, SetTimeout, poolVars, inVars
<1>2. CASE ~busy
  <2>1. UNCHANGED <<sie, cur, idleCtx, own, time>> /\ pc' = TrapReturn
    BY <1>2 DEF TimerInterrupt
  <2>2. pc' = pc \/ pc' = "disable"
    BY <2>1 DEF TrapReturn
  <2>3. pc' \in {"boot", "idleMain", "wfi", "stalled", "disable"} /\ (pc' = "boot" => pc = "boot")
    BY <1>1, <1>2, <2>2, TrapFacts
  <2>4. HartOK'
    BY <1>1, <1>2, <2>1, <2>3 DEF HartOK, NoWildSwitch, ThreadPc
  <2>5. TypeOK'
    BY <1>1, <2>1, <2>3 DEF TypeOK, IdlePc
  <2> QED
    BY <1>1, <2>1, <2>3, <2>4, <2>5, Still, StillCur DEF IInv, poolVars, schedVars
<1>3. CASE busy
  <2>1. pc = "user"
    BY <1>1, <1>3, TrapFacts
  <2>2. /\ cur.tid \in Tid /\ cur.tid \in live /\ status[cur.tid] = "Running"
        /\ running = cur.tid /\ time[cur.tid] \in 1 .. MaxTime /\ ~Queued(cur.tid)
    BY <2>1, OnHartFacts
  <2>3. running # NoTid /\ time \in [Tid -> 0 .. MaxTime]
    BY <1>1, <2>2 DEF Tid, NoTid, TypeOK
  <2>4. time' = [time EXCEPT ![cur.tid] = time[cur.tid] - 1]
    BY <1>3, <2>2, <2>3 DEF TimerInterrupt, Tick
  <2>5. time[cur.tid] - 1 \in 0 .. MaxTime
    BY <2>2
  <2>6. /\ time' \in [Tid -> 0 .. MaxTime] /\ time'[cur.tid] = time[cur.tid] - 1
        /\ \A t \in Tid : t # cur.tid => time'[t] = time[t]
    BY <2>2, <2>3, <2>4, <2>5
  <2>7. SliceOK'
    <3> SUFFICES ASSUME NEW t \in Tid, Queued(t)' PROVE time'[t] > 0
      BY DEF SliceOK
    <3>1. Queued(t)
      BY <1>1 DEF Queued
    <3> QED BY <3>1, <2>2, <2>6 DEF IInv, SliceOK
  <2>8. CASE TickExpires /\ SwitchToIdle("tick") /\ Leave("tick")
    <3>1. /\ pc' = "retrieve" /\ sie' = FALSE /\ idleCtx' = NULL /\ HartOK'
          /\ cur' \in [tid : Tid, thread : Thread] /\ own' \in [Tid -> Thread]
          /\ cur'.tid = cur.tid /\ cur'.thread.ctx = "tick"
          /\ cur'.thread.kstack = cur.thread.kstack
          /\ cur'.thread.wait = cur.thread.wait
          /\ cur'.thread.files = cur.thread.files
          /\ own'[cur.tid].ctx = "tick"
          /\ own'[cur.tid].kstack = own[cur.tid].kstack
          /\ own'[cur.tid].wait = own[cur.tid].wait
          /\ own'[cur.tid].files = own[cur.tid].files
          /\ \A t \in Tid : t # cur.tid => own'[t] = own[t]
      BY <1>1, <2>1, <2>8, ToIdleFacts DEF ThreadPc, ThreadCtx
    <3>2. TypeOK'
      BY <1>1, <2>6, <3>1 DEF TypeOK, IdlePc
    <3>3. CurOK'
      BY <1>1, <1>3, <2>2, <3>1 DEF CurOK, Resumable
    <3>4. WokenReaderFindsChar'
      BY <1>1, <3>1 DEF IInv, WokenReaderFindsChar
    <3>5. ThreadIsWhereItLeft'
      BY <1>1, <1>3, <2>2, <3>1 DEF IInv, ThreadIsWhereItLeft, TypeOK
    <3> QED BY <1>1, <2>7, <3>1, <3>2, <3>3, <3>4, <3>5, SameThreads DEF IInv
  <2>9. CASE ~TickExpires /\ pc' = TrapReturn /\ UNCHANGED <<sie, cur, idleCtx, own>>
    <3>1. pc' = "user" /\ time'[cur.tid] > 0
      BY <2>1, <2>2, <2>3, <2>6, <2>9 DEF TrapReturn, TickExpires
    <3>2. TypeOK' /\ HartOK'
      BY <1>1, <2>1, <2>6, <2>9, <3>1 DEF TypeOK, HartOK, NoWildSwitch
    <3>3. CurOK'
      BY <1>1, <1>3, <2>1, <2>2, <2>9, <3>1 DEF CurOK
    <3>4. WokenReaderFindsChar' /\ ThreadIsWhereItLeft'
      BY <1>1, <2>9, <3>1 DEF IInv, WokenReaderFindsChar, ThreadIsWhereItLeft
    <3> QED BY <1>1, <2>7, <2>9, <3>2, <3>3, <3>4, SameThreads DEF IInv
  <2> QED BY <1>3, <2>8, <2>9 DEF TimerInterrupt
<1> QED BY <1>2, <1>3, <1>1 DEF TypeOK

\* The thread on the hart waits for a character.
LEMMA WaitIInv ==
  ASSUME IInv, WaitChar
  PROVE  IInv'
<1>1. CASE NoRoom(1) /\ Stop
  BY <1>1, StopIInv
<1>2. CASE ~(NoRoom(1) /\ Stop)
  <2>1. /\ pc = "popChar" /\ TypeOK /\ CurOK
        /\ waitQueue' = Append(waitQueue, cur.tid)
        /\ YieldCPU(status, "popChar") /\ Leave("popChar")
        /\ UNCHANGED <<devVars, occupied, thread, busy, buf, consumed, stacks, live, schedVars>>
    BY <1>2 DEF IInv, WaitChar
  <2>2. /\ status' = [status EXCEPT ![cur.tid] = "Sleeping"] /\ SwitchToIdle("popChar")
        /\ UNCHANGED <<timer, uart, typed, ready, time, running>> /\ busy
        /\ UNCHANGED <<occupied, thread, busy, buf, consumed, stacks, live>>
    BY <2>1 DEF YieldCPU, devVars, schedVars
  <2>3. /\ cur.tid \in Tid /\ cur.tid \in live /\ status[cur.tid] = "Running"
        /\ ~Queued(cur.tid) /\ ~InQueue(waitQueue, cur.tid) /\ ~IsHost(cur.tid)
        /\ \A t \in live : t # cur.tid => status[t] = "Sleeping" /\ ~InQueue(waitQueue, t)
    BY <2>1, OnHartFacts
  <2>4. /\ pc' = "retrieve" /\ sie' = FALSE /\ idleCtx' = NULL /\ HartOK'
        /\ cur' \in [tid : Tid, thread : Thread] /\ own' \in [Tid -> Thread]
        /\ cur'.tid = cur.tid /\ cur'.thread.ctx = "popChar"
        /\ cur'.thread.kstack = cur.thread.kstack
        /\ cur'.thread.wait = cur.thread.wait
        /\ cur'.thread.files = cur.thread.files
        /\ own'[cur.tid].ctx = "popChar"
        /\ own'[cur.tid].kstack = own[cur.tid].kstack
        /\ own'[cur.tid].wait = own[cur.tid].wait
        /\ own'[cur.tid].files = own[cur.tid].files
        /\ \A t \in Tid : t # cur.tid => own'[t] = own[t]
    BY <2>1, <2>2, ToIdleFacts DEF ThreadPc, ThreadCtx
  <2>5. /\ status' \in [Tid -> Status] /\ status'[cur.tid] = "Sleeping"
        /\ \A t \in Tid : t # cur.tid => status'[t] = status[t]
    BY <2>1, <2>2, <2>3 DEF TypeOK, Status
  <2>6. /\ waitQueue' \in Seq(Tid) /\ Once(waitQueue')
        /\ \A u : InQueue(waitQueue', u) <=> InQueue(waitQueue, u) \/ u = cur.tid
    <3>1. waitQueue \in Seq(Tid) /\ Once(waitQueue)
      BY <2>1 DEF IInv, TypeOK, SleeperIsAwaited, Once
    <3> QED BY <2>1, <2>3, <3>1, QueueAppend
  <2>7. live \subseteq Tid /\ \A t : IsHost(t)' <=> IsHost(t)
    BY <2>1, <2>2 DEF TypeOK, IsHost
  <2>8. TypeOK'
    BY <2>1, <2>2, <2>4, <2>5, <2>6 DEF TypeOK, IdlePc
  <2>9. CurOK'
    BY <2>1, <2>2, <2>3, <2>4, <2>5, <2>7 DEF CurOK, Resumable
  <2>10. LiveOK' /\ SliceOK'
    BY <2>2, <2>4, <2>5, <2>7 DEF IInv, LiveOK, SliceOK, Queued
  <2>11. CtxOK'
    BY <2>2, <2>4, <2>7 DEF IInv, CtxOK
  <2>12. ReadyIsQueued'
    <3>1. \A t \in Tid : Queued(t)' <=> Queued(t)
      BY <2>2 DEF Queued
    <3> QED BY <2>2, <2>3, <2>5, <3>1 DEF IInv, ReadyIsQueued
  <2>13. SleeperIsAwaited'
    <3>1. SleeperIsAwaited
      BY DEF IInv
    <3>2. \A t \in Tid : InQueue(waitQueue, t)' \/ IsHost(t)' => t \in live' /\ status'[t] = "Sleeping"
      BY <2>2, <2>3, <2>5, <2>6, <2>7, <3>1 DEF SleeperIsAwaited
    <3>3. \A t \in live : status'[t] = "Sleeping" => (InQueue(waitQueue, t)' # IsHost(t)')
      <4> SUFFICES ASSUME NEW t \in live, status'[t] = "Sleeping"
                   PROVE  InQueue(waitQueue', t) <=> ~IsHost(t)'
        BY DEF InQueue, IsHost
      <4>1. CASE t = cur.tid
        BY <4>1, <2>3, <2>6, <2>7
      <4>2. CASE t # cur.tid
        <5>1. status[t] = "Sleeping" /\ InQueue(waitQueue, t) # IsHost(t)
          BY <4>2, <2>5, <2>7, <3>1 DEF SleeperIsAwaited
        <5> QED BY <4>2, <5>1, <2>6, <2>7 DEF InQueue, IsHost
      <4> QED BY <4>1, <4>2
    <3> QED BY <2>2, <2>6, <3>1, <3>2, <3>3 DEF SleeperIsAwaited, Once
  <2>14. OneActive'
    BY <2>2, <2>3, <2>5, <2>6, <2>7 DEF OneActive, Active
  <2>15. WokenReaderFindsChar'
    BY <2>2, <2>3, <2>4, <2>5, <2>7 DEF WokenReaderFindsChar
  <2>16. StacksAreOwned'
    BY <2>2, <2>3, <2>4 DEF IInv, StacksAreOwned, ExitedOnHart
  <2>17. ThreadIsWhereItLeft'
    BY <2>2, <2>3, <2>4, <2>7 DEF IInv, ThreadIsWhereItLeft
  <2> QED
    BY <2>4, <2>8, <2>9, <2>10, <2>11, <2>12, <2>13, <2>14, <2>15, <2>16, <2>17 DEF IInv
<1> QED BY <1>1, <1>2
-----------------------------------------------------------------------------
(* Threads enter and leave the hart.                                       *)

LEMMA AcquireIInv ==
  ASSUME IInv, AcquireFromPool
  PROVE  IInv'
<1> DEFINE h == Head(ready)
<1>1. pc = "acquire" /\ ready # <<>> /\ TypeOK /\ HartOK /\ ~busy /\ ~sie
  BY DEF IInv, AcquireFromPool, HartOK
<1>2. /\ ready' = Tail(ready) /\ running' = h
      /\ status' = [status EXCEPT ![h] = "Running"]
      /\ cur' = [tid |-> h, thread |-> thread[h]]
      /\ busy' = TRUE /\ pc' = "switch"
      /\ UNCHANGED <<sie, timer, uart, typed, occupied, thread, idleCtx, buf, waitQueue,
                     consumed, stacks, live, own, time>>
  BY DEF AcquireFromPool, Pop, devVars, inVars
<1>3. /\ ready' \in Seq(Tid) /\ Once(ready') /\ h \in Tid
      /\ \A u : InQueue(ready', u) <=> InQueue(ready, u) /\ u # h
      /\ InQueue(ready, h)
  <2>1. ready \in Seq(Tid) /\ Once(ready) /\ ready # <<>>
    BY <1>1 DEF IInv, TypeOK, ReadyIsQueued, Once
  <2> QED BY <1>2, <2>1, QueueTail
<1> HIDE DEF h
<1>4. /\ \A t : Queued(t) <=> InQueue(ready, t)
      /\ \A t : Queued(t)' <=> InQueue(ready', t)
  BY DEF Queued, InQueue
<1>5. h \in live /\ status[h] = "Ready" /\ time[h] > 0 /\ occupied[h]
  BY <1>3, <1>4 DEF IInv, ReadyIsQueued, SliceOK, LiveOK
<1>6. thread[h].ctx \in Resumable /\ thread[h] = own[h] /\ thread[h] \in Thread
  BY <1>1, <1>3, <1>5 DEF IInv, CtxOK, ThreadIsWhereItLeft, TypeOK
<1>7. cur' \in [tid : Tid, thread : Thread] /\ cur'.tid = h /\ cur'.thread = thread[h]
  BY <1>2, <1>3, <1>6
<1>8. /\ status' \in [Tid -> Status] /\ status'[h] = "Running"
      /\ \A t \in Tid : t # h => status'[t] = status[t]
  BY <1>1, <1>2, <1>3 DEF TypeOK, Status
<1>9. live \subseteq Tid /\ \A t : (IsHost(t)' <=> IsHost(t)) /\ (InQueue(waitQueue, t)' <=> InQueue(waitQueue, t))
  BY <1>1, <1>2 DEF TypeOK, IsHost, InQueue
<1>10. TypeOK'
  BY <1>1, <1>2, <1>3, <1>7, <1>8 DEF TypeOK, IdlePc
<1>11. HartOK'
  BY <1>1, <1>2 DEF HartOK, NoWildSwitch, ThreadPc
<1>12. CurOK'
  BY <1>2, <1>5, <1>6, <1>7, <1>8 DEF CurOK
<1>13. LiveOK' /\ SliceOK'
  BY <1>1, <1>2, <1>3, <1>4, <1>7, <1>8, <1>9 DEF IInv, LiveOK, SliceOK
<1>14. CtxOK'
  BY <1>1, <1>2, <1>9 DEF IInv, CtxOK
<1>15. ReadyIsQueued'
  BY <1>2, <1>3, <1>4, <1>5, <1>8 DEF IInv, ReadyIsQueued, Once
<1>16. SleeperIsAwaited'
  <2>1. SleeperIsAwaited
    BY DEF IInv
  <2>2. \A t \in live : status'[t] = "Sleeping" <=> status[t] = "Sleeping"
    BY <1>5, <1>8, <1>9
  <2>3. \A t \in Tid : InQueue(waitQueue, t)' \/ IsHost(t)' => t \in live' /\ status'[t] = "Sleeping"
    BY <1>2, <1>9, <2>1, <2>2 DEF SleeperIsAwaited
  <2>4. \A t \in live : status'[t] = "Sleeping" => (InQueue(waitQueue, t) # IsHost(t))
    BY <2>1, <2>2 DEF SleeperIsAwaited
  <2> QED BY <1>2, <2>1, <2>3, <2>4 DEF SleeperIsAwaited, InQueue, IsHost
<1>17. OneActive'
  BY <1>2, <1>5, <1>8, <1>9 DEF IInv, OneActive, Active
<1>18. WokenReaderFindsChar'
  BY <1>2, <1>5, <1>7, <1>8, <1>9 DEF IInv, WokenReaderFindsChar
<1>19. StacksAreOwned'
  BY <1>1, <1>2, <1>5, <1>7 DEF IInv, StacksAreOwned, ExitedOnHart
<1>20. ThreadIsWhereItLeft'
  BY <1>1, <1>2, <1>6, <1>7 DEF IInv, ThreadIsWhereItLeft
<1> QED
  BY <1>10, <1>11, <1>12, <1>13, <1>14, <1>15, <1>16, <1>17, <1>18, <1>19, <1>20 DEF IInv

\* What Push does to a thread that is not queued.
LEMMA PushFacts ==
  ASSUME IInv, NEW t \in Tid, ~Queued(t), Push(t)
  PROVE  /\ ready' \in Seq(Tid) /\ Once(ready')
         /\ \A u : Queued(u)' <=> Queued(u) \/ u = t
         /\ time' \in [Tid -> 0 .. MaxTime] /\ time'[t] > 0
         /\ \A u \in Tid : u # t => time'[u] = time[u]
<1>1. ready \in Seq(Tid) /\ Once(ready) /\ ~InQueue(ready, t)
  BY DEF IInv, TypeOK, ReadyIsQueued, Once, Queued, InQueue
<1>2. ready' \in Seq(Tid) /\ Once(ready') /\ \A u : InQueue(ready', u) <=> InQueue(ready, u) \/ u = t
  BY <1>1, QueueAppend DEF Push
<1>3. time \in [Tid -> 0 .. MaxTime] /\ MaxTime \in 0 .. MaxTime /\ MaxTime > 0
  BY DEF IInv, TypeOK
<1>4. CASE time[t] = 0
  <2>1. time' = [time EXCEPT ![t] = MaxTime]
    BY <1>4 DEF Push
  <2> QED BY <1>2, <1>3, <2>1 DEF Queued, InQueue
<1>5. CASE time[t] # 0
  <2>1. time' = [time EXCEPT ![t] = time[t]]
    BY <1>5 DEF Push
  <2>2. time[t] \in 0 .. MaxTime /\ time[t] > 0
    BY <1>3, <1>5
  <2> QED BY <1>2, <1>3, <2>1, <2>2 DEF Queued, InQueue
<1> QED BY <1>4, <1>5

\* A thread that exited comes back to idle.
LEMMA RetrieveExitedIInv ==
  ASSUME IInv, RetrieveToPool, ~occupied[cur.tid]
  PROVE  IInv'
<1>1. pc = "retrieve" /\ TypeOK /\ HartOK /\ CurOK /\ busy /\ ~sie /\ cur.tid \notin live
  BY DEF IInv, RetrieveToPool, HartOK, CurOK
<1>2. /\ stacks' = stacks \ {thread[cur.tid].kstack}
      /\ busy' = FALSE /\ pc' = "acquire"
      /\ UNCHANGED <<thread, status, ready, time, sie, timer, uart, typed, occupied, cur,
                     idleCtx, buf, waitQueue, consumed, live, own, running>>
  BY DEF RetrieveToPool, FreeStack, devVars, inVars
<1>3. TypeOK' /\ HartOK'
  BY <1>1, <1>2 DEF TypeOK, IdlePc, HartOK, NoWildSwitch, ThreadPc
<1>4. CurOK'
  BY <1>2 DEF CurOK
<1>5. LiveOK' /\ SliceOK'
  BY <1>1, <1>2 DEF IInv, LiveOK, SliceOK, Queued
<1>6. CtxOK'
  BY <1>1, <1>2 DEF IInv, CtxOK, IsHost
<1>7. ReadyIsQueued'
  BY <1>2 DEF IInv, ReadyIsQueued, Queued
<1>8. SleeperIsAwaited' /\ OneActive'
  BY <1>2 DEF IInv, SleeperIsAwaited, OneActive, Active, IsHost, InQueue
<1>9. WokenReaderFindsChar'
  BY <1>2 DEF IInv, WokenReaderFindsChar
<1>10. StacksAreOwned'
  <2>1. cur.thread.kstack = thread[cur.tid].kstack /\ ExitedOnHart /\ ~ExitedOnHart'
    BY <1>1, <1>2 DEF CurOK, ExitedOnHart
  <2> QED BY <1>2, <2>1 DEF IInv, StacksAreOwned
<1>11. ThreadIsWhereItLeft'
  BY <1>1, <1>2 DEF IInv, ThreadIsWhereItLeft
<1> QED BY <1>3, <1>4, <1>5, <1>6, <1>7, <1>8, <1>9, <1>10, <1>11 DEF IInv

\* Another thread comes back to idle: it used up its slice, or went to sleep.
LEMMA RetrieveIInv ==
  ASSUME IInv, RetrieveToPool, occupied[cur.tid]
  PROVE  IInv'
<1> DEFINE tid == cur.tid
<1>1. /\ pc = "retrieve" /\ TypeOK /\ HartOK /\ CurOK /\ busy /\ ~sie
      /\ tid \in live /\ tid \in Tid /\ live \subseteq Tid
  BY DEF IInv, RetrieveToPool, HartOK, CurOK, TypeOK
<1>2. /\ thread' = [thread EXCEPT ![tid] = cur.thread] /\ Requeue(tid)
      /\ busy' = FALSE /\ pc' = "acquire"
      /\ UNCHANGED <<sie, timer, uart, typed, occupied, cur, idleCtx, buf, waitQueue,
                     consumed, live, own, running, stacks>>
  BY DEF RetrieveToPool, Save, devVars, inVars
<1>3. /\ cur.thread.ctx \in Resumable /\ status[tid] \in {"Running", "Sleeping"}
      /\ cur.thread.ctx = "popChar" => status[tid] = "Sleeping" /\ ~IsHost(tid)
      /\ cur.thread \in Thread
      /\ cur.thread.kstack = thread[tid].kstack /\ cur.thread.wait = thread[tid].wait
  BY <1>1 DEF CurOK, TypeOK, Status
<1>4. /\ thread' \in [Tid -> Thread] /\ thread'[tid] = cur.thread
      /\ \A t \in Tid : t # tid => thread'[t] = thread[t]
      /\ \A t \in Tid : thread'[t].kstack = thread[t].kstack /\ thread'[t].wait = thread[t].wait
  BY <1>1, <1>2, <1>3 DEF TypeOK
<1>5. \A t : (IsHost(t)' <=> IsHost(t)) /\ (InQueue(waitQueue, t)' <=> InQueue(waitQueue, t))
  BY <1>1, <1>2, <1>4 DEF IsHost, InQueue
<1>6. own[tid] = cur.thread
  <2>1. own[tid] \in Thread /\ cur.thread \in Thread
    BY <1>1, <1>3 DEF TypeOK
  <2>2. cur.thread.files = own[tid].files /\ cur.thread.ctx = own[tid].ctx
    BY <1>1, <1>3 DEF IInv, ThreadIsWhereItLeft, Resumable, NULL
  <2>3. cur.thread.kstack = own[tid].kstack /\ cur.thread.wait = own[tid].wait
    BY <1>1 DEF CurOK
  <2> QED BY <2>1, <2>2, <2>3 DEF Thread
<1>7. ~Queued(tid)
  BY <1>1, <1>3 DEF IInv, ReadyIsQueued
<1>8. /\ status' \in [Tid -> Status] /\ ready' \in Seq(Tid) /\ Once(ready')
      /\ time' \in [Tid -> 0 .. MaxTime]
      /\ \A t \in Tid : t # tid => status'[t] = status[t]
      /\ \A t \in Tid : Queued(t)' => time'[t] > 0
      /\ \/ /\ status[tid] = "Running" /\ status'[tid] = "Ready"
            /\ \A u : Queued(u)' <=> Queued(u) \/ u = tid
         \/ /\ status[tid] = "Sleeping" /\ status'[tid] = "Sleeping"
            /\ \A u : Queued(u)' <=> Queued(u)
  <2>1. CASE status[tid] = "Running"
    <3>1. status' = [status EXCEPT ![tid] = "Ready"] /\ Push(tid)
      BY <1>2, <2>1 DEF Requeue
    <3> HIDE DEF tid
    <3>2. /\ status' \in [Tid -> Status] /\ status'[tid] = "Ready"
          /\ \A t \in Tid : t # tid => status'[t] = status[t]
      BY <1>1, <3>1 DEF TypeOK, Status
    <3>3. \A t \in Tid : Queued(t)' => time'[t] > 0
      BY <1>1, <1>7, <3>1, PushFacts DEF IInv, SliceOK
    <3> QED BY <1>1, <1>7, <2>1, <3>1, <3>2, <3>3, PushFacts
  <2>2. CASE status[tid] = "Sleeping"
    <3>1. UNCHANGED <<status, ready, time>>
      BY <1>2, <2>2 DEF Requeue
    <3>2. \A u : Queued(u)' <=> Queued(u)
      BY <3>1 DEF Queued
    <3> QED BY <1>1, <2>2, <3>1, <3>2 DEF IInv, TypeOK, SliceOK, ReadyIsQueued, Once
  <2> QED BY <1>3, <2>1, <2>2
<1> HIDE DEF tid
<1>9. TypeOK'
  BY <1>1, <1>2, <1>4, <1>8 DEF TypeOK, IdlePc
<1>10. HartOK'
  BY <1>1, <1>2 DEF HartOK, NoWildSwitch, ThreadPc
<1>11. CurOK'
  BY <1>2 DEF CurOK
<1>12. LiveOK' /\ SliceOK'
  BY <1>1, <1>2, <1>8 DEF IInv, LiveOK, SliceOK, tid
<1>13. CtxOK'
  BY <1>1, <1>2, <1>3, <1>4, <1>5 DEF IInv, CtxOK, tid
<1>14. ReadyIsQueued'
  BY <1>1, <1>2, <1>8 DEF IInv, ReadyIsQueued, Once
<1>15. SleeperIsAwaited'
  <2>1. SleeperIsAwaited
    BY DEF IInv
  <2>2. \A t \in Tid : status'[t] = "Sleeping" <=> status[t] = "Sleeping"
    BY <1>1, <1>8
  <2>3. \A t \in Tid : InQueue(waitQueue, t)' \/ IsHost(t)' => t \in live' /\ status'[t] = "Sleeping"
    BY <1>2, <1>5, <2>1, <2>2 DEF SleeperIsAwaited
  <2>4. \A t \in live : status'[t] = "Sleeping" => (InQueue(waitQueue, t)' # IsHost(t)')
    <3> SUFFICES ASSUME NEW t \in live, status'[t] = "Sleeping"
                 PROVE  InQueue(waitQueue, t)' <=> ~IsHost(t)'
      BY DEF InQueue, IsHost
    <3>1. InQueue(waitQueue, t) # IsHost(t)
      BY <1>1, <2>1, <2>2 DEF SleeperIsAwaited
    <3> QED BY <3>1, <1>5 DEF InQueue, IsHost
  <2>5. \A c, d \in live : thread'[c].wait = thread'[d].wait => c = d
    BY <1>1, <1>4, <2>1 DEF SleeperIsAwaited
  <2> QED BY <1>2, <2>1, <2>3, <2>4, <2>5 DEF SleeperIsAwaited
<1>16. OneActive'
  <2>1. \A t \in live : Active(t)' => Active(t)
    BY <1>1, <1>5, <1>8 DEF Active
  <2> QED BY <1>2, <2>1 DEF IInv, OneActive
<1>17. WokenReaderFindsChar'
  BY <1>1, <1>2, <1>3, <1>4, <1>8 DEF IInv, WokenReaderFindsChar
<1>18. StacksAreOwned'
  <2>1. ~ExitedOnHart /\ ~ExitedOnHart'
    BY <1>1, <1>2 DEF ExitedOnHart, tid
  <2>2. \A t \in live : thread'[t].kstack = thread[t].kstack
    BY <1>1, <1>4
  <2>3. {thread'[t].kstack : t \in live} = {thread[t].kstack : t \in live}
    BY <2>2
  <2> QED BY <1>2, <2>1, <2>2, <2>3 DEF IInv, StacksAreOwned
<1>19. ThreadIsWhereItLeft'
  BY <1>1, <1>2, <1>4, <1>6 DEF IInv, ThreadIsWhereItLeft, tid
<1> QED
  BY <1>9, <1>10, <1>11, <1>12, <1>13, <1>14, <1>15, <1>16, <1>17, <1>18, <1>19 DEF IInv
-----------------------------------------------------------------------------
(* Threads are woken, started and ended.                                   *)

\* A character arrives.
LEMMA ExternalIInv ==
  ASSUME IInv, ExternalInterrupt
  PROVE  IInv'
<1>1. CASE NoRoom(1) /\ Stop
  BY <1>1, StopIInv
<1>2. CASE ~(NoRoom(1) /\ Stop)
  <2>1. /\ TrapReady /\ uart # <<>> /\ TypeOK /\ HartOK /\ CurOK /\ live \subseteq Tid
        /\ uart' = Tail(uart) /\ buf' = Append(buf, Cooked(Head(uart)))
        /\ NotifyCondition /\ pc' = TrapReturn
        /\ UNCHANGED <<sie, timer, typed, occupied, thread, cur, busy, idleCtx, consumed,
                       stacks, live, own, running>>
    BY <1>2 DEF IInv, TypeOK, ExternalInterrupt, PushChar, cpuVars
  <2>2. uart' \in Seq(Char) /\ buf' \in Seq(Char) /\ buf' # <<>>
    <3>1. uart \in Seq(Char) /\ buf \in Seq(Char)
      BY <2>1 DEF TypeOK
    <3>2. Tail(uart) \in Seq(Char) /\ Head(uart) \in Char
      BY <2>1, <3>1
    <3>3. Cooked(Head(uart)) \in Char
      BY <3>2 DEF Cooked
    <3> QED BY <2>1, <3>1, <3>2, <3>3
  <2>3. /\ pc' \in {"boot", "idleMain", "wfi", "stalled", "disable", "user"}
        /\ pc' \in {"boot", "user"} => pc' = pc
        /\ pc' = "user" <=> busy
    BY <2>1, TrapFacts DEF TrapReturn, TypeOK
  <2>4. HartOK'
    BY <2>1, <2>3 DEF HartOK, NoWildSwitch, ThreadPc
  <2>5. /\ \A t : IsHost(t)' <=> IsHost(t)
        /\ WokenReaderFindsChar'
    BY <2>1, <2>2 DEF IsHost, WokenReaderFindsChar
  <2>6. StacksAreOwned' /\ ThreadIsWhereItLeft'
    BY <2>1 DEF IInv, StacksAreOwned, ExitedOnHart, ThreadIsWhereItLeft
  <2>7. CtxOK'
    BY <2>1, <2>5 DEF IInv, CtxOK
  <2>8. CASE waitQueue = <<>>
    <3>1. UNCHANGED <<waitQueue, status, ready, time>>
      BY <2>1, <2>8 DEF NotifyCondition
    <3>2. TypeOK'
      BY <2>1, <2>2, <2>3, <3>1 DEF TypeOK, IdlePc, ThreadPc
    <3>3. CurOK'
      BY <2>1, <2>3, <3>1 DEF CurOK
    <3>4. SliceOK'
      BY <3>1 DEF IInv, SliceOK, Queued
    <3> QED BY <2>1, <2>4, <2>5, <2>6, <3>1, <3>2, <3>3, <3>4, SameThreads DEF IInv
  <2>9. CASE waitQueue # <<>>
    <3> DEFINE h == Head(waitQueue)
    <3>1. waitQueue' = Tail(waitQueue) /\ status' = [status EXCEPT ![h] = "Ready"] /\ Push(h)
      BY <2>1, <2>9 DEF NotifyCondition, WakeupCPU
    <3>2. /\ waitQueue' \in Seq(Tid) /\ Once(waitQueue') /\ h \in Tid
          /\ \A u : InQueue(waitQueue', u) <=> InQueue(waitQueue, u) /\ u # h
          /\ InQueue(waitQueue, h)
      <4>1. waitQueue \in Seq(Tid) /\ Once(waitQueue)
        BY DEF IInv, TypeOK, SleeperIsAwaited, Once
      <4> QED BY <2>9, <3>1, <4>1, QueueTail
    <3> HIDE DEF h
    <3>3. h \in live /\ status[h] = "Sleeping" /\ ~IsHost(h) /\ ~Queued(h)
      <4>1. h \in live /\ status[h] = "Sleeping"
        BY <3>2 DEF IInv, SleeperIsAwaited
      <4>2. InQueue(waitQueue, h) # IsHost(h)
        BY <4>1 DEF IInv, SleeperIsAwaited
      <4> QED BY <3>2, <4>1, <4>2 DEF IInv, ReadyIsQueued, InQueue, IsHost
    <3>4. /\ ready' \in Seq(Tid) /\ Once(ready')
          /\ \A u : Queued(u)' <=> Queued(u) \/ u = h
          /\ time' \in [Tid -> 0 .. MaxTime] /\ time'[h] > 0
          /\ \A u \in Tid : u # h => time'[u] = time[u]
      BY <3>1, <3>2, <3>3, PushFacts
    <3>5. /\ status' \in [Tid -> Status] /\ status'[h] = "Ready"
          /\ \A t \in Tid : t # h => status'[t] = status[t]
      BY <2>1, <3>1, <3>2 DEF TypeOK, Status
    <3>6. busy => cur.tid # h /\ cur.tid \in Tid
      BY <2>3, <3>3, OnHartFacts
    <3>7. TypeOK'
      BY <2>1, <2>2, <2>3, <3>2, <3>4, <3>5 DEF TypeOK, IdlePc, ThreadPc
    <3>8. CurOK'
      BY <2>1, <2>3, <3>4, <3>5, <3>6 DEF CurOK
    <3>9. LiveOK' /\ SliceOK'
      BY <2>1, <3>4, <3>5 DEF IInv, LiveOK, SliceOK
    <3>10. ReadyIsQueued'
      BY <2>1, <3>3, <3>4, <3>5 DEF IInv, ReadyIsQueued, Once
    <3>11. SleeperIsAwaited'
      <4>1. SleeperIsAwaited
        BY DEF IInv
      <4>2. \A t \in Tid : InQueue(waitQueue, t)' \/ IsHost(t)' => t \in live' /\ status'[t] = "Sleeping"
        BY <2>1, <2>5, <3>2, <3>3, <3>5, <4>1 DEF SleeperIsAwaited
      <4>3. \A t \in live : status'[t] = "Sleeping" => (InQueue(waitQueue, t)' # IsHost(t)')
        <5> SUFFICES ASSUME NEW t \in live, status'[t] = "Sleeping"
                     PROVE  InQueue(waitQueue', t) <=> ~IsHost(t)'
          BY DEF InQueue, IsHost
        <5>1. t # h /\ status[t] = "Sleeping"
          BY <2>1, <3>5
        <5>2. InQueue(waitQueue, t) # IsHost(t)
          BY <4>1, <5>1 DEF SleeperIsAwaited
        <5> QED BY <5>1, <5>2, <2>5, <3>2 DEF InQueue, IsHost
      <4> QED BY <2>1, <3>2, <4>1, <4>2, <4>3 DEF SleeperIsAwaited, Once
    <3>12. OneActive'
      <4>1. \A t \in live : Active(t)' => Active(t)
        BY <2>1, <3>2, <3>3, <3>5 DEF Active
      <4> QED BY <2>1, <4>1 DEF IInv, OneActive
    <3> QED BY <2>4, <2>5, <2>6, <2>7, <3>7, <3>8, <3>9, <3>10, <3>11, <3>12 DEF IInv
  <2> QED BY <2>8, <2>9
<1> QED BY <1>1, <1>2

\* A process starts another one and waits for it.
LEMMA ExecIInv ==
  ASSUME IInv, SysExec
  PROVE  IInv'
<1>1. CASE Stop
  BY <1>1, StopIInv
<1>2. CASE ~Stop
  <2> DEFINE child == LeastFree(occupied)
             tid == cur.tid
  <2>1. PICK k \in Stack \ stacks, files \in Files :
          /\ ~NoChild
          /\ ExecuteCPU(child, NewUserThread(k, files, tid))
          /\ YieldCPU([status EXCEPT ![child] = "Ready"], "exec")
          /\ UNCHANGED <<devVars, busy, inVars, running>>
    BY <1>2 DEF SysExec
  <2> DEFINE new == NewUserThread(k, files, tid)
  <2>2. /\ pc = "user" /\ TypeOK /\ HartOK /\ CurOK /\ live \subseteq Tid
        /\ idleCtx = "switched"
    BY DEF IInv, SysExec, InUser, TypeOK, HartOK, ThreadPc
  <2>3. /\ tid \in Tid /\ tid \in live /\ status[tid] = "Running" /\ busy
        /\ ~Queued(tid) /\ ~InQueue(waitQueue, tid) /\ ~IsHost(tid)
        /\ \A t \in live : t # tid => status[t] = "Sleeping" /\ ~InQueue(waitQueue, t)
    BY <2>2, OnHartFacts
  <2>n. \E t \in Tid : ~occupied[t]
    BY <2>1 DEF NoChild
  <2>4. child \in Tid /\ ~occupied[child]
    BY <2>n, LeastFreeFacts
  <2>5. child \notin live /\ child # tid
    BY <2>3, <2>4 DEF IInv, LiveOK
  <2> HIDE DEF child
  <2>6. ~Queued(child) /\ ~InQueue(waitQueue, child) /\ ~IsHost(child)
    BY <2>4, <2>5 DEF IInv, ReadyIsQueued, SleeperIsAwaited
  <2>7. /\ new \in Thread /\ new.kstack = k /\ new.wait = tid /\ new.ctx = "new"
    BY <2>1, <2>3 DEF NewUserThread, Thread, ThreadCtx
  <2>8. /\ stacks' = stacks \cup {k} /\ live' = live \cup {child}
        /\ occupied' = [occupied EXCEPT ![child] = TRUE]
        /\ thread' = [thread EXCEPT ![child] = new] /\ Push(child)
        /\ own' = [own EXCEPT ![tid].ctx = "exec", ![child] = new]
        /\ status' = [status EXCEPT ![child] = "Ready", ![tid] = "Sleeping"]
        /\ SwitchToIdle("exec")
        /\ UNCHANGED <<timer, uart, typed, busy, buf, waitQueue, consumed, running>>
    BY <2>1, <2>7 DEF ExecuteCPU, AddToPool, YieldCPU, devVars, inVars
  <2> HIDE DEF new
  <2>9. /\ pc' = "retrieve" /\ sie' = FALSE /\ idleCtx' = NULL
        /\ cur' = [cur EXCEPT !.thread.ctx = "exec"]
    BY <2>2, <2>8 DEF SwitchToIdle, ResumeAt, NULL
  <2>10. /\ cur' \in [tid : Tid, thread : Thread]
         /\ cur'.tid = tid /\ cur'.thread.ctx = "exec"
         /\ cur'.thread.kstack = cur.thread.kstack
         /\ cur'.thread.wait = cur.thread.wait
         /\ cur'.thread.files = cur.thread.files
    BY <2>2, <2>9, CurWithCtx DEF ThreadCtx
  <2>11. /\ own' \in [Tid -> Thread] /\ own'[child] = new
         /\ own'[tid].ctx = "exec" /\ own'[tid].kstack = own[tid].kstack
         /\ own'[tid].wait = own[tid].wait /\ own'[tid].files = own[tid].files
         /\ \A t \in Tid : t # tid /\ t # child => own'[t] = own[t]
    <3> DEFINE mid == [own EXCEPT ![tid].ctx = "exec"]
    <3>1. /\ mid \in [Tid -> Thread]
          /\ mid[tid].ctx = "exec" /\ mid[tid].kstack = own[tid].kstack
          /\ mid[tid].wait = own[tid].wait /\ mid[tid].files = own[tid].files
          /\ \A t \in Tid : t # tid => mid[t] = own[t]
      BY <2>2, OwnWithCtx DEF ThreadCtx
    <3>2. own' = [mid EXCEPT ![child] = new]
      BY <2>8
    <3> HIDE DEF mid
    <3> QED BY <2>3, <2>4, <2>5, <2>7, <3>1, <3>2
  <2> HIDE DEF tid
  <2>12. /\ thread' \in [Tid -> Thread] /\ thread'[child] = new
         /\ \A t \in Tid : t # child => thread'[t] = thread[t]
    BY <2>2, <2>4, <2>7, <2>8 DEF TypeOK
  <2>13. /\ occupied' \in [Tid -> BOOLEAN] /\ occupied'[child]
         /\ \A t \in Tid : t # child => occupied'[t] = occupied[t]
    BY <2>2, <2>4, <2>8 DEF TypeOK
  <2>14. /\ status' \in [Tid -> Status] /\ status'[child] = "Ready" /\ status'[tid] = "Sleeping"
         /\ \A t \in Tid : t # child /\ t # tid => status'[t] = status[t]
    BY <2>2, <2>3, <2>4, <2>5, <2>8 DEF TypeOK, Status
  <2>15. /\ ready' \in Seq(Tid) /\ Once(ready')
         /\ \A u : Queued(u)' <=> Queued(u) \/ u = child
         /\ time' \in [Tid -> 0 .. MaxTime] /\ time'[child] > 0
         /\ \A u \in Tid : u # child => time'[u] = time[u]
    BY <2>4, <2>6, <2>8, PushFacts
  <2>16. /\ \A t : IsHost(t)' <=> IsHost(t) \/ t = tid
         /\ \A t : InQueue(waitQueue, t)' <=> InQueue(waitQueue, t)
    BY <2>2, <2>4, <2>5, <2>7, <2>8, <2>12 DEF IsHost, InQueue
  <2>17. TypeOK'
    <3>1. stacks' \subseteq Stack /\ live' \subseteq Tid
      BY <2>1, <2>2, <2>4, <2>8 DEF TypeOK
    <3> QED
      BY <2>2, <2>8, <2>9, <2>10, <2>11, <2>12, <2>13, <2>14, <2>15, <3>1 DEF TypeOK, IdlePc
  <2>18. HartOK'
    BY <2>2, <2>3, <2>8, <2>9 DEF HartOK, NoWildSwitch, ThreadPc
  <2>19. CurOK'
    BY <2>2, <2>3, <2>5, <2>8, <2>9, <2>10, <2>11, <2>12, <2>13, <2>14
    DEF CurOK, Resumable, tid
  <2>20. LiveOK' /\ SliceOK'
    <3>1. LiveOK'
      BY <2>2, <2>3, <2>8, <2>13, <2>14, <2>5 DEF IInv, LiveOK
    <3>2. SliceOK'
      BY <2>15 DEF IInv, SliceOK
    <3> QED BY <3>1, <3>2
  <2>21. CtxOK'
    <3> SUFFICES ASSUME NEW t \in live', busy' => cur'.tid # t
                 PROVE  /\ thread'[t].ctx \in Resumable
                        /\ IsHost(t)' => thread'[t].ctx # "popChar"
      BY DEF CtxOK
    <3>1. t # tid
      BY <2>3, <2>8, <2>10
    <3>2. CASE t = child
      BY <3>2, <2>7, <2>12 DEF Resumable
    <3>3. CASE t # child
      BY <3>1, <3>3, <2>2, <2>8, <2>12, <2>16 DEF IInv, CtxOK, tid
    <3> QED BY <3>2, <3>3
  <2>22. ReadyIsQueued'
    BY <2>3, <2>5, <2>8, <2>14, <2>15 DEF IInv, ReadyIsQueued, Once
  <2>23. SleeperIsAwaited'
    <3>1. SleeperIsAwaited
      BY DEF IInv
    <3>2. \A i, j \in 1 .. Len(waitQueue') : waitQueue'[i] = waitQueue'[j] => i = j
      BY <2>8, <3>1 DEF SleeperIsAwaited
    <3>3. \A t \in Tid : InQueue(waitQueue, t)' \/ IsHost(t)' => t \in live' /\ status'[t] = "Sleeping"
      BY <2>3, <2>5, <2>6, <2>8, <2>14, <2>16, <3>1 DEF SleeperIsAwaited
    <3>4. \A t \in live' : status'[t] = "Sleeping" => (InQueue(waitQueue, t)' # IsHost(t)')
      <4> SUFFICES ASSUME NEW t \in live', status'[t] = "Sleeping"
                   PROVE  InQueue(waitQueue, t)' <=> ~IsHost(t)'
        BY DEF InQueue, IsHost
      <4>1. CASE t = tid
        BY <4>1, <2>3, <2>16
      <4>2. CASE t # tid
        <5>1. t \in live /\ status[t] = "Sleeping"
          BY <4>2, <2>2, <2>8, <2>14
        <5>2. InQueue(waitQueue, t) # IsHost(t)
          BY <3>1, <5>1 DEF SleeperIsAwaited
        <5> QED BY <4>2, <5>2, <2>16 DEF InQueue, IsHost
      <4> QED BY <4>1, <4>2
    <3>5. \A c, d \in live' : thread'[c].wait = thread'[d].wait => c = d
      <4>1. \A c \in live : thread[c].wait # tid
        BY <2>3 DEF IsHost
      <4> QED BY <2>2, <2>5, <2>7, <2>8, <2>12, <3>1, <4>1 DEF SleeperIsAwaited
    <3> QED BY <3>2, <3>3, <3>4, <3>5 DEF SleeperIsAwaited
  <2>24. OneActive'
    <3>1. \A t \in live' : Active(t)' => t = child
      BY <2>2, <2>3, <2>8, <2>14, <2>16 DEF Active
    <3> QED BY <3>1 DEF OneActive
  <2>25. WokenReaderFindsChar'
    <3>1. \A t \in live' : status'[t] = "Ready" => t = child
      BY <2>2, <2>3, <2>8, <2>14
    <3> QED BY <2>7, <2>9, <2>12, <3>1 DEF WokenReaderFindsChar
  <2>26. StacksAreOwned'
    <3>1. ~ExitedOnHart /\ ~ExitedOnHart'
      BY <2>3, <2>8, <2>10 DEF ExitedOnHart, tid
    <3>2. /\ stacks = {IdleStack} \cup {thread[t].kstack : t \in live}
          /\ \A t \in live : /\ thread[t].kstack # IdleStack
                             /\ \A u \in live : thread[t].kstack = thread[u].kstack => t = u
      BY <3>1 DEF IInv, StacksAreOwned
    <3>3. {thread'[t].kstack : t \in live'} = {thread[t].kstack : t \in live} \cup {k}
      BY <2>2, <2>5, <2>7, <2>8, <2>12
    <3>4. k # IdleStack /\ \A t \in live : thread[t].kstack # k
      BY <2>1, <3>2
    <3>5. stacks' = {IdleStack} \cup {thread'[t].kstack : t \in live'}
      BY <2>8, <3>2, <3>3
    <3>6. \A t \in live' : /\ thread'[t].kstack # IdleStack
                           /\ \A u \in live' : thread'[t].kstack = thread'[u].kstack => t = u
      BY <2>2, <2>5, <2>7, <2>8, <2>12, <3>2, <3>4
    <3> QED BY <3>1, <3>5, <3>6 DEF StacksAreOwned
  <2>27. ThreadIsWhereItLeft'
    <3> SUFFICES ASSUME NEW t \in live'
                 PROVE  IF busy' /\ cur'.tid = t
                          THEN /\ cur'.thread.files = own'[t].files
                               /\ cur'.thread.ctx # NULL => cur'.thread.ctx = own'[t].ctx
                          ELSE thread'[t] = own'[t]
      BY DEF ThreadIsWhereItLeft
    <3>1. CASE t = tid
      BY <3>1, <2>3, <2>8, <2>10, <2>11 DEF IInv, ThreadIsWhereItLeft, tid
    <3>2. CASE t = child
      BY <3>2, <2>5, <2>10, <2>11, <2>12
    <3>3. CASE t # tid /\ t # child
      BY <3>3, <2>2, <2>8, <2>10, <2>11, <2>12 DEF IInv, ThreadIsWhereItLeft, tid
    <3> QED BY <3>1, <3>2, <3>3
  <2> QED
    BY <2>17, <2>18, <2>19, <2>20, <2>21, <2>22, <2>23, <2>24, <2>25, <2>26, <2>27 DEF IInv
<1> QED BY <1>1, <1>2

\* A process exits, and its host is woken.
LEMMA ExitIInv ==
  ASSUME IInv, SysExit
  PROVE  IInv'
<1> DEFINE tid == cur.tid
           h == cur.thread.wait
<1>1. pc = "user" /\ TypeOK /\ HartOK /\ CurOK /\ live \subseteq Tid
  BY DEF IInv, SysExit, InUser, TypeOK
<1>2. /\ tid \in Tid /\ tid \in live /\ status[tid] = "Running" /\ busy /\ running = tid
      /\ ~Queued(tid) /\ ~InQueue(waitQueue, tid) /\ ~IsHost(tid)
      /\ \A t \in live : t # tid => status[t] = "Sleeping" /\ ~InQueue(waitQueue, t)
  BY <1>1, OnHartFacts
<1>3. /\ occupied' = [occupied EXCEPT ![tid] = FALSE] /\ running' = NoTid
      /\ WakeHost /\ SwitchToIdle("exit") /\ Leave("exit")
      /\ live' = live \ {tid}
      /\ UNCHANGED <<timer, uart, typed, thread, busy, buf, waitQueue, consumed, stacks>>
  BY <1>2 DEF SysExit, ExitFromPool, Exit, devVars, inVars
<1>4. h = thread[tid].wait /\ cur.thread.kstack = thread[tid].kstack
  BY <1>1, <1>2 DEF CurOK
<1>5. /\ pc' = "retrieve" /\ sie' = FALSE /\ idleCtx' = NULL /\ HartOK'
      /\ cur' \in [tid : Tid, thread : Thread] /\ own' \in [Tid -> Thread]
      /\ cur'.tid = tid /\ cur'.thread.ctx = "exit"
      /\ cur'.thread.kstack = cur.thread.kstack
      /\ cur'.thread.wait = cur.thread.wait
      /\ cur'.thread.files = cur.thread.files
      /\ \A t \in Tid : t # tid => own'[t] = own[t]
  BY <1>1, <1>3, ToIdleFacts DEF ThreadPc, ThreadCtx
<1>6. /\ occupied' \in [Tid -> BOOLEAN] /\ ~occupied'[tid]
      /\ \A t \in Tid : t # tid => occupied'[t] = occupied[t]
  BY <1>1, <1>2, <1>3 DEF TypeOK
<1>7. h \in Tid \cup {NoTid} /\ NoTid \notin Tid
  BY <1>1 DEF TypeOK, Thread, Tid, NoTid
<1>8. h # NoTid => /\ h \in live /\ h # tid /\ status[h] = "Sleeping" /\ ~Queued(h)
                   /\ thread[h].ctx # "popChar"
  <2> SUFFICES ASSUME h # NoTid
               PROVE  /\ h \in live /\ h # tid /\ status[h] = "Sleeping" /\ ~Queued(h)
                      /\ thread[h].ctx # "popChar"
    OBVIOUS
  <2>1. IsHost(h)
    BY <1>2, <1>4 DEF IsHost
  <2>2. h \in live /\ status[h] = "Sleeping"
    BY <1>7, <2>1 DEF IInv, SleeperIsAwaited
  <2>3. ~Queued(h)
    BY <1>7, <2>2 DEF IInv, ReadyIsQueued
  <2>4. h # tid
    BY <1>2, <2>2
  <2>5. thread[h].ctx # "popChar"
    BY <2>1, <2>2, <2>4 DEF IInv, CtxOK
  <2> QED BY <2>2, <2>3, <2>4, <2>5
<1>9. /\ status' \in [Tid -> Status] /\ ready' \in Seq(Tid) /\ Once(ready')
      /\ time' \in [Tid -> 0 .. MaxTime]
      /\ \A t \in Tid : t # h => status'[t] = status[t]
      /\ h # NoTid => status'[h] = "Ready"
      /\ \A t \in Tid : Queued(t)' => time'[t] > 0
      /\ \A t \in Tid : Queued(t)' <=> Queued(t) \/ t = h
  <2>1. CASE h = NoTid
    <3>1. UNCHANGED <<status, ready, time>>
      BY <1>3, <2>1 DEF WakeHost
    <3>2. \A t : Queued(t)' <=> Queued(t)
      BY <3>1 DEF Queued
    <3> QED BY <1>1, <1>7, <2>1, <3>1, <3>2 DEF IInv, TypeOK, SliceOK, ReadyIsQueued, Once
  <2>2. CASE h # NoTid
    <3>1. status' = [status EXCEPT ![h] = "Ready"] /\ Push(h) /\ h \in Tid
      BY <1>3, <1>7, <2>2 DEF WakeHost, WakeupCPU
    <3>2. ~Queued(h)
      BY <1>8, <2>2
    <3> HIDE DEF h
    <3>3. /\ status' \in [Tid -> Status] /\ status'[h] = "Ready"
          /\ \A t \in Tid : t # h => status'[t] = status[t]
      BY <1>1, <3>1 DEF TypeOK, Status
    <3>4. \A t \in Tid : Queued(t)' => time'[t] > 0
      BY <3>1, <3>2, PushFacts DEF IInv, SliceOK
    <3> QED BY <3>1, <3>2, <3>3, <3>4, PushFacts
  <2> QED BY <2>1, <2>2
<1> HIDE DEF tid, h
<1>10. /\ \A t \in Tid : IsHost(t)' <=> IsHost(t) /\ t # h
       /\ \A t : InQueue(waitQueue, t)' <=> InQueue(waitQueue, t)
  <2>1. \A c \in live : thread[c].wait = h => c = tid
    BY <1>2, <1>4 DEF IInv, SleeperIsAwaited
  <2>2. ASSUME NEW t \in Tid PROVE IsHost(t)' <=> IsHost(t) /\ t # h
    BY <1>2, <1>3, <1>4, <2>1 DEF IsHost
  <2>3. \A t : InQueue(waitQueue, t)' <=> InQueue(waitQueue, t)
    BY <1>3 DEF InQueue
  <2> QED BY <2>2, <2>3
<1>11. TypeOK'
  <2>1. live' \subseteq Tid /\ running' \in Tid \cup {NoTid}
    BY <1>1, <1>3
  <2> QED BY <1>1, <1>3, <1>5, <1>6, <1>9, <2>1 DEF TypeOK, IdlePc
<1>12. CurOK'
  BY <1>1, <1>2, <1>3, <1>4, <1>5, <1>6 DEF CurOK, tid
<1>13. LiveOK' /\ SliceOK'
  <2>1. LiveOK'
    BY <1>1, <1>2, <1>3, <1>6, <1>7, <1>9 DEF IInv, LiveOK
  <2> QED BY <2>1, <1>9 DEF SliceOK
<1>14. CtxOK'
  BY <1>1, <1>3, <1>5, <1>10 DEF IInv, CtxOK, tid
<1>15. ReadyIsQueued'
  BY <1>1, <1>2, <1>3, <1>7, <1>8, <1>9 DEF IInv, ReadyIsQueued, Once
<1>16. SleeperIsAwaited'
  <2>1. SleeperIsAwaited
    BY DEF IInv
  <2>2. \A i, j \in 1 .. Len(waitQueue') : waitQueue'[i] = waitQueue'[j] => i = j
    BY <1>3, <2>1 DEF SleeperIsAwaited
  <2>3. \A t \in Tid : InQueue(waitQueue, t) => t # h
    <3> SUFFICES ASSUME NEW t \in Tid, InQueue(waitQueue, t), t = h PROVE FALSE
      OBVIOUS
    <3>1. h # NoTid /\ h \in live /\ h # tid
      BY <1>7, <1>8
    <3> QED BY <1>2, <3>1
  <2>4. \A t \in Tid : InQueue(waitQueue, t)' \/ IsHost(t)' => t \in live' /\ status'[t] = "Sleeping"
    BY <1>2, <1>3, <1>9, <1>10, <2>1, <2>3 DEF SleeperIsAwaited
  <2>5. \A t \in live' : status'[t] = "Sleeping" => (InQueue(waitQueue, t)' # IsHost(t)')
    <3> SUFFICES ASSUME NEW t \in live', status'[t] = "Sleeping"
                 PROVE  InQueue(waitQueue, t)' <=> ~IsHost(t)'
      BY DEF InQueue, IsHost
    <3>1. t \in live /\ t \in Tid /\ t # h /\ status[t] = "Sleeping"
      BY <1>1, <1>3, <1>7, <1>9
    <3>2. InQueue(waitQueue, t) # IsHost(t)
      BY <2>1, <3>1 DEF SleeperIsAwaited
    <3> QED BY <3>1, <3>2, <1>10 DEF InQueue, IsHost
  <2>6. \A c, d \in live' : thread'[c].wait = thread'[d].wait => c = d
    BY <1>3, <2>1 DEF SleeperIsAwaited
  <2> QED BY <2>2, <2>4, <2>5, <2>6 DEF SleeperIsAwaited
<1>17. OneActive'
  <2>1. \A t \in live' : Active(t)' => t = h
    BY <1>1, <1>2, <1>3, <1>9, <1>10 DEF Active
  <2> QED BY <2>1 DEF OneActive
<1>18. WokenReaderFindsChar'
  <2>1. \A t \in live' : status'[t] = "Ready" => t = h
    BY <1>1, <1>2, <1>3, <1>9
  <2> QED BY <1>1, <1>3, <1>5, <1>7, <1>8, <2>1 DEF WokenReaderFindsChar
<1>19. StacksAreOwned'
  <2>1. ~ExitedOnHart /\ ExitedOnHart'
    BY <1>2, <1>3, <1>5 DEF ExitedOnHart, tid
  <2>2. /\ stacks = {IdleStack} \cup {thread[t].kstack : t \in live}
        /\ \A t \in live : /\ thread[t].kstack # IdleStack
                           /\ \A u \in live : thread[t].kstack = thread[u].kstack => t = u
    BY <2>1 DEF IInv, StacksAreOwned
  <2>3. {thread[t].kstack : t \in live} = {thread[t].kstack : t \in live'} \cup {thread[tid].kstack}
    BY <1>2, <1>3
  <2>4. cur'.thread.kstack = thread[tid].kstack
    BY <1>4, <1>5
  <2>5. stacks' = {IdleStack} \cup {thread'[t].kstack : t \in live'} \cup {cur'.thread.kstack}
    BY <1>3, <2>2, <2>3, <2>4, SMTT(30)
  <2>6. /\ cur'.thread.kstack # IdleStack
        /\ \A t \in live' : /\ thread'[t].kstack # IdleStack
                            /\ thread'[t].kstack # cur'.thread.kstack
                            /\ \A u \in live' : thread'[t].kstack = thread'[u].kstack => t = u
    BY <1>2, <1>3, <2>2, <2>4
  <2> QED BY <2>1, <2>5, <2>6 DEF StacksAreOwned
<1>20. ThreadIsWhereItLeft'
  BY <1>1, <1>3, <1>5 DEF IInv, ThreadIsWhereItLeft, tid
<1> QED
  BY <1>5, <1>11, <1>12, <1>13, <1>14, <1>15, <1>16, <1>17, <1>18, <1>19, <1>20 DEF IInv

LEMMA StutterIInv ==
  ASSUME IInv, UNCHANGED vars
  PROVE  IInv'
<1>1. /\ UNCHANGED <<poolVars, cur, busy, waitQueue, buf, stacks, live, own, schedVars>>
      /\ UNCHANGED <<pc, sie, idleCtx, timer, uart, typed, consumed>>
  BY DEF vars, cpuVars, inVars, devVars
<1>2. HartOK' /\ TypeOK'
  BY <1>1 DEF IInv, HartOK, NoWildSwitch, TypeOK, poolVars, schedVars
<1> QED BY <1>1, <1>2, Still, StillCur DEF IInv

\* Every step keeps the inductive invariant.
LEMMA StepIInv == IInv /\ [Next]_vars => IInv'
<1> SUFFICES ASSUME IInv, [Next]_vars PROVE IInv'
  OBVIOUS
<1>1. CASE TimerFires \/ \E c \in Char : Type(c)
  BY <1>1, DeviceIInv
<1>2. CASE RunCPU \/ Disable \/ AcquireNothing \/ Enable \/ Wfi \/ SysRead
  BY <1>2, QuietIInv
<1>3. CASE AcquireFromPool \/ SwitchToThread \/ RetrieveToPool
  BY <1>3, AcquireIInv, SwitchIInv, RetrieveIInv, RetrieveExitedIInv
<1>4. CASE TimerInterrupt \/ ExternalInterrupt
  BY <1>4, TimerIInv, ExternalIInv
<1>5. CASE PopChar \/ WaitChar \/ SysFile
  BY <1>5, PopCharIInv, WaitIInv, FileIInv
<1>6. CASE SysExec \/ SysExit
  BY <1>6, ExecIInv, ExitIInv
<1>7. CASE SysStop
  BY <1>7, StopIInv DEF SysStop
<1>8. CASE Halted \/ UNCHANGED vars
  BY <1>8, StutterIInv DEF Halted
<1> QED
  BY <1>1, <1>2, <1>3, <1>4, <1>5, <1>6, <1>7, <1>8 DEF Next, Idle, Trap

\* The inductive invariant of module Kernel holds.
LEMMA KernelInvariant == Spec => []IInv
BY InitIInv, StepIInv, PTL DEF Spec

\* The types of the kernel's state: no slice underflows, the queues hold
\* threads and CPU.current names one, for any number of slots and any slice.
THEOREM TypeCorrect == Spec => []TypeOK
<1>1. IInv => TypeOK
  BY DEF IInv
<1> QED BY <1>1, KernelInvariant, PTL

\* Ready threads are exactly the queued ones, each once: the unconditional
\* pushes of wakeupCPU, retrieveToPool and addToPool never break the scheduler's
\* contract (MayPush of module Scheduler).
THEOREM ReadyIsAlwaysQueued == Spec => []ReadyIsQueued
<1>1. IInv => ReadyIsQueued
  BY DEF IInv
<1> QED BY <1>1, KernelInvariant, PTL

\* Every sleeping thread is awaited by exactly one cause that wakes it, and at
\* most one process is not suspended in sysExec.
THEOREM SleepersAreAwaited == Spec => [](SleeperIsAwaited /\ OneActive)
<1>1. IInv => SleeperIsAwaited /\ OneActive
  BY DEF IInv
<1> QED BY <1>1, KernelInvariant, PTL

\* A thread woken in popChar finds a character.
THEOREM WokenReadersFindChars == Spec => []WokenReaderFindsChar
<1>1. IInv => WokenReaderFindsChar
  BY DEF IInv
<1> QED BY <1>1, KernelInvariant, PTL

\* Kernel stacks are neither leaked nor freed while in use.
THEOREM StacksAreSafe == Spec => []StacksAreOwned
<1>1. IInv => StacksAreOwned
  BY DEF IInv
<1> QED BY <1>1, KernelInvariant, PTL

\* No context is resumed twice.
THEOREM SwitchesAreTame == Spec => []NoWildSwitch
<1>1. IInv => NoWildSwitch
  BY DEF IInv, HartOK
<1> QED BY <1>1, KernelInvariant, PTL

\* The copies of Thread in the pool and in CPU.current never lose a change.
THEOREM ThreadsKeepTheirState == Spec => []ThreadIsWhereItLeft
<1>1. IInv => ThreadIsWhereItLeft
  BY DEF IInv
<1> QED BY <1>1, KernelInvariant, PTL

\* The thread in user mode is charged, and has a tick left to be charged: the
\* scheduler's contract for ticks (MayTick of module Scheduler).
THEOREM SlicesAreCharged == Spec => []SliceIsCharged
<1>1. IInv => SliceIsCharged
  <2> SUFFICES ASSUME IInv, pc = "user"
               PROVE  running = cur.tid /\ time[cur.tid] \in 1 .. MaxTime
    BY DEF SliceIsCharged
  <2> QED BY OnHartFacts
<1> QED BY <1>1, KernelInvariant, PTL
-----------------------------------------------------------------------------
(* Standard input.                                                         *)

\* The first element of a sequence may be moved to the end of the one before.
LEMMA MoveFirst ==
  ASSUME NEW S, NEW a \in Seq(S), NEW b \in Seq(S), b # <<>>
  PROVE  Append(a, Head(b)) \o Tail(b) = a \o b
<1> DEFINE g == a \o b
<1>1. /\ Len(a) \in Nat /\ Len(b) \in Nat \ {0} /\ Head(b) = b[1] /\ Head(b) \in S
      /\ Tail(b) \in Seq(S) /\ Len(Tail(b)) = Len(b) - 1
      /\ \A i \in 1 .. Len(b) - 1 : Tail(b)[i] = b[i + 1]
  OBVIOUS
<1>2. /\ Append(a, Head(b)) \in Seq(S) /\ Len(Append(a, Head(b))) = Len(a) + 1
      /\ Append(a, Head(b))[Len(a) + 1] = b[1]
      /\ \A i \in 1 .. Len(a) : Append(a, Head(b))[i] = a[i]
  BY <1>1
<1> DEFINE c == Append(a, Head(b))
           d == Tail(b)
           f == c \o d
<1> HIDE DEF c, d
<1>3. /\ f \in Seq(S) /\ Len(f) = Len(c) + Len(d)
      /\ \A i \in 1 .. Len(f) : f[i] = IF i <= Len(c) THEN c[i] ELSE d[i - Len(c)]
  BY <1>1, <1>2 DEF c, d
<1>4. /\ g \in Seq(S) /\ Len(g) = Len(a) + Len(b)
      /\ \A i \in 1 .. Len(g) : g[i] = IF i <= Len(a) THEN a[i] ELSE b[i - Len(a)]
  OBVIOUS
<1> HIDE DEF f, g
<1>5. /\ Len(c) = Len(a) + 1 /\ Len(d) = Len(b) - 1
      /\ c[Len(a) + 1] = b[1]
      /\ \A i \in 1 .. Len(a) : c[i] = a[i]
  BY <1>1, <1>2 DEF c, d
<1>6. ASSUME NEW i \in 1 .. Len(g) PROVE f[i] = g[i]
  <2>1. CASE i <= Len(a)
    BY <2>1, <1>1, <1>3, <1>4, <1>5
  <2>2. CASE i = Len(a) + 1
    <3>1. f[i] = b[1]
      BY <2>2, <1>1, <1>3, <1>4, <1>5
    <3>2. g[i] = b[1]
      BY <2>2, <1>1, <1>4, SMTT(30)
    <3> QED BY <3>1, <3>2
  <2>3. CASE i > Len(a) + 1
    <3>1. f[i] = d[i - (Len(a) + 1)] /\ i - (Len(a) + 1) \in 1 .. Len(b) - 1
      <4>1. i \in Int /\ i \in 1 .. Len(f) /\ ~(i <= Len(c)) /\ Len(c) = Len(a) + 1
        BY <2>3, <1>1, <1>3, <1>4, <1>5
      <4>2. f[i] = d[i - Len(c)]
        BY <4>1, <1>3
      <4>3. i - (Len(a) + 1) \in 1 .. Len(b) - 1
        BY <2>3, <1>1, <1>4
      <4> QED BY <4>1, <4>2, <4>3
    <3>2. d[i - (Len(a) + 1)] = b[i - Len(a)]
      <4>1. \A j \in 1 .. Len(b) - 1 : d[j] = b[j + 1]
        BY <1>1 DEF d
      <4>2. i - (Len(a) + 1) + 1 = i - Len(a)
        BY <1>1, <1>4
      <4> QED BY <3>1, <4>1, <4>2
    <3>3. g[i] = b[i - Len(a)]
      BY <2>3, <1>1, <1>4
    <3> QED BY <3>1, <3>2, <3>3
  <2> QED BY <2>1, <2>2, <2>3, <1>1, <1>4
<1>7. f = g
  BY <1>1, <1>3, <1>4, <1>5, <1>6
<1> QED BY <1>7 DEF c, d, f, g

LEMMA AppendBehind ==
  ASSUME NEW S, NEW a \in Seq(S), NEW b \in Seq(S), NEW x \in S
  PROVE  a \o Append(b, x) = Append(a \o b, x)
OBVIOUS

\* external turns one character after the other.
LEMMA CookedFacts ==
  ASSUME NEW q \in Seq(Char)
  PROVE  /\ CookedSeq(q) \in Seq(Char)
         /\ \A c \in Char : Cooked(c) \in Char /\ CookedSeq(Append(q, c)) = Append(CookedSeq(q), Cooked(c))
         /\ q # <<>> => /\ CookedSeq(q) # <<>>
                        /\ Head(q) \in Char
                        /\ Head(CookedSeq(q)) = Cooked(Head(q))
                        /\ Tail(CookedSeq(q)) = CookedSeq(Tail(q))
<1>1. \A c \in Char : Cooked(c) \in Char
  BY DEF Cooked
<1>2. /\ CookedSeq(q) \in Seq(Char) /\ Len(CookedSeq(q)) = Len(q)
      /\ \A i \in 1 .. Len(q) : CookedSeq(q)[i] = Cooked(q[i])
  BY <1>1 DEF CookedSeq
<1>3. ASSUME NEW c \in Char PROVE CookedSeq(Append(q, c)) = Append(CookedSeq(q), Cooked(c))
  <2> DEFINE r == Append(q, c)
             s == Append(CookedSeq(q), Cooked(c))
  <2>1. /\ r \in Seq(Char) /\ Len(r) = Len(q) + 1 /\ Len(q) \in Nat /\ r[Len(q) + 1] = c
        /\ \A i \in 1 .. Len(q) : r[i] = q[i]
    OBVIOUS
  <2>2. /\ s \in Seq(Char) /\ Len(s) = Len(q) + 1 /\ s[Len(q) + 1] = Cooked(c)
        /\ \A i \in 1 .. Len(q) : s[i] = Cooked(q[i])
    BY <1>1, <1>2
  <2> HIDE DEF r, s
  <2>3. /\ CookedSeq(r) \in Seq(Char) /\ Len(CookedSeq(r)) = Len(r)
        /\ \A i \in 1 .. Len(r) : CookedSeq(r)[i] = Cooked(r[i])
    BY <1>1, <2>1 DEF CookedSeq
  <2>4. \A i \in 1 .. Len(q) + 1 : CookedSeq(r)[i] = s[i]
    BY <2>1, <2>2, <2>3
  <2>5. CookedSeq(r) = s
    BY <2>1, <2>2, <2>3, <2>4
  <2> QED BY <2>5 DEF r, s
<1>4. ASSUME q # <<>>
      PROVE  /\ CookedSeq(q) # <<>> /\ Head(q) \in Char
             /\ Head(CookedSeq(q)) = Cooked(Head(q))
             /\ Tail(CookedSeq(q)) = CookedSeq(Tail(q))
  <2> DEFINE r == Tail(q)
             s == Tail(CookedSeq(q))
  <2>1. /\ r \in Seq(Char) /\ Len(r) = Len(q) - 1 /\ Len(q) \in Nat \ {0}
        /\ Head(q) = q[1] /\ q[1] \in Char
        /\ \A i \in 1 .. Len(q) - 1 : r[i] = q[i + 1]
    BY <1>4
  <2>2. /\ CookedSeq(q) # <<>> /\ Head(CookedSeq(q)) = Cooked(q[1])
    BY <1>2, <2>1
  <2>3. /\ s \in Seq(Char) /\ Len(s) = Len(q) - 1
        /\ \A i \in 1 .. Len(q) - 1 : s[i] = Cooked(q[i + 1])
    BY <1>2, <2>1, <2>2
  <2> HIDE DEF r, s
  <2>4. /\ CookedSeq(r) \in Seq(Char) /\ Len(CookedSeq(r)) = Len(r)
        /\ \A i \in 1 .. Len(r) : CookedSeq(r)[i] = Cooked(r[i])
    BY <1>1, <2>1 DEF CookedSeq
  <2>5. \A i \in 1 .. Len(q) - 1 : CookedSeq(r)[i] = s[i]
    BY <2>1, <2>3, <2>4
  <2>6. CookedSeq(r) = s
    BY <2>1, <2>3, <2>4, <2>5
  <2> QED BY <2>1, <2>2, <2>6 DEF r, s
<1> QED BY <1>1, <1>2, <1>3, <1>4

\* Every step keeps the characters in order: typing adds one behind both
\* sequences, the other steps move one from a sequence to the one before.
LEMMA StepInput == TypeOK /\ InputInOrder /\ [Next]_vars => InputInOrder'
<1> SUFFICES ASSUME TypeOK, InputInOrder, [Next]_vars PROVE InputInOrder'
  OBVIOUS
<1>1. /\ uart \in Seq(Char) /\ typed \in Seq(Char) /\ buf \in Seq(Char) /\ consumed \in Seq(Char)
      /\ consumed \o buf \in Seq(Char)
      /\ CookedSeq(uart) \in Seq(Char) /\ CookedSeq(typed) \in Seq(Char)
  BY CookedFacts DEF TypeOK
<1>2. ASSUME UNCHANGED <<uart, typed, buf, consumed>> PROVE InputInOrder'
  BY <1>2 DEF InputInOrder, CookedSeq
<1>3. ASSUME NEW c \in Char, Type(c) PROVE InputInOrder'
  <2>1. /\ uart' = Append(uart, c) /\ typed' = Append(typed, c)
        /\ buf' = buf /\ consumed' = consumed
    BY <1>3 DEF Type, inVars
  <2>a. /\ CookedSeq(Append(uart, c)) = Append(CookedSeq(uart), Cooked(c))
        /\ CookedSeq(Append(typed, c)) = Append(CookedSeq(typed), Cooked(c))
        /\ Cooked(c) \in Char
    BY <1>1, CookedFacts
  <2>b. CookedSeq(uart)' = CookedSeq(Append(uart, c)) /\ CookedSeq(typed)' = CookedSeq(Append(typed, c))
    BY <2>1 DEF CookedSeq
  <2>2. /\ CookedSeq(uart)' = Append(CookedSeq(uart), Cooked(c))
        /\ CookedSeq(typed)' = Append(CookedSeq(typed), Cooked(c))
        /\ Cooked(c) \in Char
    BY <2>a, <2>b
  <2>3. consumed \o buf \o Append(CookedSeq(uart), Cooked(c))
          = Append(consumed \o buf \o CookedSeq(uart), Cooked(c))
    BY <1>1, <2>2, AppendBehind
  <2> QED BY <2>1, <2>2, <2>3 DEF InputInOrder
<1>4. ASSUME ExternalInterrupt, ~NoRoom(1) PROVE InputInOrder'
  <2>1. /\ uart # <<>> /\ uart' = Tail(uart) /\ buf' = Append(buf, Cooked(Head(uart)))
        /\ typed' = typed /\ consumed' = consumed
    BY <1>4 DEF ExternalInterrupt, PushChar
  <2>2. /\ CookedSeq(uart)' = Tail(CookedSeq(uart)) /\ CookedSeq(typed)' = CookedSeq(typed)
        /\ Cooked(Head(uart)) = Head(CookedSeq(uart)) /\ Cooked(Head(uart)) \in Char
        /\ CookedSeq(uart) # <<>>
    BY <1>1, <2>1, CookedFacts, SMTT(30) DEF CookedSeq
  <2>3. consumed \o buf' = Append(consumed \o buf, Head(CookedSeq(uart)))
    BY <1>1, <2>1, <2>2, AppendBehind, SMTT(30)
  <2>4. Append(consumed \o buf, Head(CookedSeq(uart))) \o Tail(CookedSeq(uart))
          = consumed \o buf \o CookedSeq(uart)
    BY <1>1, <2>2, MoveFirst
  <2> QED BY <2>1, <2>2, <2>3, <2>4 DEF InputInOrder
<1>5. ASSUME PopChar PROVE InputInOrder'
  <2>1. /\ buf # <<>> /\ buf' = Tail(buf) /\ consumed' = Append(consumed, Head(buf))
        /\ uart' = uart /\ typed' = typed
    BY <1>5 DEF PopChar, devVars
  <2>2. Append(consumed, Head(buf)) \o Tail(buf) = consumed \o buf
    BY <1>1, <2>1, MoveFirst
  <2> QED BY <2>1, <2>2 DEF InputInOrder, CookedSeq
<1>6. ASSUME Stop PROVE InputInOrder'
  BY <1>6, <1>2 DEF Stop, devVars, inVars
<1>7. CASE TimerFires \/ RunCPU \/ Disable \/ AcquireFromPool \/ AcquireNothing \/ SwitchToThread
  BY <1>7, <1>2 DEF TimerFires, RunCPU, Disable, AcquireFromPool, AcquireNothing, SwitchToThread,
     devVars, inVars
<1>8. CASE RetrieveToPool \/ Enable \/ Wfi \/ TimerInterrupt \/ SysRead \/ SysExit \/ SysFile
  BY <1>8, <1>2 DEF RetrieveToPool, Enable, Wfi, TimerInterrupt, SysRead, SysExit, SysFile, devVars, inVars
<1>9. CASE ExternalInterrupt
  BY <1>9, <1>4, <1>6 DEF ExternalInterrupt
<1>10. CASE WaitChar
  BY <1>10, <1>2, <1>6 DEF WaitChar, devVars
<1>11. CASE SysExec
  BY <1>11, <1>2, <1>6 DEF SysExec, devVars, inVars
<1>12. CASE SysStop \/ Halted \/ UNCHANGED vars
  BY <1>12, <1>2, <1>6 DEF SysStop, Halted, vars, devVars, inVars
<1> QED BY <1>3, <1>5, <1>7, <1>8, <1>9, <1>10, <1>11, <1>12 DEF Next, Idle, Trap

\* What was typed is read once and in order, whoever reads and whenever the
\* interrupts come, for any number of characters.
THEOREM InputIsKept == Spec => []InputInOrder
<1>1. Init => InputInOrder
  <2> SUFFICES ASSUME Init PROVE InputInOrder
    OBVIOUS
  <2>1. uart = <<>> /\ typed = <<>> /\ buf = <<>> /\ consumed = <<>>
    BY DEF Init
  <2>2. CookedSeq(<<>>) \in Seq(Char) /\ Len(CookedSeq(<<>>)) = 0
    BY DEF CookedSeq
  <2> QED BY <2>1, <2>2 DEF InputInOrder
<1>2. IInv => TypeOK
  BY DEF IInv
<1> QED BY <1>1, <1>2, StepInput, KernelInvariant, PTL DEF Spec
=============================================================================
