------------------------------- MODULE Kernel -------------------------------
(***************************************************************************)
(* Threads, interrupts and standard input of Moonix on its one hart:       *)
(* processor.c, threadpool.c, thread.c, switch.asm, condition.c, stdin.c,  *)
(* interrupt.c, interrupt.asm, timer.c and the control flow of syscall.c.  *)
(*                                                                         *)
(* pc is where the hart is.  Code that runs with interrupts disabled and   *)
(* ends at a switchThread or at the return from a trap is one step: only   *)
(* the devices move meanwhile.  Where interrupts are enabled (sie, or user *)
(* mode) a pending one is taken before the next instruction, so the        *)
(* ordinary steps of the hart are guarded by ~TrapReady.                   *)
(*                                                                         *)
(* A saved context (contextAddr) is represented by the place its owner     *)
(* continues at; NULL is the 0 that switch.asm leaves behind in a context  *)
(* it has resumed.  Queues are sequences (module Queue), the scheduler is  *)
(* module Scheduler.  Kernel stacks, queue nodes and the copy of the file  *)
(* that exec loads come from one heap, counted in queue nodes.             *)
(*                                                                         *)
(* System calls that change nothing modelled here (ls, pwd, write, a cd or *)
(* exec that finds no suitable inode), the breakpoint trap and a failed    *)
(* consoleGetchar are stuttering steps.                                    *)
(***************************************************************************)
EXTENDS Scheduler, FiniteSets

CONSTANTS HeapSize,     \* the size of the heap in queue nodes
          StackSize,    \* of a kernel stack, KERNEL_STACK_SIZE
          FileSize,     \* and of an executable
          MaxStack,     \* kernel stacks the empty heap has room for
          Char,         \* characters the user may type
          MaxTyped,     \* bound: how many characters are typed
          Files         \* contents of a process's file table (opaque)

ASSUME KernelAssumption == /\ MaxStack \in Nat \ {0, 1}
                           /\ StackSize \in Nat \ {0} /\ FileSize \in Nat
                           /\ MaxTyped \in Nat
                           /\ Files # {}
                           /\ {"CR", "LF"} \subseteq Char

ASSUME RoomAssumption ==
  HeapSize \in MaxStack * StackSize .. (MaxStack + 1) * StackSize - 1

VARIABLES
  pc, sie,                  \* the hart: where it is, and sstatus.SIE
  timer, uart,              \* devices: the timer, the characters received
  status, occupied, thread, \* CPU.pool.threads[]
  cur, busy, idleCtx,       \* CPU.current, CPU.occupied, CPU.idle.contextAddr
  buf, waitQueue,           \* STDIN.buf, STDIN.pushed.waitQueue
  stacks,                   \* the kernel stacks that are allocated
  typed, consumed,          \* history: characters typed, characters read
  live, own                 \* history: threads that exist; what each left behind

cpuVars  == <<cur, busy, idleCtx>>
poolVars == <<status, occupied, thread>>
devVars  == <<timer, uart, typed>>
inVars   == <<buf, waitQueue, consumed>>
vars == <<pc, sie, devVars, poolVars, cpuVars, inVars, stacks, live, own, schedVars>>

NULL      == "null"
Stack     == 0 .. MaxStack - 1
IdleStack == 0
Status    == {"Ready", "Running", "Sleeping"}
ThreadCtx == {NULL, "new", "tick", "popChar", "exec", "exit"}
Thread    == [ctx : ThreadCtx, kstack : Stack, files : Files, wait : Tid \cup {NoTid}]

IdlePc   == {"idleMain", "acquire", "switch", "retrieve", "enable", "wfi", "stalled", "disable"}
ThreadPc == {"user", "popChar"}

InQueue(q, t) == \E i \in 1 .. Len(q) : q[i] = t
LeastFree(occ) == CHOOSE t \in Tid : ~occ[t] /\ \A u \in 0 .. t - 1 : occ[u]
-----------------------------------------------------------------------------
(* switchThread saves the caller's context and continues in the target's.  *)

\* Where a saved context continues.  The context 0 continues nowhere known.
ResumeAt(ctx) ==
  CASE ctx = NULL -> "wild"
    [] ctx = "popChar" -> "popChar"
    [] ctx = "switched" -> "retrieve"
    [] ctx = "idle" -> "idleMain"
    [] OTHER -> "user"

\* From the current thread, at place ctx, back to idle.  The handlers that
\* get here run with interrupts disabled, and so does idle from here on.
SwitchToIdle(ctx) ==
  /\ pc' = ResumeAt(idleCtx)
  /\ sie' = FALSE
  /\ idleCtx' = NULL
  /\ cur' = [cur EXCEPT !.thread.ctx = ctx]

\* yieldCPU, in code that left the statuses st: the current thread goes to
\* sleep.  (It does nothing when CPU.occupied is 0, which no thread that runs
\* sees.)
YieldCPU(st, ctx) ==
  /\ busy
  /\ status' = [st EXCEPT ![cur.tid] = "Sleeping"]
  /\ SwitchToIdle(ctx)

\* History: the current thread stops at place ctx.
Leave(ctx) == own' = [own EXCEPT ![cur.tid].ctx = ctx]

\* wakeupCPU, whatever state the thread is in; the mutant leaves its status.
WakeupSilently(tid) == UNCHANGED status /\ Push(tid)
WakeupCPU(tid)      == status' = [status EXCEPT ![tid] = "Ready"] /\ Push(tid)

\* A thread that starts in user mode, on kernel stack k, with whatever its file
\* table happens to hold.
NewUserThread(k, files, host) == [ctx |-> "new", kstack |-> k, files |-> files, wait |-> host]

\* panic and shutdown do not return.
Stop ==
  /\ pc' = "halted"
  /\ UNCHANGED <<sie, devVars, poolVars, cpuVars, inVars, stacks, live, own, schedVars>>
-----------------------------------------------------------------------------
(* The state in which main calls runCPU: initThread has added the thread   *)
(* of /bin/sh and initTimer has enabled interrupts.  newThreadPool returns *)
(* an uninitialised ThreadPool and newUserThread leaves most of fdOccupied *)
(* unset, so the slots marked as occupied and the shell's file table are   *)
(* arbitrary.                                                              *)

Init ==
  \E garbage \in SUBSET Tid, files \in Files :
    LET occ == [t \in Tid |-> t \in garbage]
        sh  == LeastFree(occ)
        new == NewUserThread(1, files, NoTid)
        any == [new EXCEPT !.ctx = NULL]
    IN  /\ garbage # Tid
        /\ pc = "boot" /\ sie = TRUE
        /\ timer = "armed" /\ uart = <<>>
        /\ status = [t \in Tid |-> "Ready"]
        /\ occupied = [occ EXCEPT ![sh] = TRUE]
        /\ thread = [t \in Tid |-> IF t = sh THEN new ELSE any]
        /\ cur = [tid |-> 0, thread |-> any]
        /\ busy = FALSE /\ idleCtx = "idle"
        /\ ready = <<sh>>
        /\ time = [t \in Tid |-> IF t = sh THEN MaxTime ELSE 0]
        /\ running = NoTid
        /\ buf = <<>> /\ waitQueue = <<>>
        /\ stacks = {IdleStack, 1}
        /\ typed = <<>> /\ consumed = <<>>
        /\ live = {sh}
        /\ own = [t \in Tid |-> thread[t]]
-----------------------------------------------------------------------------
(* The devices.                                                            *)

TimerFires ==
  /\ timer = "armed"
  /\ timer' = "pending"
  /\ UNCHANGED <<pc, sie, uart, typed, poolVars, cpuVars, inVars, stacks, live, own, schedVars>>

Type(c) ==
  /\ Len(typed) < MaxTyped
  /\ uart' = Append(uart, c)
  /\ typed' = Append(typed, c)
  /\ UNCHANGED <<pc, sie, timer, poolVars, cpuVars, inVars, stacks, live, own, schedVars>>

TrapReady == /\ pc = "user" \/ sie
             /\ pc # "halted"
             /\ timer = "pending" \/ uart # <<>>
-----------------------------------------------------------------------------
(* The boot thread and idleMain.                                           *)

RunCPU ==
  /\ pc = "boot" /\ ~TrapReady
  /\ pc' = ResumeAt(idleCtx)
  /\ idleCtx' = NULL
  /\ UNCHANGED <<sie, devVars, poolVars, cur, busy, inVars, stacks, live, own, schedVars>>

\* disable_and_store; the mutant leaves interrupts enabled.
SieUntouched == sie' = sie
ClearSie     == sie' = FALSE

\* Before the loop of idleMain, and at the end of its else branch.
Disable ==
  /\ pc \in {"idleMain", "disable"} /\ ~TrapReady
  /\ pc' = "acquire" /\ ClearSie
  /\ UNCHANGED <<devVars, poolVars, cpuVars, inVars, stacks, live, own, schedVars>>

AcquireFromPool ==
  /\ pc = "acquire" /\ ~TrapReady
  /\ ready # <<>>
  /\ Pop
  /\ status' = [status EXCEPT ![Head(ready)] = "Running"]
  /\ cur' = [tid |-> Head(ready), thread |-> thread[Head(ready)]]
  /\ busy' = TRUE
  /\ pc' = "switch"
  /\ UNCHANGED <<sie, devVars, occupied, thread, idleCtx, inVars, stacks, live, own, time>>

AcquireNothing ==
  /\ pc = "acquire" /\ ~TrapReady
  /\ ready = <<>>
  /\ pc' = "enable"
  /\ UNCHANGED <<sie, devVars, poolVars, cpuVars, inVars, stacks, live, own, schedVars>>

\* switchThread(&CPU.idle, &CPU.current.thread).  A thread that continues in
\* user mode got there by sret, which sets SIE.
SwitchToThread ==
  /\ pc = "switch" /\ ~TrapReady
  /\ pc' = ResumeAt(cur.thread.ctx)
  /\ sie' = (pc' = "user")
  /\ idleCtx' = "switched"
  /\ cur' = [cur EXCEPT !.thread.ctx = NULL]
  /\ UNCHANGED <<devVars, poolVars, busy, inVars, stacks, live, own, schedVars>>

\* The pool's copy of a thread that came back; the mutant keeps the old file
\* table.
SaveForgets(tid) == thread' = [thread EXCEPT ![tid].ctx = cur.thread.ctx]
Save(tid)        == thread' = [thread EXCEPT ![tid] = cur.thread]

\* A thread that lost the hart to the timer is queued again, one that went to
\* sleep is not.
Requeue(tid) ==
  IF status[tid] = "Running"
    THEN status' = [status EXCEPT ![tid] = "Ready"] /\ Push(tid)
    ELSE UNCHANGED <<status, ready, time>>

\* The stack of a thread that exited is freed; the mutant leaks it.
LeakStack(tid) == UNCHANGED stacks
FreeStack(tid) == stacks' = stacks \ {thread[tid].kstack}

RetrieveToPool ==
  LET tid == cur.tid
  IN  /\ pc = "retrieve" /\ ~TrapReady
      /\ pc' = "acquire"
      /\ busy' = FALSE
      /\ \/ /\ ~occupied[tid]
            /\ FreeStack(tid)
            /\ UNCHANGED <<thread, status, ready, time>>
         \/ /\ occupied[tid]
            /\ Save(tid)
            /\ Requeue(tid)
            /\ UNCHANGED stacks
      /\ UNCHANGED <<sie, devVars, occupied, cur, idleCtx, inVars, live, own, running>>

\* enable_and_wfi is two instructions: an interrupt that is pending, or comes
\* between them, is taken before wfi, which then waits for another one.
Enable ==
  /\ pc = "enable" /\ ~TrapReady
  /\ pc' = "wfi" /\ sie' = TRUE
  /\ UNCHANGED <<devVars, poolVars, cpuVars, inVars, stacks, live, own, schedVars>>

Wfi ==
  /\ pc = "wfi" /\ ~TrapReady
  /\ pc' = "stalled"
  /\ UNCHANGED <<sie, devVars, poolVars, cpuVars, inVars, stacks, live, own, schedVars>>
-----------------------------------------------------------------------------
(* The interrupt handlers.                                                 *)

\* The instruction after the trap: wfi is over once an interrupt ended it.
TrapReturn == IF pc = "stalled" THEN "disable" ELSE pc

\* setTimeout; the mutant forgets it, and the interrupt stays pending.
NoTimeout  == UNCHANGED timer
SetTimeout == timer' = "armed"

\* supervisorTimer: tick arms the timer again, tickCPU charges the running
\* thread and takes the hart away from it when its slice is used up.  Of two
\* pending interrupts RISC-V takes the external one first.
TimerInterrupt ==
  /\ TrapReady /\ timer = "pending" /\ uart = <<>>
  /\ SetTimeout
  /\ \/ /\ ~busy
        /\ pc' = TrapReturn
        /\ UNCHANGED <<sie, cur, idleCtx, own, time>>
     \/ /\ busy
        /\ Tick
        /\ \/ TickExpires /\ SwitchToIdle("tick") /\ Leave("tick")
           \/ ~TickExpires /\ pc' = TrapReturn /\ UNCHANGED <<sie, cur, idleCtx, own>>
  /\ UNCHANGED <<uart, typed, poolVars, busy, inVars, stacks, live, ready, running>>

\* kalloc has no room for n more units.
InUse == StackSize * Cardinality(stacks) + Len(buf) + Len(waitQueue)
NoRoom(n) == InUse + n > HeapSize

\* What external makes of the character the UART delivers.
Cooked(c) == IF c = "CR" THEN "LF" ELSE c

\* notifyCondition; the mutants wake nobody, or leave the thread they wake in
\* the wait queue.
NotifyNobody == UNCHANGED <<waitQueue, status, ready, time>>
NotifyKeepsWaiter ==
  /\ UNCHANGED waitQueue
  /\ IF waitQueue = <<>>
       THEN UNCHANGED <<status, ready, time>>
       ELSE WakeupCPU(Head(waitQueue))
NotifyCondition ==
  \/ waitQueue = <<>> /\ UNCHANGED <<waitQueue, status, ready, time>>
  \/ /\ waitQueue # <<>>
     /\ waitQueue' = Tail(waitQueue)
     /\ WakeupCPU(Head(waitQueue))

\* pushChar puts the character in the buffer and wakes a waiting thread; the
\* mutant drops a character nobody waits for.
PushCharIfAwaited(c) ==
  /\ buf' = IF waitQueue = <<>> THEN buf ELSE Append(buf, c)
  /\ NotifyCondition
PushChar(c) ==
  /\ buf' = Append(buf, c)
  /\ NotifyCondition

ExternalInterrupt ==
  /\ TrapReady /\ uart # <<>>
  /\ \/ NoRoom(1) /\ Stop
     \/ /\ ~NoRoom(1)
        /\ uart' = Tail(uart)
        /\ PushChar(Cooked(Head(uart)))
        /\ pc' = TrapReturn
        /\ UNCHANGED <<sie, timer, typed, occupied, thread, cpuVars, consumed, stacks, live,
                       own, running>>
-----------------------------------------------------------------------------
(* System calls, made by the current thread in user mode.                  *)

InUser == pc = "user" /\ ~TrapReady

\* sysRead calls popChar, whose loop is PopChar and WaitChar below.
SysRead ==
  /\ InUser
  /\ pc' = "popChar" /\ sie' = FALSE
  /\ UNCHANGED <<devVars, poolVars, cpuVars, inVars, stacks, live, own, schedVars>>

PopChar ==
  /\ pc = "popChar" /\ buf # <<>>
  /\ buf' = Tail(buf)
  /\ consumed' = Append(consumed, Head(buf))
  /\ pc' = "user" /\ sie' = TRUE
  /\ UNCHANGED <<devVars, poolVars, cpuVars, waitQueue, stacks, live, own, schedVars>>

\* waitCondition: the current thread queues itself and yields.
WaitChar ==
  /\ pc = "popChar" /\ buf = <<>>
  /\ \/ NoRoom(1) /\ Stop
     \/ /\ ~NoRoom(1)
        /\ waitQueue' = Append(waitQueue, cur.tid)
        /\ YieldCPU(status, "popChar") /\ Leave("popChar")
        /\ UNCHANGED <<devVars, occupied, thread, busy, buf, consumed, stacks, live, schedVars>>

\* addToPool, but for the status.
AddToPool(tid, new) ==
  /\ occupied' = [occupied EXCEPT ![tid] = TRUE]
  /\ thread' = [thread EXCEPT ![tid] = new]
  /\ Push(tid)

\* executeCPU makes a thread of the file and adds it to the pool.
ExecuteCPU(child, new) ==
  /\ stacks' = stacks \cup {new.kstack}
  /\ AddToPool(child, new)
  /\ live' = live \cup {child}
  /\ own' = [own EXCEPT ![cur.tid].ctx = "exec", ![child] = new]

\* The host sleeps until the new thread exits.  The executable is in the heap
\* until the thread has been made; without room for it and a stack, or without
\* a free slot, the kernel stops.
NoChild == NoRoom(FileSize + StackSize) \/ \A t \in Tid : occupied[t]
SysExec ==
  /\ InUser
  /\ \/ NoChild /\ Stop
     \/ \E k \in Stack \ stacks, files \in Files :
          LET child == LeastFree(occupied)
          IN  /\ ~NoChild
              /\ ExecuteCPU(child, NewUserThread(k, files, cur.tid))
              /\ YieldCPU([status EXCEPT ![child] = "Ready"], "exec")
              /\ UNCHANGED <<devVars, busy, inVars, running>>

\* exitFromCPU wakes the thread that waits for this one; the mutant does not.
WakeNoHost == UNCHANGED <<status, ready, time>>
WakeHost ==
  \/ cur.thread.wait = NoTid /\ UNCHANGED <<status, ready, time>>
  \/ /\ cur.thread.wait # NoTid
     /\ WakeupCPU(cur.thread.wait)

ExitFromPool(tid) == occupied' = [occupied EXCEPT ![tid] = FALSE] /\ Exit(tid)

\* The stack the thread is running on stays allocated until RetrieveToPool.
SysExit ==
  /\ InUser
  /\ ExitFromPool(cur.tid)
  /\ WakeHost
  /\ SwitchToIdle("exit") /\ Leave("exit")
  /\ live' = live \ {cur.tid}
  /\ UNCHANGED <<devVars, thread, busy, inVars, stacks>>

\* open, close and cd change the file table in CPU.current, not in the pool.
SysFile ==
  /\ InUser
  /\ \E files \in Files :
       /\ cur' = [cur EXCEPT !.thread.files = files]
       /\ own' = [own EXCEPT ![cur.tid].files = files]
  /\ UNCHANGED <<pc, sie, devVars, poolVars, busy, idleCtx, inVars, stacks, live, schedVars>>

\* shutdown, a fault, an unknown system call, a file that is no ELF executable,
\* and running out of file descriptors or page frames stop the machine.
SysStop == InUser /\ Stop
-----------------------------------------------------------------------------
Idle == Disable \/ AcquireFromPool \/ AcquireNothing \/ SwitchToThread \/ RetrieveToPool
          \/ Enable \/ Wfi
Trap == TimerInterrupt \/ ExternalInterrupt

\* The hart is off, or panic and shutdown spin in place.
Halted == pc = "halted" /\ UNCHANGED vars

Next == \/ TimerFires \/ (\E c \in Char : Type(c))
        \/ RunCPU \/ Idle \/ Trap
        \/ SysRead \/ PopChar \/ WaitChar \/ SysExec \/ SysExit \/ SysFile \/ SysStop
        \/ Halted

Spec == Init /\ [][Next]_vars

\* The timer fires whenever it is armed and a pending interrupt is taken.  The
\* hart keeps executing: INTERVAL is far longer than an instruction, so the
\* timer cannot keep it from ever finishing one.  What a user program does
\* next is up to the program, and nothing is assumed of it or of the typist.
Fairness == /\ WF_vars(TimerFires)
            /\ WF_vars(Trap)
            /\ SF_vars(RunCPU \/ Idle)
            /\ SF_vars(PopChar \/ WaitChar)

FairSpec == Spec /\ Fairness
-----------------------------------------------------------------------------
\* Types of the state; in particular no slice leaves 0 .. MaxTime, where the
\* code's unsigned counter would wrap around.
TypeOK ==
  /\ pc \in IdlePc \cup ThreadPc \cup {"boot", "halted", "wild"}
  /\ sie \in BOOLEAN
  /\ timer \in {"armed", "pending"}
  /\ uart \in Seq(Char) /\ typed \in Seq(Char)
  /\ buf \in Seq(Char) /\ consumed \in Seq(Char) /\ waitQueue \in Seq(Tid)
  /\ status \in [Tid -> Status] /\ occupied \in [Tid -> BOOLEAN] /\ thread \in [Tid -> Thread]
  /\ cur \in [tid : Tid, thread : Thread] /\ busy \in BOOLEAN
  /\ idleCtx \in {NULL, "idle", "switched"}
  /\ ready \in Seq(Tid) /\ time \in [Tid -> 0 .. MaxTime] /\ running \in Tid \cup {NoTid}
  /\ stacks \subseteq Stack
  /\ live \subseteq Tid /\ own \in [Tid -> Thread]

\* The scheduler's queue holds exactly the threads that are ready, each once.
\* wakeupCPU and retrieveToPool push without looking: no order of interrupts,
\* reads, execs and exits makes them queue a thread a second time (which
\* would corrupt the linked list of rrscheduler.c), leave a ready thread out,
\* or queue one that has exited.
ReadyIsQueued ==
  /\ \A i, j \in 1 .. Len(ready) : ready[i] = ready[j] => i = j
  /\ \A t \in Tid : Queued(t) <=> t \in live /\ status[t] = "Ready"

IsHost(t) == \E c \in live : thread[c].wait = t

\* A sleeping thread is sure to be woken by somebody: it is either in the wait
\* queue of standard input, once, or the host of exactly one running process.
\* Nobody else will be woken by the next character or exit.
SleeperIsAwaited ==
  /\ \A i, j \in 1 .. Len(waitQueue) : waitQueue[i] = waitQueue[j] => i = j
  /\ \A t \in Tid : InQueue(waitQueue, t) \/ IsHost(t) => t \in live /\ status[t] = "Sleeping"
  /\ \A t \in live : status[t] = "Sleeping" => (InQueue(waitQueue, t) # IsHost(t))
  /\ \A c, d \in live : thread[c].wait = thread[d].wait => c = d

\* One process at a time: sysExec suspends the host until the program it
\* started exits, so at most one thread is ready, running or reading.
Active(t) == status[t] # "Sleeping" \/ InQueue(waitQueue, t)
OneActive == \A t, u \in live : Active(t) /\ Active(u) => t = u

\* The comments in popChar: a thread that was woken finds a character, so its
\* second pass through the loop returns.
WokenReaderFindsChar ==
  /\ \A t \in live : status[t] = "Ready" /\ thread[t].ctx = "popChar" => buf # <<>>
  /\ pc = "switch" /\ cur.thread.ctx = "popChar" => buf # <<>>

\* A thread in user mode is the one the scheduler charges, and has a tick left:
\* the decrement of the unsigned time in schedulerTick never passes zero.
SliceIsCharged ==
  pc = "user" => running = cur.tid /\ time[cur.tid] \in 1 .. MaxTime

\* Kernel stacks are neither leaked nor freed under a running thread: the
\* allocated ones are idle's, one for each thread, and that of a thread that
\* has exited and is still on the hart.
ExitedOnHart == busy /\ cur.tid \notin live
StacksAreOwned ==
  /\ stacks = {IdleStack} \cup {thread[t].kstack : t \in live}
                \cup (IF ExitedOnHart THEN {cur.thread.kstack} ELSE {})
  /\ ExitedOnHart => cur.thread.kstack # IdleStack
  /\ \A t \in live : /\ thread[t].kstack # IdleStack
                     /\ ExitedOnHart => thread[t].kstack # cur.thread.kstack
                     /\ \A u \in live : thread[t].kstack = thread[u].kstack => t = u

\* The Thread structure is copied from the pool to CPU.current and back.  A
\* thread continues where it stopped, on its stack and with the files it had:
\* the copy in the pool is current whenever the thread is not on the hart.
ThreadIsWhereItLeft ==
  \A t \in live :
    IF busy /\ cur.tid = t
      THEN /\ cur.thread.files = own[t].files
           /\ cur.thread.ctx # NULL => cur.thread.ctx = own[t].ctx
      ELSE thread[t] = own[t]

\* switchThread never resumes a context that was resumed before and not saved
\* since: switch.asm sets the contextAddr of the target to 0.
NoWildSwitch == pc # "wild"

\* The characters read, buffered and not yet fetched are those typed, in order
\* and with carriage returns turned into line feeds: none is lost or repeated
\* whether or not a thread waits when it arrives.
CookedSeq(s) == [i \in 1 .. Len(s) |-> Cooked(s[i])]
InputInOrder == consumed \o buf \o CookedSeq(uart) = CookedSeq(typed)

OnHart(t) == busy /\ cur.tid = t /\ pc \in ThreadPc

\* A ready thread gets the hart, also when it was woken by an interrupt that
\* came between the instructions of enable_and_wfi.
ReadyRuns == \A t \in Tid : Queued(t) ~> OnHart(t) \/ pc = "halted"

\* A thread that waits for input returns from its read once a key is pressed.
ReaderReturns ==
  \A t \in Tid : InQueue(waitQueue, t) /\ uart # <<>>
                   ~> (OnHart(t) /\ pc = "user") \/ pc = "halted"
-----------------------------------------------------------------------------
(* The inductive invariant: what the safety properties above rest on.      *)

\* Where the hart may be with interrupts enabled, whether a thread has it, and
\* that there is an idle context to go back to.
HartOK ==
  /\ sie => pc \notin {"acquire", "switch", "retrieve", "enable", "popChar"}
  /\ pc \in {"boot", "idleMain", "acquire", "enable", "wfi", "stalled", "disable"} => ~busy
  /\ pc \in {"switch", "retrieve", "user", "popChar"} => busy
  /\ pc = "boot" => idleCtx = "idle"
  /\ pc \in ThreadPc => idleCtx = "switched"
  /\ NoWildSwitch

Resumable == {"new", "tick", "popChar", "exec"}

\* The copy in CPU.current against the pool's slot.
CurOK ==
  /\ busy => /\ cur.thread.kstack = thread[cur.tid].kstack
             /\ cur.thread.wait = thread[cur.tid].wait
             /\ occupied[cur.tid] <=> cur.tid \in live
  /\ busy /\ cur.tid \in live => /\ own[cur.tid].kstack = thread[cur.tid].kstack
                                 /\ own[cur.tid].wait = thread[cur.tid].wait
  /\ pc \in {"switch", "user", "popChar"} =>
       /\ cur.tid \in live /\ status[cur.tid] = "Running"
       /\ running = cur.tid /\ time[cur.tid] > 0
  /\ pc = "switch" => cur.thread.ctx \in Resumable
  /\ pc = "retrieve" /\ cur.tid \in live =>
       /\ cur.thread.ctx \in Resumable /\ status[cur.tid] # "Ready"
       /\ cur.thread.ctx = "popChar" => status[cur.tid] = "Sleeping" /\ ~IsHost(cur.tid)

\* A live thread has a slot, and is Running only on the hart.
LiveOK == \A t \in live : occupied[t] /\ (status[t] = "Running" => busy /\ cur.tid = t)

\* A queued thread has a tick left.
SliceOK == \A t \in Tid : Queued(t) => time[t] > 0

\* A live thread that is not on the hart can be resumed, and one that waits
\* for a child will not be resumed in popChar.
CtxOK ==
  \A t \in live : (busy => cur.tid # t) =>
    /\ thread[t].ctx \in Resumable
    /\ IsHost(t) => thread[t].ctx # "popChar"

IInv == /\ TypeOK /\ HartOK /\ CurOK /\ LiveOK /\ SliceOK /\ CtxOK
        /\ ReadyIsQueued /\ SleeperIsAwaited /\ OneActive /\ WokenReaderFindsChar
        /\ StacksAreOwned /\ ThreadIsWhereItLeft
=============================================================================
