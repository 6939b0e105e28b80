------------------------------ MODULE Scheduler ------------------------------
(***************************************************************************)
(* What the scheduling algorithm behind the Scheduler interface of         *)
(* kernel/thread.h promises to the thread pool: a FIFO queue of ready      *)
(* threads, a remaining time slice per thread, and the thread the slice is *)
(* charged to.  Module RRScheduler, the linked list of rrscheduler.c,      *)
(* implements this specification; module Kernel is written against it.     *)
(*                                                                         *)
(* Push, Pop, Tick and Exit say what one call does to the variables it may *)
(* change and nothing about the others, so that Kernel can make several of *)
(* these calls in one of its own steps.  The guards in Next are the        *)
(* contract of the interface: which calls a client may make.               *)
(***************************************************************************)
EXTENDS Integers, Sequences

CONSTANTS MaxThread,    \* MAX_THREAD, the number of slots of the thread pool
          MaxTime       \* rrScheduler.maxTime, the ticks of a time slice

ASSUME SchedulerAssumption == /\ MaxThread \in Nat \ {0}
                              /\ MaxTime \in Nat \ {0}

VARIABLES ready,        \* the queue of ready threads, first to run first
          time,         \* ticks left to each thread
          running       \* the thread whose slice is being used, or NoTid

schedVars == <<ready, time, running>>

Tid   == 0 .. MaxThread - 1
NoTid == -1

Queued(tid) == \E i \in 1 .. Len(ready) : ready[i] = tid

SchedulerInit ==
  /\ ready = <<>>
  /\ time = [t \in Tid |-> 0]
  /\ running = NoTid

\* A thread whose slice is used up gets a new one when it is queued again.
PushForgetsSlice(tid) ==
  /\ ready' = Append(ready, tid)
  /\ time' = time

Push(tid) ==
  /\ ready' = Append(ready, tid)
  /\ time' = [time EXCEPT ![tid] = IF @ = 0 THEN MaxTime ELSE @]

PopKeepsRunning ==
  /\ ready' = Tail(ready)
  /\ UNCHANGED running

Pop ==
  /\ ready' = Tail(ready)
  /\ running' = Head(ready)

\* Whether the coming tick ends the running thread's slice.
TickExpires == running = NoTid \/ time[running] = 1

Tick ==
  time' = IF running = NoTid THEN time
                             ELSE [time EXCEPT ![running] = @ - 1]

Exit(tid) == running' = IF running = tid THEN NoTid ELSE running

\* The contract: a queued thread is not pushed again, and a thread that has
\* no tick left is not charged another one.
MayPush(tid) == ~Queued(tid)
MayTick      == running # NoTid => time[running] > 0

SchedulerNext ==
  \/ \E tid \in Tid : MayPush(tid) /\ Push(tid) /\ UNCHANGED running
  \/ ready # <<>> /\ Pop /\ UNCHANGED time
  \/ MayTick /\ Tick /\ UNCHANGED <<ready, running>>
  \/ \E tid \in Tid : Exit(tid) /\ UNCHANGED <<ready, time>>

SchedulerSpec == SchedulerInit /\ [][SchedulerNext]_schedVars
=============================================================================
