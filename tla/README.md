# A TLA+ specification of Moonix

Moonix (`src/`) is a small teaching kernel for one RISC-V hart: it boots on
OpenSBI, maps itself, starts `/bin/sh` from a file system image linked into the
kernel, and switches between processes by a timer. This directory holds TLA+
modules that model its core, TLC configurations that check them on small
instances, and TLAPS proofs of the results that matter most. `PROJECT.json` lists
components, runs, mutants, the source lines every definition models, hazards and
theorems.

## Inventory

| Component | State | Operations | What makes it correct |
|---|---|---|---|
| Round-robin scheduler (`kernel/rrscheduler.c`) | array of list entries with `next`, `prev`, `valid`, `time`; `current` | push, pop, tick, exit | the circular list holds exactly the pushed threads in order; slices never underflow; nobody starves |
| Thread pool and processor (`threadpool.c`, `processor.c`, `thread.c`, `switch.asm`) | slots with `status`, `occupied` and a copy of `Thread`; `CPU.current`, `CPU.occupied`, `CPU.idle` | add, acquire, retrieve, tick, exit, yield, wake up, exec, context switch | a ready thread is queued once; a sleeper is awaited by somebody; contexts are resumed once; stacks are freed when nobody is on them; the two copies of `Thread` agree when it matters |
| Interrupts and timer (`interrupt.c`, `interrupt.asm`, `timer.c`, `riscv.h`) | `sstatus.SIE`, pending timer, UART | timer, external, syscall, breakpoint, fault | critical sections are not interrupted; a wake-up just before `wfi` is not lost for ever |
| Standard input and conditions (`stdin.c`, `condition.c`) | character queue, wait queue | `pushChar`, `popChar`, wait, notify | characters are read once, in order; a woken reader finds one |
| Queues (`queue.c`) | nodes on the heap | `pushBack`, `popFront`, `isEmpty` | pointers stay well formed while nodes are recycled; FIFO; no leak |
| Page frames (`memory.c`) | segment tree | new, alloc, dealloc | no frame twice; a panic only when nothing is left |
| Kernel heap (`heap.c`), user heap (`user/malloc.c`) | buddy tree | alloc, free | disjoint aligned blocks, byte by byte; exact bookkeeping; merging |
| System calls and descriptors (`syscall.c`, `thread.c`, `file.h`) | file table of `CPU.current`: `oFile`, `fdOccupied` | read, write, open, close, cd, ls, pwd, exec, exit, shutdown | the table of a process survives its context switches; no descriptor twice; paths mean what they mean on the host |
| Page tables (`mapping.c`), ELF loader (`elf.c`) | page tables, segments | map, copy, unmap nothing | disjoint frames; the image is where the program expects it |
| File system (`fs.c`) and image builder (`mkfs/mksfs.c`) | the image: super block, free map, inodes, items, data | lookup, readall, path, ls; build | the reader finds what was on the host; no block is used twice |
| Shell (`user/sh.c`) | line buffer | line editing, dispatch | the buffer is what the screen shows, and is never overrun; the shell does what was typed |

The components interact by calls only. `tickCPU`, `exitFromCPU` and `yieldCPU` end
in `switchThread` to the idle thread, whose loop takes the next thread from the
pool (which pops the scheduler) and gives the previous one back (which pushes
it). `external` calls `pushChar`, which may wake a thread. Queues, stacks of
threads and page-table records come from the kernel heap. `mksfs` runs on the host before the kernel is linked;
what it wrote is read by `lookup` on behalf of every call that takes a path.

What is hard in this code is listed under `hazards` in `PROJECT.json`, each at its line:
interrupts between any two instructions of idle, and between the two
instructions of `enable_and_wfi`; copies of `Thread` that go stale; unconditional
pushes in `wakeupCPU`; contexts that may be resumed only once; pointer surgery at empty
lists; unsigned counters; resources at their limit; an image whose writer and reader are two
programs; a line buffer that is not always emptied; memory that is never
initialised.

## Modules

| Module | Models | Checked by | Proved in |
|---|---|---|---|
| `Scheduler` | what a scheduler promises: FIFO queue, slices, thread charged | through the two below | |
| `RRScheduler` | `rrscheduler.c`, the list; refines `Scheduler` | `rr_list` | `RRSchedulerProofs` |
| `Kernel` | threads, interrupts, standard input, control flow of system calls; extends `Scheduler` | `kernel_threads`, `kernel_liveness` | `KernelProofs` |
| `Fifo`, `Queue` | what queues promise; `queue.c`, the linked nodes | `queue` | `QueueProofs` |
| `FrameAllocator` | `memory.c`, every pass of every loop a step | `frames` | `FrameAllocatorProofs` |
| `Mapping`, `MCMapping` | `mapping.c` and `elf.c`, the page tables; small address spaces and programs | `mapping`, `elf_data_offset` | `MappingProofs` |
| `Allocator`, `Heap`, `MCHeap` | what heaps promise; the buddy tree of `heap.c` and of its copy `user/malloc.c`, every pass of every loop a step; their bit tricks | `heap` | `HeapProofs` |
| `HostTree` | the directory that is packed, and what paths mean in it | through the two below | |
| `SimpleFS` | `fs.c`, functions of an image | through `Mksfs` | |
| `Mksfs` | `mksfs.c`, building the image; extends `SimpleFS` and `HostTree` | `files`, `second_indirect`, `lookup_long_dir` | `FileTableProofs` |
| `Namespace` | what the calls on files promise; extends `HostTree` | through `FileTable` | |
| `FileTable`, `MCFileTable` | descriptors and the calls of `syscall.c` that use them; extends `Mksfs`, refines `Namespace`; small directories and paths | `files`, `lookup_long_dir` | `FileTableProofs` |
| `Shell`, `MCShell` | `user/sh.c` | `shell` | `ShellProofs` |

Composition: `Kernel` extends `Scheduler` and calls its operators inside its own
steps, so that the list of `RRScheduler` may stand in for it by refinement;
`Kernel`'s two input queues are sequences because `Queue` refines `Fifo`; `Mapping` takes
frames from `FrameAllocator` by its contract (`TakeIsFresh`, `PanicMeansFull`); `FileTable` runs on the images of `Mksfs`, and
takes from `Kernel` that a process finds its table as it left it (`ThreadIsWhereItLeft`).

**Kernel.** `pc` is where the hart is. The code between two points at which something
else can happen (an interrupt taken, a context switched) is one step. With
interrupts disabled only the devices move, so a handler with everything it
calls is one action. Where interrupts are enabled a pending one is taken first:
`~TrapReady` guards the ordinary steps. The loop of `idleMain` is split into
`Disable`, `AcquireFromPool`/`AcquireNothing`, `SwitchToThread`, `RetrieveToPool`, `Enable`
and `Wfi`, so that a missing `disable_and_store` would show (its mutant does).
`enable_and_wfi` is two instructions: an interrupt in between returns to `wfi`.
A saved context is the place its owner continues at; `switch.asm` stores 0 over the
context it resumes, which is `NULL`, and resuming `NULL` leads to `pc = "wild"`. `occupied`
is arbitrary in `Init`, because `newThreadPool` returns an uninitialised structure, except
that some slot is left for the shell (otherwise `allocTid` panics during boot).
`live` (threads that exist), `own` (what each thread left behind), `typed` and `consumed`
are history variables.

Some facts of the source that shaped the model: the leftover slice of a thread that
exits stays in its scheduler entry and is inherited by the next thread of
that slot; the PLIC is never claimed, so an external interrupt stays pending as
long as the UART holds a character; `yieldCPU` does nothing when `CPU.occupied` is 0,
which no running thread sees; the status `Exited` is never assigned; with 8 MB of
heap and 512 KB stacks about fifteen nested processes exhaust it. Stacks, queue nodes and the copy of the file that `executeCPU` loads (freed before the
new thread is queued) are counted against one heap (`InUse`, `NoRoom`, in units of a queue node); how it is laid out is the matter of `Heap`, so where fragmentation would
make `kalloc` fail earlier, `SysStop` stands for that.

**RRScheduler.** One function per field of the list entries. `order`, the threads pushed and not
yet popped, is a history variable and the queue of `Scheduler` under the mapping. `Next`
lets clients do what the contract of `Scheduler` allows: not push a queued thread, not
charge one without a tick left. That `Kernel` keeps that contract is `ReadyIsQueued`
and `SliceIsCharged` there.

**FrameAllocator.** The four loops of `newAllocator` (`Grow`, `Fill`, `FreeLeaf`, `Build`, each with a step for its end) and the walks down and up of `alloc` and
`dealloc`; `held` is a history variable. Two oddities of the code are in the model:
the last frame of the range is never handed out (the loop that frees the leaves ends
one early), and `deallocFrame`, although correct, has no caller.

**Queue.** The nodes of both input queues come from one heap and are handed out again
after `kfree`. `chain` (the nodes of each queue in order) is a history variable.

**Mapping.** One step is one level of `findEntry` or one page of a segment. An address space is built by
`newMapping`, the segments of `newKernelMapping`, and then either the device pages (`mapKernel`, at
boot) or the program headers of a file, of which those that are not LOAD are skipped, and the stack (`newUserMapping`, `newUserThread`). Building runs with
interrupts disabled, so address spaces are built one after the other. A frame has a table view (`entries`)
and a byte view (`bytes`), both cleared by `allocFrame`. An entry is a physical page with flags, the
number 0 is `None`; `role`, a history variable, says what a frame was taken for (a table of level 1 to 3, or a page); bytes are not given but named after the place in the file they come from. `Walk` is the
translation of the hart (SV39), written down independently of `findEntry`. Stores of user programs are not
modelled. Files whose segments share a page, or that are no executables, make the machine stop as in the code.

**Heap.** `buddyInit`, `buddyAlloc`, `buddyFree`, `kalloc` and `kfree`, every pass of a loop a step: `InitNode`, `InitDone`; `kalloc` (the
checks before the search) or `Panic`, `Descend`, `Take`, `Ascend`, `Clear`; `kfree` (the bounds), `Find`, then `NotUsed` or `Found`, `Merge`, `FreeDone`.
`pc` says which loop the call is in; calls do not overlap. `user/malloc.c` is the same code with other sizes and unsigned types. Requests are in bytes and
pointers are addresses: `kalloc(0)` returns the null pointer, and `kfree` ignores pointers outside of the heap. Callers free what they were given,
or addresses that lead to nothing in use (`Foreign`, `Vacant`). That a number is a power of two is said by its divisors, and what `fixSize` returns is the least
power of two that is not below its argument; `BitsAssumption` of `MCHeap` compares both with the bit operations of the code for the numbers up to 300.
Three history variables record the pieces in use (`blocks`), what callers were given and for which size (`given`) and the last request (`asked`); `blocks`,
`asked` and whether the machine has stopped in a request are the state of `Allocator`, which fails only if nothing fits.

**HostTree, SimpleFS, Mksfs.** `HostTree` defines, without any image, where a path leads in a directory of the host.
`Mksfs` builds the image one directory entry or one block of a file at a time, in any order `readdir` may return the
entries, and `SimpleFS` reads it; the invariants compare what is read with the host. A block may be looked at
as an inode, as items or as bytes; a store through one view makes the others `Stale...`, so that a block with two owners
shows. Behind the image, and in the part of `direct` behind its end, the model has what the program finds there: zeros
(mksfs copies only the inode to a zeroed block) or garbage. The field `indirect` of the inodes on the stack is never
set: it starts with what an inode built before left there, since calls of `walk` use the same stack again, or with any other value the stack
may hold, from before `main` or left by `readdir` or `stat` (`Leftover`, `Uninit`). With a second long file (or directory) that field may name the indirect block of the first one, whose items are then overwritten;
`second_indirect` shows this. The directories of the run `files` have one long item each and a stack that is zero but for inodes (`Uninit = {0}`), where the program is right; with other
values the first long file would use a block that was never allocated for it.
The number of blocks of an empty file is computed as `(0 - 1) / 4096 + 1` in `uint32` and is 2^20 (`BlocksOf`), for which `readall` copies nothing because it
also counts bytes, but looks at as many items far behind the image; files of more than 12 + 128 blocks spill into the block behind the indirect one (`ItemAt`, `PutItem`). Names are atoms. `lookup` resolves
`a//b` from the root, because the remainder begins with a slash; such paths are in the model but outside of the reference.
Two more facts: `inode.blocks` counts the entries of a directory; `readall` is only called for files.

**Namespace, FileTable.** `procs` is the row of processes that wait for each other, the running one last.
`held` is a history variable: the descriptors a process has been given and has not closed. Under the mapping
an inode pointer is the node of the host it was built from, so `Namespace` speaks of directories and paths only.
A descriptor opened for a path that does not exist holds a null pointer; from there `cd`, `ls` and `exec` go on at the root,
and `pwd`, as for a file, follows the null pointer (`Halt`). Programs use descriptors they hold, since the kernel checks none.
`newUserThread` marks three entries of `fdOccupied` and leaves the others to chance, so a new process has any content in them
(`NewProcesses`) and its first `sysOpen` may find none free and panic; `Namespace` allows that (`Halt`). With `Boot` the image is linked (`pc = "linked"`)
and no longer written.

**Shell.** One step is one character read. `typed` is what the screen shows behind the last prompt. A line of blanks is kept
at Enter, so the next one is appended to it. `line` is not initialised: `Fresh` holds its contents at first, and the properties
about commands hold from the time it was first emptied (`clean`); before, the model has the reads behind it that the program makes (`outside`), and
`ReadsStayInside` excepts them. NUL may be typed. `ls` and `cd` skip three characters
even if only the terminating zero follows, which is harmless as long as everything behind is zero; with `ls` or `cd` as the last
two of 255 characters they read behind the buffer (`edge`).

## Runs

| Run | Shows | Bounds, and why they are enough |
|---|---|---|
| `rr_list` | `ListHoldsOrder`; the list refines `Scheduler`; no starvation | 4 threads: empty, one-element and longer lists, a thread in the middle; slices of 2 ticks |
| `kernel_threads` | `ReadyIsQueued`, `SleeperIsAwaited`, `WokenReaderFindsChar`, `StacksAreOwned`, `NoWildSwitch`, `InputInOrder` | 3 slots (a process, its child and grandchild; a fourth exec finds the pool full), every initial content of `occupied`, 3 characters typed at any time; a heap of 14 nodes with stacks of 3 and files of 1: with all threads there are 2 nodes left, one unread character leaves just enough for a third process, and two do not |
| `kernel_liveness` | `ReadyRuns`, `ReaderReturns`; `ThreadIsWhereItLeft`, `SliceIsCharged` | 2 slots, slices of 2 ticks, 2 characters, two contents of the file table; the two safety properties are proved for any number of slots |
| `frames` | consistency of the tree in mid-walk, `TakeIsFresh`, `PanicMeansFull`, `CallReturns` | 8 managed frames below 16 leaves: the tree is deeper than it is full, and leaves beyond the range exist |
| `queue` | `ListHoldsChain`, `NodesAreOwned`, refinement of `Fifo` | 2 queues, 4 nodes, 2 items: every order of recycling |
| `mapping` | `FramesAreOwnedOnce`, `LinearMapIntact`, `UserPagesArePrivate`, `ImageLoaded` | tables of 8 entries, pages of 2 bytes, 56 pages of memory, 50 of them frames; four programs (page-aligned code, a bss that starts and ends within pages, segments that clash, no executable) loaded in any order. There is room for the kernel and two of them; a further one finds no frame for its root table, for another table or for a page of its data |
| `elf_data_offset` | violated: initialised data that does not start at a page boundary is misplaced | one program |
| `heap` | `LongestIsExact`, `ClearsItsPiece`, `BytesAreOwned`, refinement of `Allocator` | 8 blocks of 3 bytes: four sizes of pieces; requests for nothing, for a whole number of blocks, for one byte more, for the whole heap and for more than that; addresses just outside of the heap, and every block that is free (a second `kfree`). A walk passes 4 levels |
| `files` | `LookupIsResolve`, `PathLeadsBack`, `FilesReadBack`, `LsIsComplete`, `BlocksAreOwnedOnce`, `HeldIsMarked`, refinement of `Namespace` | ten directories: a shell in its place and elsewhere, the same name on three levels, an empty directory, a symbolic link, files that end within, at and behind a block of 2 bytes, an empty file, one item more than the 4 direct ones, a full indirect block of 3 items, directories that need one block more than the 24 of the image. All paths of up to 3 components are looked up. Then two processes with one standard descriptor (which they may close and open again) and another one, five paths |
| `second_indirect` | violated: `FilesReadBack` with two files that need an indirect block | one directory of two files |
| `lookup_long_dir` | violated: `LookupFindsEntries` in a directory with an indirect block | one directory of 7 entries |
| `shell` | `BufferIsScreen`, `DoesWhatWasTyped`, `ReadsStayInside` | a line of 5 characters and the zero: a built-in with blanks and an argument, and `ls` as the last two characters; three contents of `line` at first, one without a zero at its end; a word of two letters in place of `shutdown`; every sequence of keys |

The type invariant of a module is a conjunct of one of these invariants (`ListHoldsChain`, `FramesAreOwnedOnce`, `LongestIsExact`,
`BlocksAreOwnedOnce`, `HeldIsMarked`, `BufferIsScreen`), of the inductive invariant that is proved (`RRScheduler`, `FrameAllocator`), or an invariant of its own (`Kernel`).

`MaxTyped` bounds how many characters are typed, so that the state space is finite;
`HeapSize`, `StackSize` and `FileSize` model the heap, which runs out in both ways. Nothing in `Kernel` depends on how many
characters were typed before.

**Fairness** (`FairSpec` of `Kernel`): the timer fires when armed (`tick` and `initTimer` set it to a finite time),
a pending interrupt that is enabled is taken, and the kernel's own code makes progress even if
interrupts keep arriving (strong fairness: the interval of the timer is far longer than an
instruction). External interrupts have priority over the timer in RISC-V, and typing is
bounded. Nothing is assumed of user programs: a process may loop for ever, and is preempted.
`RRScheduler` assumes that idle keeps popping; `FrameAllocator` that a call runs to its end.

**Deadlock** is checked in every run. A stopped machine (`panic`, `shutdown`) has a stuttering
action of its own, so a deadlock would be a state the code cannot get out of.

Three disagreements with comments in the code have a run that shows them.

* `mapFramedAndCopy` (`mapping.c`) copies to the start of a page while the comment in `newUserMapping` (`elf.c`) promises the data in its actual
  place: `elf_data_offset` loads a program whose data segment starts within a page and finds zeros there.
* `lookup` (`fs.c`) indexes the indirect block of a long directory with `i` where `mksfs` and `ls` use `i - 12`, and then reads `direct` behind
  its end: `lookup_long_dir` shows that entries which `ls` lists are not found.
* `walk` (`mksfs.c`) never sets `finode.indirect`, while its comment promises that a file's data goes to the file's blocks: `second_indirect` packs two files with
  an indirect block each, and the second overwrites the items of the first.

A fourth has no run of its own, since the first state shows it: `newThreadPool` (`threadpool.c`) returns a local structure of which only the scheduler is set, while
`thread.h` says of `occupied` that it tells whether the slot is in use. `Init` of `Kernel` takes any content of `occupied`, and `kernel_threads` shows that the kernel is otherwise
correct; a slot marked by chance is lost for good, and in the worst case the shell itself finds none.

## Proofs

TLAPS checks the following for every value of the constants that satisfies the named
assumptions of the modules (`RRAssumption`, `FrameAssumption`, `SchedulerAssumption`, `KernelAssumption`, `RoomAssumption`, `QueueAssumption`,
`HeapAssumption`, `MappingAssumption`, `LinkAssumption`, `ShellAssumption`, `SimpleFSAssumption`, `MksfsAssumption`, `TreeAssumption`, `FileTableAssumption`, ...).

* `RRSchedulerProofs`: `ListInvariant` (the list holds the pushed threads in order) and
  `RRImplementsScheduler` (refinement). The inductive invariant `IInv` adds to `ListHoldsOrder` that
  no thread is in `order` twice: without it, relinking an entry could cut the list elsewhere. Each of push
  and pop is split into the list being empty, having one element, and having more.
* `FrameAllocatorProofs`: `TreeInvariant`, `LeavesAreTheFrames`, `AllocIsFresh`, `PanicIsTrue`. `IInv` says that during a walk
  only the node the walk has come to may disagree with its children, that the walk
  down goes along nodes marked free, and that the leaves are the frames not held. `PanicIsTrue` needs that a full
  root has full leaves: the least counterexample of the ancestor relation is
  refuted by well-founded induction over the indices (`FullRoot`).
* `KernelProofs`: `TypeCorrect`, `ReadyIsAlwaysQueued`, `SleepersAreAwaited`, `WokenReadersFindChars`, `StacksAreSafe`,
  `SwitchesAreTame`, `ThreadsKeepTheirState`, `SlicesAreCharged` and `InputIsKept`, for any number of slots and characters, any sizes of the heap and of what is in it
  and any slice length. The inductive invariant `IInv` of `Kernel` joins these properties with what they need:
  `HartOK` (where interrupts can be enabled; a thread has the hart exactly between acquire and retrieve; there is an idle context
  to go back to), `CurOK` (how the copy in `CPU.current` relates to its slot while the thread is on the hart), `LiveOK`
  (a live thread has a slot and is `Running` only on the hart), `SliceOK` (a queued thread has a tick left) and `CtxOK` (a
  thread off the hart has a context that can be resumed, and a host is not inside `popChar`). Two arguments carry the proof:
  an interrupt that finds the hart busy finds it in user mode, so a tick never meets a half-updated pool; and `OneActive` is
  inductive because exec puts its caller to sleep in the same step that makes the child ready, so `wait` stays injective
  on live threads and an exit wakes exactly one host. There is one lemma per action, with one step per conjunct. `InputIsKept` joins to `IInv` that the characters
  typed are those read, those in the buffer and the one in the UART, in this order; only the step of `pushChar`
  and the two ways `popChar` ends can disturb that.
* `QueueProofs`: `ListsHoldChains`, `NodesAreNeverShared` and `QueueImplementsFifo`, for any number of queues and nodes. The first two are
  inductive together: a push into one queue leaves the links of the others alone because its node is in no chain, and it is in none
  because the chains are disjoint and `free` holds the rest. The refinement maps a queue to the items of its chain.
* `MappingProofs`: `FramesStayOwned`, `LinearMapStays`, `UserPagesStayPrivate` and `ImageIsLoaded`, for every number of entries in a table,
  every size of a page and of memory, every kernel and every set of programs. The inductive invariant `TreeInv` says in terms of
  `role` what a table may hold: an entry of a table on level 1 or 2 points to a table of the next level, one on level 3 to a user's page or into the linear map; no frame
  is pointed to twice (`OwnedOnce`), and none but the roots is not pointed to at all (`AllOwned`); `FindOK` says that `findEntry`
  stands in the table that the entries above it lead to. So tables of two spaces never meet. From it follow the three others, each with an invariant of its own about the
  spaces that are finished and the part of the current one that is done: `LinearInv` (the kernel's pages), `OwnInv` (what user mode may
  access is a page of the program or of its stack) and `ImageInv` (the pages done so far hold the bytes of the file and zeros).
  What is finished is not disturbed by later spaces because every store goes to a frame of the space being built.
  `UserPagesStayPrivate` uses `LinkAssumption`: the LOAD segments of a program are not empty and end within the virtual addresses; the code checks neither:
  it is the linker that produces no such header for the programs in `user/`. `ImageIsLoaded` has the hypothesis `DataIsAligned` (segments with initialised data start at a page boundary); what happens
  without it is what the run `elf_data_offset` shows.
* `ShellProofs`: `ScreenIsBuffer`, `ReadsAreInside` and `ShellObeys`, for every length of the line, every set of characters, every initial
  content of `line`, every memory behind it and every word in place of `shutdown`. `BufferIsScreen` is inductive with the type of `typed` alone. From it, a line without a NUL is blanks, the text and
  zeros (`Window`), and place by place the scans of the buffer (`SkipBlanks`, `EndOf`, `Begins`) are the operations on the text
  (`Stripped`, suffixes, `FirstWord`): `SkipIsStrip`, `TextIsSuffix`, `BeginsIsWord`. The interesting case is the argument that begins
  three places behind the word (`ArgIsRest`): if the text ends with the word, the place behind the zero is still in line and zero, unless the line is full.
* `HeapProofs`: `LongestStaysExact`, `ZeroesItsPiece`, `BytesStayOwned` and `HeapImplementsAllocator`, for every number of blocks that is a power of
  two, every size of a block, every address of the heap and all requests. First the arithmetic: a power of two has no odd divisor but 1, and by induction (the least
  counterexample) the smaller of two powers divides the larger (`PowersDivide`), there is one between n and 2n - 1 (`PowerAbove`). So every node
  has a size (`SizeExists`, `SizeIs`), its children split its blocks (`ChildFacts`), and of two nodes one contains the other or they are disjoint (`Nested`). Then, for any set of
  pieces in use, what `Exact` says of the value of a node follows from its children (`PullIsExact`, `MergeIsExact`), and taking or returning a piece disturbs only the
  nodes above it (`TakeIsExact`, `FreeIsExact`). The inductive invariant `IInv` joins `ExactInv` (the nodes that are not above the walk are exact) with
  `Apart` (the pieces in use are nodes' pieces and disjoint), `WalkInv` (the way down stays at nodes with room, and the way up
  from a leaf below the piece to be freed), `GivenInv` (pieces in use and pointers of callers correspond, but for the one in passing) and `InitInv` (the loop of `buddyInit`).
  For the refinement, a step of `Take` is an allocation of a free aligned piece (`NodeIsFreePiece`), `Panic` one that finds none (`FreePieceIsNode`: each
  aligned run is the piece of a node), `Found` is a release, and every other step a stutter.
* `FileTableProofs`, part 1: `DescriptorsStayMarked`, for every length of the file table and every number of processes. Nothing is known of what
  `lookup` returns, and nothing is needed.
* `FileTableProofs`, part 2: `BlocksAlwaysOwnedOnce`, `FilesAlwaysReadBack` and `LsAlwaysComplete`, for every size of a block, every number of direct and
  indirect items, every order in which `readdir` returns the entries, and every directory of the host that meets the hypothesis `OneLongNode`: no
  node needs more than its direct items and one indirect block, at most one needs an indirect block, and if one does the stack is zero at first. The ten
  directories of the run `files` meet it; what happens with a second long node is described under *HostTree, SimpleFS, Mksfs*. `TreeAssumption` says what a directory of
  the host is: finite, without two entries of one name in a directory, and with nothing that is not below its root (as an induction on sets).
  The inductive invariant `IInv` speaks of four functions that are not in the state: `use` (what each block was taken for), `ino` (the inode of each node so
  far, in a call of `walk` or in the image), `cnt` (the number of its items) and `kids` (the entries of a directory that have been added). They are rigid
  variables under an existential quantifier, and each step names their next values. `Owned` and `Accounted` say that every item leads to a block that was taken for
  it, and that no block is lost: since `use` is a function, no block has two owners. `Bytes` and `Stored` say what is in the image, `Frames` that the
  calls of `walk` on the stack and the entries that are left, added or being copied make up the directory. `Zeroed` is the delicate one: until the long node has its inode, every
  inode in the image and on the stack has `indirect = 0`, so that its indirect block is allocated and not taken over from an earlier inode. There is one lemma per
  action (`EnterKeeps`, `CopyKeeps`, `AddKeeps`, ...), with one step per part of the invariant. When `walk` has returned, every node has been packed
  (`DoneIsComplete`, by the induction of `TreeAssumption`); what readers find then follows from the image alone: `ByteIsThere`, `NamesAreCounted`, `ClaimsAreUses`,
  and, for the eight bits of a byte of the freemap, `Bits`.

Only model-checked: liveness (`ReadyRuns`, `ReaderReturns`, `QueuedIsServed`, `CallReturns`), which is out of the prover's reach; that the bit operations of
`heap.c` compute what `Heap` says of powers of two (`BitsAssumption`, for the numbers up to 300); what the recursive functions
`lookup` and `getInodePath` compute (`LookupIsResolve`, `PathLeadsBack`), and with them `ImplementsNamespace`.

## Plan

1. Done: the scheduler, threads and interrupts, standard input, queues, page frames, both heaps, page tables and ELF loading, the image builder and
   the file system, descriptors, the shell; proofs of the scheduler, the frame allocator, the kernel, the queues, the heaps, the page tables and the loader,
   the shell, the image builder and the descriptors.
2. Left: what the recursive functions of `fs.c` compute, which needs induction over data; a composition of `Mapping` with the walks of `FrameAllocator`
   instead of its contract.

## Not modelled

Formatting (`printf.c`, `user/io.c`), which is output. Register saving in `interrupt.asm` and `switch.asm` (abstracted to where execution continues), SBI calls (I/O), boot assembly
and linking, the wrappers of `ecall` in `user/syscall.h` and the straight-line programs `hello` and `fib50`. The lengths of names and of path
buffers (`filename[28]`, `buf[256]` in `sysPwd`, the host's paths in `mksfs`) are not represented: names are atoms. In `Kernel`, system calls that change nothing modelled there
(`ls`, `pwd`, `write`, a `cd` or `exec` that finds no suitable inode) are stuttering steps, and the page frames of a process
are not counted: running out of them is one of the reasons for `SysStop`.
