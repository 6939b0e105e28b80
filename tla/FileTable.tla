----------------------------- MODULE FileTable -----------------------------
(***************************************************************************)
(* Descriptors and working directories: the calls of kernel/syscall.c that *)
(* concern files, with allocFd, deallocFd and the process records of       *)
(* kernel/thread.c, on an image that mksfs has built.                      *)
(*                                                                         *)
(* A process that calls exec sleeps until its child has exited, so at any  *)
(* time one process runs and the others wait in a row: procs.  The file    *)
(* table of a process that is switched away from and back is the same      *)
(* (ThreadIsWhereItLeft in Kernel).  Programs use the descriptors they got *)
(* from sysOpen; the kernel does not check them.                           *)
(***************************************************************************)
EXTENDS Mksfs

CONSTANTS MaxFd,        \* 16, the length of oFile and fdOccupied
          NStd,         \* 3, the descriptors newUserThread marks
          Paths,        \* the paths programs pass
          Programs,     \* the files that are executables
          MaxProcs      \* bound: processes that wait in a row

ASSUME FileTableAssumption == {MaxFd, NStd} \subseteq Nat /\ NStd < MaxFd /\ MaxProcs \in Nat \ {0}

VARIABLES procs,        \* the processes, the running one last
          out,          \* what the last call printed
          power         \* whether the kernel runs

tableVars == <<procs, out, power>>
allVars   == <<vars, tableVars>>

Fd       == 0 .. MaxFd - 1
StdFd    == 0 .. NStd - 1
StalePtr == -2          \* the inode of a descriptor that nobody opened
Says(call, text) == out' = [call |-> call, text |-> text]

FTInit ==
  /\ Init
  /\ procs = <<>>
  /\ out = [call |-> "", text |-> {}]
  /\ power = "off"

Mkfs == Build /\ UNCHANGED tableVars

\* newUserThread: the standard descriptors are marked; the others, like oFile, hold
\* what was on the stack.  held is a history variable: the descriptors the
\* process may use.
NewProcesses ==
  {[inode |-> [fd \in Fd |-> StalePtr], held |-> StdFd, occupied |-> o] :
     o \in {f \in [Fd -> 0 .. 1] : \A fd \in StdFd : f[fd] = 1}}

Halt == power' = "halted" /\ UNCHANGED <<procs, out>>

\* The image is linked into the kernel, which starts with the shell: initFs and
\* initThread.
Boot ==
  LET shInode == lookup[NULL, <<"/", "bin", "/", "sh">>]
  IN  /\ pc = "done"
      /\ power = "off"
      /\ pc' = "linked"
      /\ \/ /\ \E n \in Programs \cap DOMAIN where : where[n] = shInode
            /\ \E p \in NewProcesses : procs' = <<p>>
            /\ power' = "on" /\ UNCHANGED out
         \/ /\ ~\E n \in Programs \cap DOMAIN where : where[n] = shInode
            /\ Halt
      /\ UNCHANGED <<tree, freemap, freenum, stack, file, item, where, image>>

Running == power = "on" /\ procs # <<>>
Process == procs[Len(procs)]
WithProcess(p) == [procs EXCEPT ![Len(procs)] = p]

\* The descriptors of the running process that refer to an inode.
Opened == {fd \in Process.held : Process.inode[fd] # StalePtr}
-----------------------------------------------------------------------------
\* allocFd returns the first descriptor that is not marked.
Unmarked == {fd \in Fd : Process.occupied[fd] = 0}

\* The mutant does not mark the descriptor.
MarkNone(p, fd) == p
Mark(p, fd) == [p EXCEPT !.occupied[fd] = 1]

sysOpen(path) ==
  /\ Running
  /\ \/ Unmarked = {} /\ Halt
     \/ /\ Unmarked # {}
        /\ LET fd == Min(Unmarked)
           IN  procs' = WithProcess([Mark(Process, fd) EXCEPT
                                       !.inode[fd] = lookup[NULL, path],
                                       !.held = @ \cup {fd}])
        /\ Says("open", {}) /\ UNCHANGED power

\* sysClose and deallocFd.  The inode that stays in oFile is stale from now on.
sysClose(fd) ==
  /\ Running
  /\ fd \in Process.held
  /\ procs' = WithProcess([Process EXCEPT !.occupied[fd] = 0, !.held = @ \ {fd},
                                           !.inode[fd] = StalePtr])
  /\ Says("close", {}) /\ UNCHANGED power

\* The result of a lookup, if it is a directory; the mutant takes any.
IfFound(b) == b # NULL
IfDirectory(b) == b # NULL /\ InodeAt(b).type = TYPE_DIR

sysCdDir(path, fd) ==
  LET inode == lookup[Process.inode[fd], path]
  IN  /\ Running
      /\ fd \in Opened
      /\ procs' = IF IfDirectory(inode) THEN WithProcess([Process EXCEPT !.inode[fd] = inode])
                  ELSE procs
      /\ Says("cd", {}) /\ UNCHANGED power

sysLsDir(path, fd) ==
  LET current == Process.inode[fd]
      inode   == IF path = <<>> THEN current ELSE lookup[current, path]
      list    == ls(InodeAt(inode))
  IN  /\ Running
      /\ fd \in Opened
      /\ Says("ls", IF inode = NULL \/ InodeAt(inode).type = TYPE_FILE THEN {}
                    ELSE {<<list[i]>> : i \in DOMAIN list})
      /\ UNCHANGED <<procs, power>>

\* getInodePath follows the null pointer if the descriptor holds no inode, or
\* a file, in which it finds no "..".
sysPwd(fd) ==
  LET current == Process.inode[fd]
  IN  /\ Running
      /\ fd \in Opened
      /\ \/ IfDirectory(current) /\ Says("pwd", {getInodePath(current)}) /\ UNCHANGED <<procs, power>>
         \/ ~IfDirectory(current) /\ Halt

\* sysExec with executeCPU.  A file that is no executable makes newUserMapping
\* panic.
sysExec(path, fd) ==
  LET inode == lookup[Process.inode[fd], path]
      isProgram == \E n \in Programs \cap DOMAIN where : where[n] = inode
  IN  /\ Running
      /\ fd \in Opened
      /\ \/ /\ inode = NULL \/ IfDirectory(inode)
            /\ Says("exec", {}) /\ UNCHANGED <<procs, power>>
         \/ /\ isProgram
            /\ Len(procs) < MaxProcs
            /\ \E p \in NewProcesses : procs' = Append(procs, p)
            /\ Says("exec", {}) /\ UNCHANGED power
         \/ inode # NULL /\ ~IfDirectory(inode) /\ ~isProgram /\ Halt

\* exitFromCPU; the process that waits goes on.
sysExit ==
  /\ Running
  /\ procs' = SubSeq(procs, 1, Len(procs) - 1)
  /\ Says("exit", {}) /\ UNCHANGED power

sysShutdown == Running /\ Halt

\* A build that failed, a machine that is halted, or one on which only the idle
\* thread is left.
Over == /\ pc = "failed" \/ power = "halted" \/ (power = "on" /\ procs = <<>>)
        /\ UNCHANGED allVars

Calls == \/ \E path \in Paths : sysOpen(path)
         \/ \E fd \in Fd : sysClose(fd) \/ sysPwd(fd)
         \/ \E fd \in Fd, path \in Paths :
              sysCdDir(path, fd) \/ sysLsDir(path, fd) \/ sysExec(path, fd)
         \/ sysExit \/ sysShutdown

FTNext == \/ Mkfs
          \/ Boot
          \/ Calls /\ UNCHANGED vars
          \/ Over

FTSpec == FTInit /\ [][FTNext]_allVars
-----------------------------------------------------------------------------
\* Types of the state.  What the inodes of descriptors in use may be is
\* ImplementsNamespace's: NodeAt is defined for nothing else.
FTTypeOK ==
  /\ \A i \in DOMAIN procs :
       /\ DOMAIN procs[i].inode = Fd
       /\ procs[i].occupied \in [Fd -> 0 .. 1]
       /\ procs[i].held \subseteq Fd
  /\ Len(procs) <= MaxProcs
  /\ power \in {"off", "on", "halted"}

\* The file tables keep their types, and a descriptor that a program holds is
\* marked, so that allocFd never returns it a second time, whatever newUserThread
\* left in fdOccupied and in whatever order descriptors are opened and closed; a
\* descriptor nobody holds has no inode that could be mistaken for an open one.
HeldIsMarked ==
  /\ FTTypeOK
  /\ \A i \in DOMAIN procs :
       /\ \A fd \in procs[i].held : procs[i].occupied[fd] = 1
       /\ \A fd \in Fd \ procs[i].held : procs[i].inode[fd] = StalePtr

\* The node an inode pointer stands for.
NodeAt(b) == IF b = StalePtr THEN "stdio" ELSE IF b = NULL THEN Nowhere
             ELSE CHOOSE n \in DOMAIN where : where[n] = b
Host == INSTANCE Namespace
  WITH tables <- [i \in DOMAIN procs |-> [fd \in procs[i].held |-> NodeAt(procs[i].inode[fd])]]

\* From the host's directory over mksfs, the image and lookup to the file
\* tables: the calls do what they promise in terms of the host's directory.
ImplementsNamespace == Host!Spec
=============================================================================
