----------------------------- MODULE Namespace -----------------------------
(***************************************************************************)
(* What the file system calls of Moonix promise a program: descriptors     *)
(* stand for nodes of the directory that was packed, and cd, ls, pwd and   *)
(* exec follow paths as they are followed there.                           *)
(***************************************************************************)
EXTENDS HostTree

CONSTANTS Fd,           \* the descriptors of a process
          StdFd,        \* those that a process has from the start
          Paths,        \* the paths programs pass
          Trees,        \* the directories that may be packed
          Programs      \* the nodes that are executables

VARIABLES tables,       \* from the shell to the running process: descriptor |-> node
          out,          \* what the last call printed
          power         \* "off", "on" or "halted"

nsVars == <<tree, tables, out, power>>

Stdio   == "stdio"
Silence == [call |-> "", text |-> {}]
Says(call, text) == out' = [call |-> call, text |-> text]

Table     == tables[Len(tables)]
IsOpen(fd) == tables # <<>> /\ power = "on" /\ fd \in DOMAIN Table /\ Table[fd] # Stdio

\* A null inode, left by an open that found nothing, stands for the root.
Follow(fd, path) == Resolve(IF Table[fd] = Nowhere THEN Root ELSE Table[fd], path)
WithTable(t) == [tables EXCEPT ![Len(tables)] = t]
NewTable     == [fd \in StdFd |-> Stdio]
Halt         == power' = "halted" /\ UNCHANGED <<tables, out>>
Keep         == UNCHANGED <<tables, power>>

Init == tree \in Trees /\ tables = <<>> /\ out = Silence /\ power = "off"

Boot == /\ power = "off"
        /\ IF Resolve(Root, <<"bin", "/", "sh">>) \in Programs
             THEN power' = "on" /\ tables' = <<NewTable>> /\ UNCHANGED out
             ELSE Halt

\* A descriptor that is not in use, or the machine stops.
Open(path) ==
  /\ power = "on" /\ tables # <<>>
  /\ \/ Halt
     \/ \E fd \in Fd \ DOMAIN Table :
          /\ tables' = WithTable([f \in DOMAIN Table \cup {fd} |->
                                    IF f = fd THEN Resolve(Root, path) ELSE Table[f]])
          /\ Says("open", {}) /\ UNCHANGED power

Close(fd) ==
  /\ power = "on" /\ tables # <<>> /\ fd \in DOMAIN Table
  /\ tables' = WithTable([f \in DOMAIN Table \ {fd} |-> Table[f]])
  /\ Says("close", {}) /\ UNCHANGED power

Cd(fd, path) ==
  /\ IsOpen(fd)
  /\ Says("cd", {}) /\ UNCHANGED power
  /\ tables' = IF Follow(fd, path) \in Dirs
                 THEN WithTable([Table EXCEPT ![fd] = Follow(fd, path)]) ELSE tables

Ls(fd, path) ==
  LET n == IF path = <<>> THEN Table[fd] ELSE Follow(fd, path)
  IN  /\ IsOpen(fd)
      /\ Says("ls", IF n \in Dirs THEN {<<m>> : m \in Listing(n)} ELSE {})
      /\ Keep

\* The working directory is printed; of anything else there is no path, and
\* the kernel faults.
Pwd(fd) ==
  /\ IsOpen(fd)
  /\ \/ Table[fd] \in Dirs /\ Says("pwd", {PathOf(Table[fd])}) /\ Keep
     \/ Table[fd] \notin Dirs /\ Halt

Exec(fd, path) ==
  LET n == Follow(fd, path)
  IN  /\ IsOpen(fd)
      /\ \/ n \in Dirs \cup {Nowhere} /\ Says("exec", {}) /\ Keep
         \/ n \in Programs /\ tables' = Append(tables, NewTable) /\ Says("exec", {}) /\ UNCHANGED power
         \/ n \in Files \ Programs /\ Halt

Exit == /\ power = "on" /\ tables # <<>>
        /\ tables' = SubSeq(tables, 1, Len(tables) - 1)
        /\ Says("exit", {}) /\ UNCHANGED power

Shutdown == power = "on" /\ tables # <<>> /\ Halt

Next == /\ UNCHANGED tree
        /\ \/ Boot \/ Exit \/ Shutdown
           \/ \E path \in Paths : Open(path)
           \/ \E fd \in Fd : Close(fd) \/ Pwd(fd)
           \/ \E fd \in Fd, path \in Paths : Cd(fd, path) \/ Ls(fd, path) \/ Exec(fd, path)

Spec == Init /\ [][Next]_nsVars
=============================================================================
