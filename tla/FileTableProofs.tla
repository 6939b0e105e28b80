--------------------------- MODULE FileTableProofs ---------------------------
(***************************************************************************)
(* The proofs about files, in two parts: the descriptors of every process, *)
(* and the image that mksfs writes.                                        *)
(***************************************************************************)
EXTENDS FileTable, FiniteSetTheorems, SequenceTheorems, WellFoundedInduction, TLAPS

(* Part 1: the descriptors, for every length of the file table, every      *)
(* number of processes, every path and whatever lookup returns.            *)

\* The record of one process.
ProcOK(p) ==
  /\ DOMAIN p = {"inode", "held", "occupied"}
  /\ DOMAIN p.inode = Fd
  /\ p.occupied \in [Fd -> 0 .. 1]
  /\ p.held \subseteq Fd
  /\ \A fd \in p.held : p.occupied[fd] = 1
  /\ \A fd \in Fd \ p.held : p.inode[fd] = StalePtr

\* The set of the records is left open: an inode is whatever lookup returned.
AllOK(ps) == (\E S : ps \in Seq(S)) /\ \A i \in 1 .. Len(ps) : ProcOK(ps[i])

TableInv == AllOK(procs) /\ Len(procs) <= MaxProcs /\ power \in {"off", "on", "halted"}
-----------------------------------------------------------------------------
(* One process.                                                            *)

LEMMA NewIsOK == \A p \in NewProcesses : ProcOK(p)
<1> SUFFICES ASSUME NEW o \in [Fd -> 0 .. 1], \A fd \in StdFd : o[fd] = 1
             PROVE  ProcOK([inode |-> [fd \in Fd |-> StalePtr], held |-> StdFd, occupied |-> o])
  BY DEF NewProcesses
<1>1. StdFd \subseteq Fd
  BY FileTableAssumption DEF StdFd, Fd
<1> QED
  BY <1>1 DEF ProcOK

LEMMA OpenedIsOK ==
  ASSUME NEW p, ProcOK(p), NEW fd \in Fd, NEW x
  PROVE  ProcOK([Mark(p, fd) EXCEPT !.inode[fd] = x, !.held = @ \cup {fd}])
<1> DEFINE q == [Mark(p, fd) EXCEPT !.inode[fd] = x, !.held = @ \cup {fd}]
<1>1. DOMAIN p = {"inode", "held", "occupied"}
  BY DEF ProcOK
<1>2. /\ DOMAIN q = {"inode", "held", "occupied"}
      /\ q.inode = [p.inode EXCEPT ![fd] = x]
      /\ q.held = p.held \cup {fd}
      /\ q.occupied = [p.occupied EXCEPT ![fd] = 1]
  BY <1>1 DEF Mark
<1> HIDE DEF q
<1>3. ProcOK(q)
  BY <1>2 DEF ProcOK
<1> QED
  BY <1>3 DEF q

LEMMA ClosedIsOK ==
  ASSUME NEW p, ProcOK(p), NEW fd \in Fd
  PROVE  ProcOK([p EXCEPT !.occupied[fd] = 0, !.held = @ \ {fd}, !.inode[fd] = StalePtr])
<1> DEFINE q == [p EXCEPT !.occupied[fd] = 0, !.held = @ \ {fd}, !.inode[fd] = StalePtr]
<1>1. DOMAIN p = {"inode", "held", "occupied"}
  BY DEF ProcOK
<1>2. /\ DOMAIN q = {"inode", "held", "occupied"}
      /\ q.inode = [p.inode EXCEPT ![fd] = StalePtr]
      /\ q.held = p.held \ {fd}
      /\ q.occupied = [p.occupied EXCEPT ![fd] = 0]
  BY <1>1
<1> HIDE DEF q
<1>3. ProcOK(q)
  BY <1>2 DEF ProcOK
<1> QED
  BY <1>3 DEF q

LEMMA MovedIsOK ==
  ASSUME NEW p, ProcOK(p), NEW fd \in p.held, NEW x
  PROVE  ProcOK([p EXCEPT !.inode[fd] = x])
<1> DEFINE q == [p EXCEPT !.inode[fd] = x]
<1>1. DOMAIN p = {"inode", "held", "occupied"}
  BY DEF ProcOK
<1>2. /\ DOMAIN q = {"inode", "held", "occupied"}
      /\ q.inode = [p.inode EXCEPT ![fd] = x]
      /\ q.held = p.held /\ q.occupied = p.occupied
  BY <1>1
<1> HIDE DEF q
<1>3. ProcOK(q)
  BY <1>2 DEF ProcOK
<1> QED
  BY <1>3 DEF q
-----------------------------------------------------------------------------
(* The row of processes.                                                   *)

LEMMA OneIsOK ==
  ASSUME NEW p, ProcOK(p)
  PROVE  AllOK(<<p>>) /\ Len(<<p>>) = 1
<1>1. <<p>> \in Seq({p}) /\ Len(<<p>>) = 1 /\ <<p>>[1] = p
  OBVIOUS
<1>2. \A i \in 1 .. Len(<<p>>) : i = 1
  BY <1>1
<1> QED
  BY <1>1, <1>2 DEF AllOK

LEMMA AppendIsOK ==
  ASSUME NEW ps, AllOK(ps), NEW p, ProcOK(p)
  PROVE  AllOK(Append(ps, p)) /\ Len(Append(ps, p)) = Len(ps) + 1
<1>1. PICK S : ps \in Seq(S)
  BY DEF AllOK
<1> DEFINE T == S \cup {p}
           qs == Append(ps, p)
<1>2. ps \in Seq(T) /\ p \in T /\ Len(ps) \in Nat
  BY <1>1, SeqMonotonic
<1> HIDE DEF T
<1>3. /\ qs \in Seq(T) /\ Len(qs) = Len(ps) + 1
      /\ qs[Len(ps) + 1] = p /\ \A i \in 1 .. Len(ps) : qs[i] = ps[i]
  BY <1>2
<1> HIDE DEF qs
<1>4. \A i \in 1 .. Len(qs) : ProcOK(qs[i])
  BY <1>2, <1>3 DEF AllOK
<1> QED
  BY <1>3, <1>4 DEF AllOK, qs

LEMMA LastIsOK ==
  ASSUME NEW ps, AllOK(ps), ps # <<>>
  PROVE  Len(ps) \in Nat /\ Len(ps) \in 1 .. Len(ps) /\ ProcOK(ps[Len(ps)])
<1>1. PICK S : ps \in Seq(S)
  BY DEF AllOK
<1>2. Len(ps) \in Nat /\ Len(ps) # 0
  BY <1>1
<1> QED
  BY <1>2 DEF AllOK

LEMMA ReplacedIsOK ==
  ASSUME NEW ps, AllOK(ps), ps # <<>>, NEW p, ProcOK(p)
  PROVE  LET qs == [ps EXCEPT ![Len(ps)] = p]
         IN  AllOK(qs) /\ Len(qs) = Len(ps)
<1> DEFINE qs == [ps EXCEPT ![Len(ps)] = p]
<1>1. PICK S : ps \in Seq(S)
  BY DEF AllOK
<1> DEFINE T == S \cup {p}
<1>2. ps \in Seq(T) /\ p \in T
  BY <1>1, SeqMonotonic
<1> HIDE DEF T
<1>3. Len(ps) \in 1 .. Len(ps)
  BY LastIsOK
<1>4. qs \in Seq(T) /\ Len(qs) = Len(ps) /\ \A i \in 1 .. Len(ps) : qs[i] = IF i = Len(ps) THEN p ELSE ps[i]
  BY <1>2, <1>3, ExceptSeq
<1> HIDE DEF qs
<1>5. \A i \in 1 .. Len(qs) : ProcOK(qs[i])
  BY <1>4 DEF AllOK
<1> QED
  BY <1>4, <1>5 DEF AllOK, qs

LEMMA ShorterIsOK ==
  ASSUME NEW ps, AllOK(ps), ps # <<>>
  PROVE  LET qs == SubSeq(ps, 1, Len(ps) - 1)
         IN  AllOK(qs) /\ Len(qs) = Len(ps) - 1
<1> DEFINE n == Len(ps) - 1
           qs == SubSeq(ps, 1, n)
<1>1. PICK S : ps \in Seq(S)
  BY DEF AllOK
<1>2. Len(ps) \in Nat /\ Len(ps) \in 1 .. Len(ps)
  BY LastIsOK
<1>3. n \in Nat /\ n < Len(ps) /\ 1 \in Int /\ n \in Int /\ \A i \in 1 .. n : i \in 1 .. Len(ps)
  BY <1>2
<1>4. \A i \in 1 .. n : ps[i] \in S
  BY <1>1, <1>3
<1> HIDE DEF n
<1>5. /\ qs \in Seq(S) /\ Len(qs) = IF 1 <= n THEN n - 1 + 1 ELSE 0
      /\ \A i \in 1 .. n - 1 + 1 : qs[i] = ps[1 + i - 1]
  BY <1>3, <1>4, SubSeqProperties
<1> HIDE DEF qs
<1>6. Len(qs) = n /\ \A i \in 1 .. n : qs[i] = ps[i]
  BY <1>3, <1>5
<1>7. \A i \in 1 .. Len(qs) : ProcOK(qs[i])
  BY <1>3, <1>6 DEF AllOK
<1> QED
  BY <1>5, <1>6, <1>7 DEF AllOK, qs, n
-----------------------------------------------------------------------------
(* The calls.                                                              *)

LEMMA InitTable == FTInit => TableInv
<1> SUFFICES ASSUME FTInit PROVE TableInv
  OBVIOUS
<1>1. procs = <<>> /\ power = "off"
  BY DEF FTInit
<1>2. procs \in Seq({}) /\ Len(procs) = 0
  BY <1>1
<1> QED
  BY <1>1, <1>2, FileTableAssumption DEF TableInv, AllOK

\* A call that changes the record of the running process.
LEMMA ReplaceKeeps ==
  ASSUME TableInv, Running, NEW p, ProcOK(p), procs' = WithProcess(p), power' = power
  PROVE  TableInv'
<1>1. AllOK(WithProcess(p)) /\ Len(WithProcess(p)) = Len(procs)
  BY ReplacedIsOK DEF TableInv, Running, WithProcess
<1> QED
  BY <1>1 DEF TableInv

LEMMA HaltKeeps ==
  ASSUME TableInv, Halt
  PROVE  TableInv'
  BY DEF TableInv, Halt

LEMMA RunningIsOK ==
  ASSUME TableInv, Running
  PROVE  ProcOK(Process)
  BY LastIsOK DEF TableInv, Running, Process

\* allocFd's descriptor is one of the table.
LEMMA FirstUnmarked ==
  ASSUME Unmarked # {}
  PROVE  Min(Unmarked) \in Fd
<1> DEFINE R == OpToRel(<, Nat)
<1>1. Unmarked \subseteq Nat /\ Unmarked \subseteq Fd
  BY FileTableAssumption DEF Unmarked, Fd
<1>2. IsWellFoundedOn(R, Nat)
  BY NatLessThanWellFounded, Zenon
<1> HIDE DEF R
<1>3. PICK x \in Unmarked : \A y \in Unmarked : ~(<<y, x>> \in R)
  BY <1>1, <1>2, WFMin
<1>4. \A y \in Unmarked : ~(y < x)
  BY <1>1, <1>3 DEF R, OpToRel
<1>5. \A y \in Unmarked : x <= y
  BY <1>1, <1>4
<1>6. Min(Unmarked) \in Unmarked
  BY <1>5 DEF Min
<1> QED
  BY <1>1, <1>6

LEMMA StepTable == TableInv /\ [FTNext]_allVars => TableInv'
<1> SUFFICES ASSUME TableInv, [FTNext]_allVars PROVE TableInv'
  OBVIOUS
<1>1. CASE UNCHANGED tableVars
  BY <1>1 DEF TableInv, tableVars
<1>2. CASE Boot
  <2>1. CASE Halt
    BY <2>1, HaltKeeps
  <2>2. ASSUME NEW p \in NewProcesses, procs' = <<p>>, power' = "on"
        PROVE  TableInv'
    BY <2>2, NewIsOK, OneIsOK, FileTableAssumption DEF TableInv
  <2> QED
    BY <1>2, <2>1, <2>2 DEF Boot
<1>3. ASSUME NEW path \in Paths, sysOpen(path)
      PROVE  TableInv'
  <2>1. CASE Halt
    BY <2>1, HaltKeeps
  <2>2. CASE Unmarked # {} /\ ~Halt
    <3> DEFINE fd == Min(Unmarked)
               x == lookup[NULL, path]
               q == [Mark(Process, fd) EXCEPT !.inode[fd] = x, !.held = @ \cup {fd}]
    <3>1. Running /\ procs' = WithProcess(q) /\ power' = power
      BY <1>3, <2>2 DEF sysOpen
    <3>2. fd \in Fd
      BY <2>2, FirstUnmarked
    <3>3. ProcOK(Process)
      BY <3>1, RunningIsOK
    <3> HIDE DEF fd, x
    <3>4. ProcOK(q)
      BY <3>2, <3>3, OpenedIsOK
    <3> HIDE DEF q
    <3> QED
      BY <3>1, <3>4, ReplaceKeeps
  <2> QED
    BY <1>3, <2>1, <2>2 DEF sysOpen
<1>4. ASSUME NEW fd \in Fd, sysClose(fd)
      PROVE  TableInv'
  <2> DEFINE q == [Process EXCEPT !.occupied[fd] = 0, !.held = @ \ {fd}, !.inode[fd] = StalePtr]
  <2>1. Running /\ procs' = WithProcess(q) /\ power' = power
    BY <1>4 DEF sysClose
  <2>2. ProcOK(q)
    BY <2>1, RunningIsOK, ClosedIsOK
  <2> HIDE DEF q
  <2> QED
    BY <2>1, <2>2, ReplaceKeeps
<1>5. ASSUME NEW fd \in Fd, NEW path \in Paths, sysCdDir(path, fd)
      PROVE  TableInv'
  <2> DEFINE x == lookup[Process.inode[fd], path]
             q == [Process EXCEPT !.inode[fd] = x]
  <2>1. Running /\ fd \in Process.held /\ power' = power /\ (procs' = WithProcess(q) \/ procs' = procs)
    BY <1>5 DEF sysCdDir, Opened
  <2> HIDE DEF x
  <2>2. ProcOK(q)
    BY <2>1, RunningIsOK, MovedIsOK
  <2> HIDE DEF q
  <2>3. CASE procs' = procs
    BY <2>1, <2>3 DEF TableInv
  <2> QED
    BY <2>1, <2>2, <2>3, ReplaceKeeps
<1>6. ASSUME NEW fd \in Fd, NEW path \in Paths, sysExec(path, fd)
      PROVE  TableInv'
  <2>1. CASE Halt
    BY <2>1, HaltKeeps
  <2>2. CASE procs' = procs /\ power' = power
    BY <2>2 DEF TableInv
  <2>3. ASSUME NEW p \in NewProcesses, procs' = Append(procs, p), Len(procs) < MaxProcs, power' = power
        PROVE  TableInv'
    <3>1. AllOK(procs') /\ Len(procs') = Len(procs) + 1
      BY <2>3, NewIsOK, AppendIsOK DEF TableInv
    <3>2. Len(procs) \in Nat
      BY DEF TableInv, AllOK
    <3> QED
      BY <2>3, <3>1, <3>2, FileTableAssumption DEF TableInv
  <2> QED
    BY <1>6, <2>1, <2>2, <2>3 DEF sysExec
<1>7. CASE sysExit
  <2>1. Running /\ procs' = SubSeq(procs, 1, Len(procs) - 1) /\ power' = power
    BY <1>7 DEF sysExit
  <2>2. AllOK(procs') /\ Len(procs') = Len(procs) - 1
    BY <2>1, ShorterIsOK DEF TableInv, Running
  <2>3. Len(procs) \in Nat
    BY DEF TableInv, AllOK
  <2> QED
    BY <2>1, <2>2, <2>3, FileTableAssumption DEF TableInv
<1>8. CASE sysShutdown
  BY <1>8, HaltKeeps DEF sysShutdown
<1>9. ASSUME NEW fd \in Fd, sysPwd(fd)
      PROVE  TableInv'
  BY <1>9, HaltKeeps DEF sysPwd, TableInv
<1>10. ASSUME NEW fd \in Fd, NEW path \in Paths, sysLsDir(path, fd)
       PROVE  TableInv'
  BY <1>10 DEF sysLsDir, TableInv
<1>11. CASE Calls
  BY <1>3, <1>4, <1>5, <1>6, <1>7, <1>8, <1>9, <1>10, <1>11 DEF Calls
<1> QED
  BY <1>1, <1>2, <1>11 DEF FTNext, Mkfs, Over, allVars, tableVars

\* For every length of the file table and whatever is in fdOccupied at first, a
\* descriptor in use is marked, so allocFd does not return it again.
THEOREM DescriptorsStayMarked == FTSpec => []HeldIsMarked
<1>1. TableInv => HeldIsMarked
  <2> SUFFICES ASSUME TableInv PROVE HeldIsMarked
    OBVIOUS
  <2>1. PICK S : procs \in Seq(S)
    BY DEF TableInv, AllOK
  <2>2. DOMAIN procs = 1 .. Len(procs)
    BY <2>1
  <2>3. \A i \in DOMAIN procs : ProcOK(procs[i])
    BY <2>2 DEF TableInv, AllOK
  <2> QED
    BY <2>3 DEF HeldIsMarked, FTTypeOK, TableInv, ProcOK
<1> QED
  BY <1>1, InitTable, StepTable, PTL DEF FTSpec
-----------------------------------------------------------------------------
(* Part 2: what mksfs writes, for every directory in which at most one     *)
(* file or directory needs an indirect block (and the stack is zero if one *)
(* does), and every order of the entries.                                  *)
(*                                                                         *)
(* The invariant speaks of four functions that are not in the state: use   *)
(* says what each block was taken for, ino is the inode of each node so    *)
(* far, cnt the number of its items, and kids the entries of a directory   *)
(* that have been added.  As in a proof with history variables, each step  *)
(* names their next values.                                                *)

Nodes == DOMAIN where
Slot  == 0 .. ItemsPerBlock - 1

EntriesOf(t, n) == {m \in DOMAIN t \ {Root} : t[m].parent = n /\ t[m].kind \in {"dir", "reg"}}

\* The nodes of a directory that need an indirect block, and those for which
\* one is enough.
IsLong(t, n) ==
  \/ t[n].kind = "dir" /\ Cardinality(EntriesOf(t, n)) + 2 > NDirect
  \/ t[n].kind = "reg" /\ t[n].size > NDirect * BlockSize
Long(t) == {n \in DOMAIN t : IsLong(t, n)}
Fits(t, n) ==
  /\ t[n].kind = "dir" => Cardinality(EntriesOf(t, n)) + 2 <= NDirect + ItemsPerBlock
  /\ t[n].kind = "reg" => t[n].size <= (NDirect + ItemsPerBlock) * BlockSize

\* The directories that mksfs packs as its author intended.
OneLongNode ==
  \A t \in Trees : /\ \A n \in DOMAIN t : Fits(t, n)
                   /\ \A m, n \in Long(t) : m = n
                   /\ Long(t) # {} => Uninit = {0}
-----------------------------------------------------------------------------
(* The blocks.                                                             *)

\* An item, as long as one indirect block is enough (ItemOf in SimpleFS).
Item(x, i) == IF i < NDirect THEN x.direct[i] ELSE image.items[x.indirect][i - NDirect]

Nil == <<"free", Root, 0>>

\* No block is taken twice.
Owned(use, ino, cnt) ==
  /\ DOMAIN use = Block
  /\ \A b \in Block : freemap[b] = 0 <=> use[b] = Nil
  /\ use[0] = <<"super", Root, 0>>
  /\ \A b \in 1 .. FreemapNum : use[b] = <<"map", Root, b>>
  /\ \A n \in Nodes :
       /\ where[n] \in Block /\ use[where[n]] = <<"inode", n, 0>>
       /\ cnt[n] > NDirect => /\ ino[n].indirect \in Block
                              /\ use[ino[n].indirect] = <<"items", n, 0>>
       /\ n \in Files => \A i \in 0 .. cnt[n] - 1 :
                           LET b == Item(ino[n], i).block
                           IN  b \in Block /\ use[b] = <<"data", n, i>>

\* No block is lost.
Accounted(use, ino, cnt) ==
  \A b \in Block : use[b] # Nil =>
    \/ b = 0 \/ b \in 1 .. FreemapNum
    \/ \E n \in Nodes : \/ b = where[n]
                        \/ cnt[n] > NDirect /\ b = ino[n].indirect
                        \/ n \in Files /\ \E i \in 0 .. cnt[n] - 1 : b = Item(ino[n], i).block
-----------------------------------------------------------------------------
(* The inodes.                                                             *)

InodeShape(x) == /\ DOMAIN x = {"size", "type", "filename", "blocks", "direct", "indirect"}
                 /\ DOMAIN x.direct = 0 .. NDirect - 1

FileSoFar(n, x, k) ==
  /\ x.type = TYPE_FILE /\ x.size = tree[n].size /\ x.blocks = BlocksOf(tree[n].size)
  /\ k = 0 \/ (k - 1) * BlockSize < tree[n].size

DirSoFar(n, x, k, added) ==
  /\ x.type = TYPE_DIR
  /\ added \subseteq EntriesOf(tree, n) \cap Nodes
  /\ k = 2 + Cardinality(added)
  /\ Item(x, 0).filename = "." /\ Item(x, 1).filename = ".."
  /\ \A i \in 2 .. k - 1 : \E m \in added : Item(x, i).filename = tree[m].name
  /\ \A m \in added : \E i \in 2 .. k - 1 : Item(x, i).filename = tree[m].name

Inodes(ino, cnt, kids) ==
  /\ DOMAIN ino = Nodes /\ DOMAIN cnt = Nodes /\ DOMAIN kids = Nodes
  /\ \A n \in Nodes :
       /\ InodeShape(ino[n]) /\ ino[n].filename = tree[n].name /\ cnt[n] \in Nat
       /\ n \in Long(tree) => (ino[n].indirect = 0 <=> cnt[n] <= NDirect)
       /\ n \in Files => FileSoFar(n, ino[n], cnt[n])
       /\ n \in Dirs  => DirSoFar(n, ino[n], cnt[n], kids[n])

\* The bytes of the files so far.
Place(i, j) == i * BlockSize + j
Bytes(ino, cnt) ==
  \A n \in Nodes \cap Files : \A i \in 0 .. cnt[n] - 1 : \A j \in 0 .. BlockSize - 1 :
    Place(i, j) < tree[n].size =>
      image.data[Item(ino[n], i).block][j] = <<n, Place(i, j)>>

\* What is left on the stack is zero until the inode of the long node is there.
Zeroed(ino) ==
  \A n \in Long(tree) \ Nodes : /\ \A m \in Nodes : ino[m].indirect = 0
                                /\ \A b \in Block : image.inode[b].indirect = 0
-----------------------------------------------------------------------------
(* The calls of walk.                                                      *)

StackOK(s) == s # <<>> /\ \E S : s \in Seq(S)

\* The entry of frame i that is being copied.
Busy(i) == IF i < Len(stack) THEN {stack[i + 1].dir}
           ELSE IF pc = "copy" THEN {file.node}
           ELSE IF pc = "add" THEN {m \in Nodes : where[m] = item.block}
           ELSE {}

FrameOK(f, busy, ino, cnt, kids) ==
  /\ DOMAIN f = {"dir", "num", "emptyIndex", "todo", "inode"}
  /\ f.dir \in Nodes \cap Dirs
  /\ f.num = where[f.dir] /\ f.inode = ino[f.dir] /\ f.emptyIndex = cnt[f.dir]
  /\ f.todo \subseteq Children(f.dir) /\ f.todo \cap Nodes = {}
  /\ busy \cap kids[f.dir] = {}
  /\ EntriesOf(tree, f.dir) = (f.todo \cap Packed) \cup kids[f.dir] \cup busy

Frames(ino, cnt, kids) ==
  /\ StackOK(stack) /\ stack[1].dir = Root
  /\ \A i \in 1 .. Len(stack) : FrameOK(stack[i], Busy(i), ino, cnt, kids)
  /\ \A i, j \in 1 .. Len(stack) : stack[i].dir = stack[j].dir => i = j

\* What is left of a file after i blocks.
LeftAfter(n, i) == IF tree[n].size <= i * BlockSize THEN 0 ELSE tree[n].size - i * BlockSize

Copying(ino, cnt) ==
  /\ pc = "copy" =>
       /\ DOMAIN file = {"node", "num", "inode", "left", "blockIndex"}
       /\ file.node \in Nodes \cap Files
       /\ file.num = where[file.node] /\ file.inode = ino[file.node] /\ file.blockIndex = cnt[file.node]
       /\ file.left = LeftAfter(file.node, cnt[file.node])
  /\ pc = "add" => \E m \in Nodes : item = [filename |-> tree[m].name, block |-> where[m]]

Open == {stack[i].dir : i \in 1 .. Len(stack)} \cup (IF pc = "copy" THEN {file.node} ELSE {})

\* What is complete is in the image.
Stored(ino, cnt, kids) ==
  \A n \in Nodes \ Open :
    /\ InodeOf(n) = ino[n]
    /\ n \in Dirs  => ino[n].blocks = cnt[n] /\ kids[n] = EntriesOf(tree, n)
    /\ n \in Files => tree[n].size <= cnt[n] * BlockSize

Written(ino, cnt) ==
  pc \in {"done", "linked"} =>
    /\ Len(stack) = 1 /\ stack[1].todo = {}
    /\ InodeOf(Root) = [ino[Root] EXCEPT !.blocks = cnt[Root]]
    /\ image.super.unusedBlocks = freenum
    /\ \A i \in 0 .. BlockNum \div 8 - 1 : image.freemap[i] = MapByte(i)
-----------------------------------------------------------------------------
ImageShape(im) ==
  /\ DOMAIN im = {"super", "freemap", "inode", "items", "data"}
  /\ DOMAIN im.inode = Block /\ DOMAIN im.items = Block /\ DOMAIN im.data = Block
  /\ \A b \in Block : /\ InodeShape(im.inode[b]) /\ DOMAIN im.items[b] = Slot
                      /\ \A k \in Slot : im.items[b][k].block \in Block

Shape ==
  /\ tree \in Trees
  /\ freemap \in [Block -> 0 .. 1] /\ freenum = Cardinality(Free)
  /\ ImageShape(image)
  /\ Nodes \subseteq Packed
  /\ Root \in Nodes /\ where[Root] = FreemapNum + 1
  /\ \A n \in Nodes \ {Root} : tree[n].parent \in Nodes
  /\ pc \in {"walk", "copy", "add", "done", "failed", "linked"}

\* What the blocks are, and where walk is.
Data(use, ino, cnt, kids) ==
  /\ Owned(use, ino, cnt) /\ Accounted(use, ino, cnt)
  /\ Inodes(ino, cnt, kids) /\ Bytes(ino, cnt) /\ Zeroed(ino)
Control(ino, cnt, kids) ==
  /\ Frames(ino, cnt, kids) /\ Copying(ino, cnt)
  /\ Stored(ino, cnt, kids) /\ Written(ino, cnt)

BuildInv(use, ino, cnt, kids) == Data(use, ino, cnt, kids) /\ Control(ino, cnt, kids)

IInv == /\ Shape /\ TypeOK
        /\ pc # "failed" => \E use, ino, cnt, kids : BuildInv(use, ino, cnt, kids)
-----------------------------------------------------------------------------
(* Numbers, finite sets and functions.                                     *)

LEMMA Constants ==
  /\ NDirect \in Nat /\ NDirect >= 2 /\ ItemsPerBlock \in Nat /\ ItemsPerBlock >= 1
  /\ BlockSize \in Nat /\ BlockSize >= 1 /\ BlockNum \in Nat /\ BlockNum >= 1
  /\ FreemapNum \in Nat /\ FreemapNum >= 1 /\ FreemapNum + 2 <= BlockNum
BY SimpleFSAssumption, MksfsAssumption

\* g is f with n mapped to x, whether or not it was mapped before.
Sets(f, g, n, x) == /\ DOMAIN g = DOMAIN f \cup {n} /\ g[n] = x
                    /\ \A m \in DOMAIN f : m # n => g[m] = f[m]

LEMMA SetsExists == \A f, n, x : \E g : Sets(f, g, n, x)
<1> TAKE f, n, x
<1> DEFINE h == [m \in DOMAIN f \cup {n} |-> IF m = n THEN x ELSE f[m]]
<1>1. Sets(f, h, n, x)
  BY DEF Sets
<1> QED
  BY <1>1

LEMMA LeastElement ==
  ASSUME NEW S, S \subseteq Nat, S # {}
  PROVE  \E b \in S : \A c \in S : ~(c < b)
<1> DEFINE R == OpToRel(<, Nat)
<1>1. IsWellFoundedOn(R, Nat)
  BY NatLessThanWellFounded, Zenon
<1> HIDE DEF R
<1>2. PICK b \in S : \A c \in S : ~(<<c, b>> \in R)
  BY <1>1, WFMin
<1> QED
  BY <1>2 DEF R, OpToRel
-----------------------------------------------------------------------------
(* getFreeBlock.                                                           *)

LEMMA FreeIsFinite == Free \subseteq Nat /\ IsFiniteSet(Free) /\ Cardinality(Free) \in Nat
<1>1. Free \subseteq Block /\ Block \subseteq Nat
  BY Constants DEF Free, Block
<1>2. IsFiniteSet(Block)
  BY Constants, FS_Interval DEF Block
<1> QED
  BY <1>1, <1>2, FS_Subset, FS_CardinalityType

\* The first free block.
LEMMA FirstFree ==
  ASSUME Enough(1)
  PROVE  FreeBlock(1) \in Free /\ Cardinality({c \in Free : c < FreeBlock(1)}) = 0
<1>1. Free # {}
  BY FS_EmptySet DEF Enough
<1>2. PICK b \in Free : \A c \in Free : ~(c < b)
  BY <1>1, FreeIsFinite, LeastElement
<1>3. {c \in Free : c < b} = {}
  BY <1>2
<1>4. Cardinality({c \in Free : c < b}) = 1 - 1
  BY <1>3, FS_EmptySet
<1>5. FreeBlock(1) \in Free /\ Cardinality({c \in Free : c < FreeBlock(1)}) = 1 - 1
  BY <1>4 DEF FreeBlock
<1> QED
  BY <1>5

\* Two free blocks.
LEMMA SecondFree ==
  ASSUME Enough(2)
  PROVE  FreeBlock(1) \in Free /\ FreeBlock(2) \in Free /\ FreeBlock(1) # FreeBlock(2)
<1>1. Enough(1)
  BY FreeIsFinite DEF Enough
<1>2. PICK b \in Free : b = FreeBlock(1) /\ Cardinality({c \in Free : c < b}) = 0
  BY <1>1, FirstFree
<1>3. {c \in Free : c < b} = {}
  <2>1. IsFiniteSet({c \in Free : c < b})
    BY FreeIsFinite, FS_Subset
  <2> QED
    BY <1>2, <2>1, FS_EmptySet
<1>4. Free \ {b} # {}
  <2>1. Cardinality(Free \ {b}) = Cardinality(Free) - 1
    BY <1>2, FreeIsFinite, FS_RemoveElement
  <2> QED
    BY <2>1, FreeIsFinite, FS_EmptySet DEF Enough
<1>5. PICK d \in Free \ {b} : \A c \in Free \ {b} : ~(c < d)
  BY <1>4, FreeIsFinite, LeastElement
<1>6. {c \in Free : c < d} = {b}
  <2>1. b < d
    BY <1>2, <1>3, <1>5, FreeIsFinite
  <2>2. \A c \in Free : c < d => c = b
    BY <1>5
  <2> QED
    BY <2>1, <2>2
<1>7. Cardinality({c \in Free : c < d}) = 2 - 1
  BY <1>6, FS_Singleton
<1>8. FreeBlock(2) \in Free /\ Cardinality({c \in Free : c < FreeBlock(2)}) = 2 - 1
  BY <1>5, <1>7 DEF FreeBlock
<1> QED
  BY <1>2, <1>8

LEMMA TakeNone ==
  ASSUME Shape, TakeBlocks(0)
  PROVE  freemap' = freemap /\ freenum' = freenum
<1>1. \A j \in 1 .. 0 : FALSE
  OBVIOUS
<1>2. freenum \in Nat
  BY FreeIsFinite DEF Shape
<1> QED
  BY <1>1, <1>2 DEF Shape, TakeBlocks

LEMMA TakeOne ==
  ASSUME Shape, Enough(1), TakeBlocks(1)
  PROVE  /\ FreeBlock(1) \in Block /\ freemap[FreeBlock(1)] = 0
         /\ \A b \in Block : freemap'[b] = IF b = FreeBlock(1) THEN 1 ELSE freemap[b]
         /\ freemap' \in [Block -> 0 .. 1] /\ freenum' = Cardinality(Free')
<1>1. FreeBlock(1) \in Free
  BY FirstFree
<1>2. \A b : (\E j \in 1 .. 1 : b = FreeBlock(j)) <=> b = FreeBlock(1)
  OBVIOUS
<1>3. /\ \A b \in Block : freemap'[b] = IF b = FreeBlock(1) THEN 1 ELSE freemap[b]
      /\ freemap' \in [Block -> 0 .. 1] /\ freenum' = freenum - 1
  BY <1>2 DEF Shape, TakeBlocks
<1>4. Free' = Free \ {FreeBlock(1)}
  BY <1>3 DEF Free
<1>5. Cardinality(Free \ {FreeBlock(1)}) = Cardinality(Free) - 1
  BY <1>1, FreeIsFinite, FS_RemoveElement
<1> QED
  BY <1>1, <1>3, <1>4, <1>5 DEF Shape, Free

LEMMA TakeTwo ==
  ASSUME Shape, Enough(2), TakeBlocks(2)
  PROVE  /\ FreeBlock(1) \in Block /\ freemap[FreeBlock(1)] = 0
         /\ FreeBlock(2) \in Block /\ freemap[FreeBlock(2)] = 0
         /\ FreeBlock(1) # FreeBlock(2)
         /\ \A b \in Block : freemap'[b] = IF b = FreeBlock(1) \/ b = FreeBlock(2) THEN 1
                                           ELSE freemap[b]
         /\ freemap' \in [Block -> 0 .. 1] /\ freenum' = Cardinality(Free')
<1>1. FreeBlock(1) \in Free /\ FreeBlock(2) \in Free /\ FreeBlock(1) # FreeBlock(2)
  BY SecondFree
<1>2. \A b : (\E j \in 1 .. 2 : b = FreeBlock(j)) <=> b = FreeBlock(1) \/ b = FreeBlock(2)
  <2>1. \A j \in 1 .. 2 : j = 1 \/ j = 2
    OBVIOUS
  <2> QED
    BY <2>1
<1>3. /\ \A b \in Block : freemap'[b] = IF b = FreeBlock(1) \/ b = FreeBlock(2) THEN 1
                                        ELSE freemap[b]
      /\ freemap' \in [Block -> 0 .. 1] /\ freenum' = freenum - 2
  BY <1>2 DEF Shape, TakeBlocks
<1>4. Free' = (Free \ {FreeBlock(1)}) \ {FreeBlock(2)}
  BY <1>3 DEF Free
<1>5. /\ IsFiniteSet(Free \ {FreeBlock(1)})
      /\ Cardinality(Free \ {FreeBlock(1)}) = Cardinality(Free) - 1
  BY <1>1, FreeIsFinite, FS_RemoveElement
<1>6. Cardinality((Free \ {FreeBlock(1)}) \ {FreeBlock(2)}) = Cardinality(Free) - 1 - 1
  BY <1>1, <1>5, FS_RemoveElement
<1>7. freenum' = Cardinality(Free')
  BY <1>3, <1>4, <1>6, FreeIsFinite DEF Shape
<1> QED
  BY <1>1, <1>3, <1>7 DEF Free
-----------------------------------------------------------------------------
(* The directory on the host.                                              *)

LEMMA TreeFacts ==
  ASSUME Shape
  PROVE  /\ tree \in Trees /\ IsFiniteSet(DOMAIN tree) /\ Root \in Dirs
         /\ tree[Root].name = "/"
         /\ \A n \in DOMAIN tree : tree[n].size \in Nat
         /\ \A n \in DOMAIN tree \ {Root} : tree[n].name \notin {".", ".."} /\ tree[n].parent \in Dirs
         /\ \A m, n \in DOMAIN tree \ {Root} :
              tree[m].parent = tree[n].parent /\ tree[m].name = tree[n].name => m = n
BY TreeAssumption DEF Shape, Dirs

LEMMA Kinds ==
  /\ Packed \subseteq DOMAIN tree /\ Dirs \subseteq Packed /\ Files \subseteq Packed
  /\ \A n : ~(n \in Dirs /\ n \in Files)
  /\ \A n \in Packed : n \in Dirs \/ n \in Files
BY DEF Packed, Dirs, Files

LEMMA EntriesAre ==
  \A n : /\ EntriesOf(tree, n) = Children(n) \cap Packed
         /\ Root \notin EntriesOf(tree, n)
         /\ \A m \in EntriesOf(tree, n) : m \in Packed /\ tree[m].parent = n
BY DEF EntriesOf, Children, Packed, Dirs, Files

LEMMA EntriesAreFinite ==
  ASSUME Shape, NEW n
  PROVE  /\ IsFiniteSet(EntriesOf(tree, n)) /\ Cardinality(EntriesOf(tree, n)) \in Nat
         /\ \A S \in SUBSET EntriesOf(tree, n) :
              /\ IsFiniteSet(S) /\ Cardinality(S) \in Nat
              /\ Cardinality(S) <= Cardinality(EntriesOf(tree, n))
<1>1. EntriesOf(tree, n) \subseteq DOMAIN tree
  BY DEF EntriesOf
<1>2. IsFiniteSet(EntriesOf(tree, n))
  BY <1>1, TreeFacts, FS_Subset
<1> QED
  BY <1>2, FS_Subset, FS_CardinalityType
-----------------------------------------------------------------------------
(* Stores.                                                                 *)

LEMMA StaleShape == InodeShape(StaleInode) /\ StaleInode.indirect = 0
BY DEF InodeShape, StaleInode

LEMMA PutInodeWrites ==
  ASSUME NEW im, ImageShape(im), NEW b \in Block, NEW x, InodeShape(x)
  PROVE  LET to == PutInode(im, b, x)
         IN  /\ ImageShape(to) /\ to.super = im.super /\ to.freemap = im.freemap
             /\ to.inode[b] = x
             /\ \A c \in Block \ {b} : /\ to.inode[c] = im.inode[c] /\ to.items[c] = im.items[c]
                                       /\ to.data[c] = im.data[c]
<1> DEFINE to == PutInode(im, b, x)
<1>1. /\ DOMAIN to = {"super", "freemap", "inode", "items", "data"}
      /\ to.super = im.super /\ to.freemap = im.freemap
      /\ to.inode = [im.inode EXCEPT ![b] = x]
      /\ to.items = [im.items EXCEPT ![b] = [k \in Slot |-> StaleItem]]
      /\ to.data = [im.data EXCEPT ![b] = [j \in 0 .. BlockSize - 1 |-> StaleByte]]
  BY DEF PutInode, ImageShape, Slot
<1> HIDE DEF to
<1>2. 0 \in Block
  BY Constants DEF Block
<1>3. ImageShape(to)
  BY <1>1, <1>2 DEF ImageShape, StaleItem
<1> QED
  BY <1>1, <1>3 DEF to, ImageShape

LEMMA PutBytesWrites ==
  ASSUME NEW im, ImageShape(im), NEW b \in Block, NEW n, NEW from, NEW size
  PROVE  LET to == PutBytes(im, b, n, from, size)
         IN  /\ ImageShape(to) /\ to.inode[b] = StaleInode
             /\ \A j \in 0 .. BlockSize - 1 : j < size => to.data[b][j] = <<n, from + j>>
             /\ \A c \in Block \ {b} : /\ to.inode[c] = im.inode[c] /\ to.items[c] = im.items[c]
                                       /\ to.data[c] = im.data[c]
<1> DEFINE to == PutBytes(im, b, n, from, size)
           row == [j \in 0 .. BlockSize - 1 |-> IF j < size THEN <<n, from + j>> ELSE im.data[b][j]]
<1>1. /\ DOMAIN to = {"super", "freemap", "inode", "items", "data"}
      /\ to.inode = [im.inode EXCEPT ![b] = StaleInode]
      /\ to.items = [im.items EXCEPT ![b] = [k \in Slot |-> StaleItem]]
      /\ to.data = [im.data EXCEPT ![b] = row]
  BY DEF PutBytes, ImageShape, Slot
<1>2. \A j \in 0 .. BlockSize - 1 : j < size => row[j] = <<n, from + j>>
  OBVIOUS
<1> HIDE DEF to, row
<1>3. 0 \in Block
  BY Constants DEF Block
<1>4. ImageShape(to)
  BY <1>1, <1>3, StaleShape DEF ImageShape, StaleItem
<1> QED
  BY <1>1, <1>2, <1>4 DEF to, ImageShape

LEMMA PutItemWrites ==
  ASSUME NEW im, ImageShape(im), NEW b \in Block, NEW k \in Slot, NEW it, it.block \in Block
  PROVE  LET to == PutItem(im, b, k, it)
         IN  /\ ImageShape(to) /\ to.inode[b] = StaleInode
             /\ to.items[b] = [im.items[b] EXCEPT ![k] = it]
             /\ \A c \in Block \ {b} : /\ to.inode[c] = im.inode[c] /\ to.items[c] = im.items[c]
                                       /\ to.data[c] = im.data[c]
<1> DEFINE to == PutItem(im, b, k, it)
<1>1. k \in Nat /\ k < ItemsPerBlock /\ b \in Int
  BY Constants DEF Slot, Block
<1>2. k \div ItemsPerBlock = 0 /\ k % ItemsPerBlock = k
  BY <1>1, Constants, Z3
<1>3. b + k \div ItemsPerBlock = b
  BY <1>1, <1>2
<1>4. /\ DOMAIN to = {"super", "freemap", "inode", "items", "data"}
      /\ to.inode = [im.inode EXCEPT ![b] = StaleInode]
      /\ to.items = [im.items EXCEPT ![b] = [im.items[b] EXCEPT ![k] = it]]
      /\ to.data = [im.data EXCEPT ![b] = [j \in 0 .. BlockSize - 1 |-> StaleByte]]
  BY <1>2, <1>3 DEF PutItem, ImageShape
<1> HIDE DEF to
<1>5. ImageShape(to)
  BY <1>4, StaleShape DEF ImageShape
<1> QED
  BY <1>4, <1>5 DEF to, ImageShape
-----------------------------------------------------------------------------
(* How many items a node has.                                              *)

LEMMA TimesLess ==
  ASSUME NEW a \in Int, NEW b \in Int, NEW c \in Nat, c >= 1
  PROVE  a * c < b * c => a < b
<1> SUFFICES ASSUME b <= a PROVE b * c <= a * c
  OBVIOUS
<1>1. (a - b) * c >= 0
  BY Z3
<1>2. (a - b) * c = a * c - b * c
  BY Z3
<1> QED
  BY <1>1, <1>2

\* Whatever mksfs has stored so far fits one indirect block, and only the long
\* node needs one.
LEMMA CountFacts ==
  ASSUME OneLongNode, Shape, NEW n \in Packed, NEW k \in Nat,
         n \in Files => k = 0 \/ (k - 1) * BlockSize < tree[n].size,
         NEW added, n \in Dirs => added \subseteq EntriesOf(tree, n) /\ k = 2 + Cardinality(added)
  PROVE  k <= NDirect + ItemsPerBlock /\ (k > NDirect => n \in Long(tree))
<1>1. tree \in Trees /\ n \in DOMAIN tree /\ Fits(tree, n) /\ tree[n].size \in Nat
  BY TreeFacts, Kinds DEF OneLongNode
<1>2. CASE n \in Files
  <2>1. tree[n].kind = "reg" /\ tree[n].size <= (NDirect + ItemsPerBlock) * BlockSize
    BY <1>1, <1>2 DEF Files, Fits
  <2>2. k # 0 => k - 1 < NDirect + ItemsPerBlock
    <3> SUFFICES ASSUME k # 0 PROVE k - 1 < NDirect + ItemsPerBlock
      OBVIOUS
    <3> DEFINE top == NDirect + ItemsPerBlock
               x == (k - 1) * BlockSize
               y == top * BlockSize
    <3>1. x < tree[n].size /\ tree[n].size <= y
      BY <1>2, <2>1
    <3>2. k - 1 \in Int /\ top \in Int /\ x \in Int /\ y \in Int
      BY Constants
    <3>3. x < y
      <4> HIDE DEF x, y
      <4> QED BY <1>1, <3>1, <3>2
    <3> QED
      BY <3>2, <3>3, Constants, TimesLess
  <2>3. ASSUME k > NDirect PROVE tree[n].size > NDirect * BlockSize
    <3> DEFINE x == (k - 1) * BlockSize
               y == NDirect * BlockSize
    <3>1. x < tree[n].size
      BY <1>2, <2>3, Constants
    <3>2. k - 1 \in Int /\ x \in Int /\ y \in Int
      BY Constants
    <3>3. ~(x < y)
      BY <2>3, <3>2, Constants, TimesLess
    <3> HIDE DEF x, y
    <3>4. y < tree[n].size
      BY <1>1, <3>1, <3>2, <3>3
    <3> QED
      BY <3>4 DEF y
  <2>4. k <= NDirect + ItemsPerBlock
    BY <2>2, Constants
  <2> QED
    BY <1>1, <2>1, <2>3, <2>4 DEF Long, IsLong
<1>3. CASE n \in Dirs
  <2>1. tree[n].kind = "dir" /\ Cardinality(EntriesOf(tree, n)) + 2 <= NDirect + ItemsPerBlock
    BY <1>1, <1>3 DEF Dirs, Fits
  <2>2. k <= Cardinality(EntriesOf(tree, n)) + 2 /\ Cardinality(EntriesOf(tree, n)) \in Nat
    BY <1>3, EntriesAreFinite
  <2> QED
    BY <1>1, <2>1, <2>2, Constants DEF Long, IsLong
<1> QED
  BY <1>2, <1>3, Kinds

LEMMA ItemsFit ==
  ASSUME OneLongNode, Shape, NEW ino, NEW cnt, NEW kids, Inodes(ino, cnt, kids), NEW n \in Nodes
  PROVE  /\ cnt[n] \in Nat /\ cnt[n] <= NDirect + ItemsPerBlock
         /\ cnt[n] > NDirect => n \in Long(tree)
<1>1. n \in Packed /\ cnt[n] \in Nat
  BY DEF Shape, Inodes
<1>2. n \in Files => cnt[n] = 0 \/ (cnt[n] - 1) * BlockSize < tree[n].size
  BY DEF Inodes, FileSoFar
<1>3. n \in Dirs => kids[n] \subseteq EntriesOf(tree, n) /\ cnt[n] = 2 + Cardinality(kids[n])
  BY DEF Inodes, DirSoFar
<1> QED
  BY <1>1, <1>2, <1>3, CountFacts
-----------------------------------------------------------------------------
(* A node is entered.                                                      *)

LEMMA SameTree ==
  ASSUME tree' = tree
  PROVE  /\ Dirs' = Dirs /\ Files' = Files /\ Packed' = Packed
         /\ \A n : Children(n)' = Children(n)
BY DEF Dirs, Files, Packed, Children

LEMMA SameItem ==
  ASSUME image' = image
  PROVE  \A x, i : Item(x, i)' = Item(x, i)
BY DEF Item

LEMMA UsedIsNotFree ==
  ASSUME NEW use, NEW ino, NEW cnt, Owned(use, ino, cnt), NEW b \in Block, freemap[b] = 0
  PROVE  /\ b # 0 /\ b \notin 1 .. FreemapNum
         /\ \A n \in Nodes :
              /\ b # where[n] /\ (cnt[n] > NDirect => b # ino[n].indirect)
              /\ n \in Files => \A i \in 0 .. cnt[n] - 1 : b # Item(ino[n], i).block
<1>1. use[b] = Nil
  BY DEF Owned
<1> QED
  BY <1>1 DEF Owned, Nil

\* While the long node is still to come, nothing else than zero is left on the stack.
LEMMA LeftoverIsZero ==
  ASSUME OneLongNode, Shape, NEW ino, Zeroed(ino), NEW l \in Long(tree) \ Nodes, NEW g \in Leftover
  PROVE  g = 0
<1>1. Uninit = {0}
  BY DEF OneLongNode, Shape
<1> QED
  BY <1>1 DEF Leftover, Zeroed

NewInodeOK(n, x, k) ==
  /\ InodeShape(x) /\ x.filename = tree[n].name /\ x.indirect \in Leftover
  /\ n \in Files => k = 0 /\ FileSoFar(n, x, 0)
  /\ n \in Dirs  => k = 2 /\ x.type = TYPE_DIR /\ x.direct[0].filename = "." /\ x.direct[1].filename = ".."

Entering(use, ino, cnt, kids, n, b, x, k, use2, ino2, cnt2, kids2) ==
  /\ n \in Packed /\ n \notin Nodes /\ b \in Block /\ freemap[b] = 0
  /\ Sets(where, where', n, b)
  /\ \A c \in Block : freemap'[c] = IF c = b THEN 1 ELSE freemap[c]
  /\ UNCHANGED <<tree, image>> /\ NewInodeOK(n, x, k)
  /\ Sets(use, use2, b, <<"inode", n, 0>>) /\ Sets(ino, ino2, n, x) /\ Sets(cnt, cnt2, n, k)
  /\ Sets(kids, kids2, n, {})

LEMMA NewNode ==
  ASSUME OneLongNode, Shape, NEW use, NEW ino, NEW cnt, NEW kids, Data(use, ino, cnt, kids),
         NEW n, NEW b, NEW x, NEW k, NEW use2, NEW ino2, NEW cnt2, NEW kids2,
         Entering(use, ino, cnt, kids, n, b, x, k, use2, ino2, cnt2, kids2)
  PROVE  Data(use2, ino2, cnt2, kids2)'
<1> USE DEF Entering, Data
<1>1. /\ Nodes' = Nodes \cup {n} /\ where'[n] = b
      /\ \A m \in Nodes : m # n /\ where'[m] = where[m]
  BY DEF Sets, Nodes
<1>2. /\ ino2[n] = x /\ cnt2[n] = k /\ kids2[n] = {} /\ use2[b] = <<"inode", n, 0>>
      /\ DOMAIN ino2 = Nodes' /\ DOMAIN cnt2 = Nodes' /\ DOMAIN kids2 = Nodes' /\ DOMAIN use2 = Block
      /\ \A m \in Nodes : ino2[m] = ino[m] /\ cnt2[m] = cnt[m] /\ kids2[m] = kids[m]
      /\ \A c \in Block : c # b => use2[c] = use[c]
  BY <1>1 DEF Sets, Inodes, Owned
<1>3. Dirs' = Dirs /\ Files' = Files
  BY SameTree
<1>4. \A y, i : Item(y, i)' = Item(y, i)
  BY SameItem
<1>5. k \in Nat /\ k <= NDirect /\ (n \in Files => k = 0)
  BY Kinds, Constants DEF NewInodeOK
<1>0. /\ b # 0 /\ b \notin 1 .. FreemapNum
      /\ \A m \in Nodes : /\ b # where[m] /\ (cnt[m] > NDirect => b # ino[m].indirect)
                          /\ m \in Files => \A i \in 0 .. cnt[m] - 1 : b # Item(ino[m], i).block
  BY UsedIsNotFree
<1>6. Owned(use2, ino2, cnt2)'
  <2>1. \A c \in Block : freemap'[c] = 0 <=> use2[c] = Nil
    BY <1>2 DEF Owned, Nil
  <2>2. use2[0] = <<"super", Root, 0>> /\ \A c \in 1 .. FreemapNum : use2[c] = <<"map", Root, c>>
    <3>1. 0 \in Block /\ 1 .. FreemapNum \subseteq Block
      BY Constants DEF Block
    <3>2. use[0] = <<"super", Root, 0>> /\ \A c \in 1 .. FreemapNum : use[c] = <<"map", Root, c>>
      BY DEF Owned
    <3> QED
      BY <1>0, <1>2, <3>1, <3>2
  <2>3. ASSUME NEW m \in Nodes
        PROVE  /\ where'[m] \in Block /\ use2[where'[m]] = <<"inode", m, 0>>
               /\ cnt2[m] > NDirect => /\ ino2[m].indirect \in Block
                                       /\ use2[ino2[m].indirect] = <<"items", m, 0>>
               /\ m \in Files => \A i \in 0 .. cnt2[m] - 1 :
                    LET c == Item(ino2[m], i).block IN c \in Block /\ use2[c] = <<"data", m, i>>
    <3>1. where[m] # b /\ where[m] \in Block /\ use[where[m]] = <<"inode", m, 0>>
      BY <1>0 DEF Owned
    <3>2. cnt[m] > NDirect => /\ ino[m].indirect # b /\ ino[m].indirect \in Block
                              /\ use[ino[m].indirect] = <<"items", m, 0>>
      BY <1>0 DEF Owned
    <3>3. m \in Files => \A i \in 0 .. cnt[m] - 1 :
            LET c == Item(ino[m], i).block IN c # b /\ c \in Block /\ use[c] = <<"data", m, i>>
      BY <1>0 DEF Owned
    <3> QED
      BY SMTT(30), <1>1, <1>2, <3>1, <3>2, <3>3
  <2>4. /\ where'[n] \in Block /\ use2[where'[n]] = <<"inode", n, 0>> /\ ~(cnt2[n] > NDirect)
        /\ n \in Files => \A i \in 0 .. cnt2[n] - 1 : FALSE
    BY <1>1, <1>2, <1>5, Constants
  <2> QED
    BY <1>1, <1>2, <1>3, <1>4, <2>1, <2>2, <2>3, <2>4 DEF Owned
<1>7. Accounted(use2, ino2, cnt2)'
  BY <1>1, <1>2, <1>3, <1>4 DEF Accounted, Owned
<1>8. Inodes(ino2, cnt2, kids2)'
  <2>1. ASSUME NEW m \in Nodes
        PROVE  /\ InodeShape(ino2[m]) /\ ino2[m].filename = tree[m].name /\ cnt2[m] \in Nat
               /\ m \in Long(tree) => (ino2[m].indirect = 0 <=> cnt2[m] <= NDirect)
               /\ m \in Files => FileSoFar(m, ino2[m], cnt2[m])'
               /\ m \in Dirs  => DirSoFar(m, ino2[m], cnt2[m], kids2[m])'
    BY <1>1, <1>2, <1>4, <2>1 DEF Inodes, FileSoFar, DirSoFar
  <2>2. n \in Long(tree) => ino2[n].indirect = 0
    BY <1>2, LeftoverIsZero DEF NewInodeOK
  <2>3. n \in Files => FileSoFar(n, ino2[n], cnt2[n])'
    BY <1>2 DEF NewInodeOK, FileSoFar
  <2>4. n \in Dirs => DirSoFar(n, ino2[n], cnt2[n], kids2[n])'
    BY <1>2, FS_EmptySet, Constants DEF NewInodeOK, DirSoFar, Item
  <2> QED
    BY <1>1, <1>2, <1>3, <1>5, <2>1, <2>2, <2>3, <2>4 DEF Inodes, NewInodeOK
<1>9. Bytes(ino2, cnt2)'
  <2>1. n \in Files => \A i \in 0 .. cnt2[n] - 1 : FALSE
    BY <1>2, <1>5
  <2>2. ASSUME NEW m \in Nodes \cap Files, NEW i \in 0 .. cnt[m] - 1, NEW j \in 0 .. BlockSize - 1,
               Place(i, j) < tree[m].size
        PROVE  image.data[Item(ino[m], i).block][j] = <<m, Place(i, j)>>
    BY <2>2 DEF Bytes
  <2>3. ASSUME NEW m \in Nodes' \cap Files, NEW i \in 0 .. cnt2[m] - 1,
               NEW j \in 0 .. BlockSize - 1, Place(i, j) < tree[m].size
        PROVE  image.data[Item(ino2[m], i).block][j] = <<m, Place(i, j)>>
    <3>1. m \in Nodes /\ i \in 0 .. cnt[m] - 1 /\ ino2[m] = ino[m]
      BY <1>1, <1>2, <2>1, <2>3
    <3> QED
      BY <2>2, <2>3, <3>1
  <2>4. image' = image /\ tree' = tree
    OBVIOUS
  <2> QED
    BY <1>3, <1>4, <2>3, <2>4 DEF Bytes
<1>10. Zeroed(ino2)'
  <2> SUFFICES ASSUME NEW l \in Long(tree) \ Nodes, l # n
               PROVE  /\ \A m \in Nodes \cup {n} : ino2[m].indirect = 0
                      /\ \A c \in Block : image.inode[c].indirect = 0
    BY <1>1 DEF Zeroed
  <2>1. x.indirect = 0
    BY LeftoverIsZero DEF NewInodeOK
  <2> QED
    BY <1>2, <2>1 DEF Zeroed
<1> QED
  BY <1>6, <1>7, <1>8, <1>9, <1>10
-----------------------------------------------------------------------------
(* An item is added to a node: number k of n, which gives the inode y.  Of a *)
(* file the item is block b1; b2 becomes the indirect block if there is none. *)

\* What is added.
ItemFor(kids, n, k, it, b1, added) ==
  /\ n \in Files => it.block = b1 /\ k * BlockSize < tree[n].size
  /\ n \in Dirs  => \E m \in EntriesOf(tree, n) \cap Nodes :
                      m \notin kids[n] /\ it.filename = tree[m].name /\ added = kids[n] \cup {m}

\* The blocks that are taken, and what for.
Uses(use, n, k, x, b1, b2, use2) ==
  /\ DOMAIN use2 = Block
  /\ \A c \in Block : use2[c] = IF n \in Files /\ c = b1 THEN <<"data", n, k>>
                                ELSE IF NeedsIndirect(x, k) /\ c = b2 THEN <<"items", n, 0>> ELSE use[c]
Takes(use, n, k, x, b1, b2, use2) ==
  /\ n \in Files => b1 \in Block /\ freemap[b1] = 0
  /\ NeedsIndirect(x, k) => b2 \in Block /\ freemap[b2] = 0 /\ (n \in Files => b1 # b2)
  /\ \A c \in Block :
       freemap'[c] = IF (n \in Files /\ c = b1) \/ (NeedsIndirect(x, k) /\ c = b2) THEN 1 ELSE freemap[c]
  /\ Uses(use, n, k, x, b1, b2, use2)

\* The blocks that are written.
Touched(n, k, y, b1) == (IF n \in Files THEN {b1} ELSE {}) \cup (IF k >= NDirect THEN {y.indirect} ELSE {})
Writes(n, k, y, it, b1) ==
  /\ \A c \in Block \ Touched(n, k, y, b1) : /\ image'.inode[c] = image.inode[c]
                                             /\ image'.items[c] = image.items[c]
                                             /\ image'.data[c] = image.data[c]
  /\ \A c \in Touched(n, k, y, b1) : image'.inode[c].indirect = 0
  /\ k >= NDirect => image'.items[y.indirect] = [image.items[y.indirect] EXCEPT ![k - NDirect] = it]
  /\ n \in Files => \A j \in 0 .. BlockSize - 1 :
                      Place(k, j) < tree[n].size => image'.data[b1][j] = <<n, Place(k, j)>>

LEMMA LongNeeds ==
  ASSUME OneLongNode, Shape, NEW ino, NEW cnt, NEW kids, Inodes(ino, cnt, kids),
         NEW n \in Nodes, NEW it, NEW b1, NEW added, ItemFor(kids, n, cnt[n], it, b1, added)
  PROVE  /\ cnt[n] \in Nat /\ cnt[n] < NDirect + ItemsPerBlock
         /\ cnt[n] >= NDirect => n \in Long(tree)
         /\ NeedsIndirect(ino[n], cnt[n]) <=> cnt[n] = NDirect
         /\ n \in Dirs => cnt[n] + 1 = 2 + Cardinality(added)
<1>1. n \in Packed /\ cnt[n] \in Nat
  BY DEF Shape, Inodes
<1>2. n \in Files => (cnt[n] + 1 - 1) * BlockSize < tree[n].size
  BY <1>1 DEF ItemFor
<1>3. n \in Dirs => added \subseteq EntriesOf(tree, n) /\ cnt[n] + 1 = 2 + Cardinality(added)
  <2> SUFFICES ASSUME n \in Dirs
               PROVE  added \subseteq EntriesOf(tree, n) /\ cnt[n] + 1 = 2 + Cardinality(added)
    OBVIOUS
  <2>1. PICK m \in EntriesOf(tree, n) : m \notin kids[n] /\ added = kids[n] \cup {m}
    BY DEF ItemFor
  <2>2. kids[n] \subseteq EntriesOf(tree, n) /\ cnt[n] = 2 + Cardinality(kids[n])
    BY DEF Inodes, DirSoFar
  <2>3. IsFiniteSet(kids[n]) /\ Cardinality(kids[n]) \in Nat
    BY <2>2, EntriesAreFinite
  <2>4. Cardinality(added) = Cardinality(kids[n]) + 1
    BY <2>1, <2>3, FS_AddElement
  <2> QED
    BY <2>1, <2>2, <2>3, <2>4
<1>4. /\ cnt[n] + 1 <= NDirect + ItemsPerBlock
      /\ cnt[n] + 1 > NDirect => n \in Long(tree)
  <2> DEFINE k == cnt[n] + 1
  <2>1. /\ k \in Nat /\ (n \in Files => (k - 1) * BlockSize < tree[n].size)
        /\ n \in Dirs => added \subseteq EntriesOf(tree, n) /\ k = 2 + Cardinality(added)
    BY <1>1, <1>2, <1>3
  <2> HIDE DEF k
  <2>2. k <= NDirect + ItemsPerBlock /\ (k > NDirect => n \in Long(tree))
    BY <1>1, <2>1, CountFacts
  <2> QED
    BY <2>2 DEF k
<1>5. cnt[n] >= NDirect => n \in Long(tree)
  BY <1>1, <1>4, Constants
<1>6. n \in Long(tree) => (ino[n].indirect = 0 <=> cnt[n] <= NDirect)
  BY DEF Inodes
<1>7. NeedsIndirect(ino[n], cnt[n]) <=> cnt[n] = NDirect
  BY <1>1, <1>5, <1>6, Constants DEF NeedsIndirect
<1> QED
  BY <1>1, <1>3, <1>4, <1>5, <1>7, Constants

\* The inode with the item.
LEMMA WithItemIs ==
  ASSUME NEW x, InodeShape(x), NEW k \in Nat, NEW it, NEW b2, NEW y, y = WithItem(x, k, it, b2)
  PROVE  /\ InodeShape(y) /\ y.filename = x.filename /\ y.type = x.type
         /\ y.size = x.size /\ y.blocks = x.blocks
         /\ y.indirect = IF NeedsIndirect(x, k) THEN b2 ELSE x.indirect
         /\ \A j \in 0 .. NDirect - 1 : y.direct[j] = IF j = k THEN it ELSE x.direct[j]
<1>1. CASE k < NDirect
  <2>1. y = [x EXCEPT !.direct[k] = it]
    BY <1>1 DEF WithItem
  <2>2. ~NeedsIndirect(x, k)
    BY <1>1, Constants DEF NeedsIndirect
  <2>3. k \in 0 .. NDirect - 1
    BY <1>1, Constants
  <2> QED
    BY <2>1, <2>2, <2>3 DEF InodeShape
<1>2. CASE ~(k < NDirect)
  <2>1. y = IF NeedsIndirect(x, k) THEN [x EXCEPT !.indirect = b2] ELSE x
    BY <1>2 DEF WithItem
  <2>2. k \notin 0 .. NDirect - 1
    BY <1>2, Constants
  <2> QED
    BY <2>1, <2>2 DEF InodeShape
<1> QED
  BY <1>1, <1>2

Adding(use, ino, cnt, kids, n, it, b1, b2, added, y, use2, ino2) ==
  /\ Owned(use, ino, cnt) /\ Inodes(ino, cnt, kids) /\ n \in Nodes
  /\ ItemFor(kids, n, cnt[n], it, b1, added) /\ y = WithItem(ino[n], cnt[n], it, b2)
  /\ Takes(use, n, cnt[n], ino[n], b1, b2, use2) /\ Writes(n, cnt[n], y, it, b1)
  /\ Sets(ino, ino2, n, y)

\* The items so far stay as they are, and the next one is there.
LEMMA ItemsKept ==
  ASSUME OneLongNode, Shape, NEW use, NEW ino, NEW cnt, NEW kids, NEW n, NEW it, NEW b1, NEW b2,
         NEW added, NEW y, NEW use2, NEW ino2,
         Adding(use, ino, cnt, kids, n, it, b1, b2, added, y, use2, ino2)
  PROVE  /\ \A m \in Nodes : \A j \in 0 .. cnt[m] - 1 : Item(ino2[m], j)' = Item(ino[m], j)
         /\ Item(y, cnt[n])' = it
         /\ y.indirect = IF cnt[n] = NDirect THEN b2 ELSE ino[n].indirect
         /\ cnt[n] >= NDirect => y.indirect \in Block
<1> USE DEF Adding
<1> DEFINE k == cnt[n]
<1>1. /\ k \in Nat /\ k < NDirect + ItemsPerBlock
      /\ NeedsIndirect(ino[n], k) <=> k = NDirect
  BY LongNeeds
<1>2. InodeShape(ino[n])
  BY DEF Inodes
<1>3. /\ y.indirect = IF NeedsIndirect(ino[n], k) THEN b2 ELSE ino[n].indirect
      /\ \A j \in 0 .. NDirect - 1 : y.direct[j] = IF j = k THEN it ELSE ino[n].direct[j]
  BY <1>1, <1>2, WithItemIs
<1>4. /\ n \in Files => b1 \in Block /\ freemap[b1] = 0
      /\ k = NDirect => b2 \in Block /\ freemap[b2] = 0
      /\ n \in Files /\ k = NDirect => b1 # b2
  BY <1>1 DEF Takes
<1>5. k > NDirect => ino[n].indirect \in Block /\ use[ino[n].indirect] = <<"items", n, 0>>
  BY DEF Owned
<1>6. k >= NDirect => y.indirect \in Block
  BY <1>1, <1>3, <1>4, <1>5, Constants
<1>7. \A c \in Block : freemap[c] = 0 <=> use[c] = Nil
  BY DEF Owned
<1>8. /\ \A c \in Block : ~(n \in Files /\ c = b1) /\ ~(k >= NDirect /\ c = y.indirect) =>
                            image'.items[c] = image.items[c]
      /\ k >= NDirect => image'.items[y.indirect] = [image.items[y.indirect] EXCEPT ![k - NDirect] = it]
  BY DEF Writes, Touched
<1>9. k >= NDirect => DOMAIN image.items[y.indirect] = Slot
  BY <1>6 DEF Shape, ImageShape
<1>10. ino2[n] = y /\ \A m \in Nodes : m # n => ino2[m] = ino[m]
  BY DEF Sets, Inodes
<1>11. \A m \in Nodes : cnt[m] \in Nat /\ cnt[m] <= NDirect + ItemsPerBlock
  BY ItemsFit
<1> HIDE DEF k
<1>12. ASSUME NEW m \in Nodes, NEW j \in 0 .. cnt[m] - 1
       PROVE  Item(ino2[m], j)' = Item(ino[m], j)
  <2>1. j \in Nat /\ j < cnt[m]
    BY <1>11
  <2>2. CASE j < NDirect
    <3>1. m = n => j # k
      BY <2>1 DEF k
    <3>2. ino2[m].direct[j] = ino[m].direct[j]
      BY <1>3, <1>10, <2>1, <2>2, <3>1, Constants
    <3> QED
      BY <2>2, <3>2 DEF Item
  <2>3. CASE ~(j < NDirect)
    <3> DEFINE c == ino[m].indirect
    <3>1. c \in Block /\ use[c] = <<"items", m, 0>>
      BY <1>11, <2>1, <2>3, Constants DEF Owned
    <3>2. ~(n \in Files /\ c = b1)
      BY <1>4, <1>7, <3>1 DEF Nil
    <3>3. CASE m = n
      <4>1. k > NDirect
        BY <1>1, <2>1, <2>3, <3>3, Constants DEF k
      <4>2. y.indirect = c
        BY <1>1, <1>3, <3>3, <4>1, Constants
      <4>3. image'.items[c] = [image.items[c] EXCEPT ![k - NDirect] = it]
        BY <1>1, <1>8, <4>1, <4>2, Constants
      <4>4. j - NDirect # k - NDirect
        BY <1>1, <2>1, <3>3, Constants DEF k
      <4>5. image'.items[c][j - NDirect] = image.items[c][j - NDirect]
        <5>1. j - NDirect \in Slot
          BY <1>11, <2>1, <2>3, Constants DEF Slot
        <5>2. DOMAIN image.items[c] = Slot
          BY <3>1 DEF Shape, ImageShape
        <5> QED
          BY <4>3, <4>4, <5>1, <5>2
      <4> QED
        BY <1>10, <2>3, <3>3, <4>2, <4>5 DEF Item
    <3>4. CASE m # n
      <4>1. ~(k >= NDirect /\ c = y.indirect)
        <5>1. k > NDirect => y.indirect = ino[n].indirect
          BY <1>1, <1>3, Constants
        <5>2. k = NDirect => y.indirect = b2
          BY <1>1, <1>3
        <5>3. <<"items", m, 0>> # <<"items", n, 0>> /\ <<"items", m, 0>> # Nil
          BY <3>4 DEF Nil
        <5>4. k = NDirect => use[b2] = Nil
          BY <1>4, <1>7
        <5>5. k >= NDirect => k > NDirect \/ k = NDirect
          BY <1>1, Constants
        <5> QED
          BY <1>5, <3>1, <5>1, <5>2, <5>3, <5>4, <5>5
      <4>2. image'.items[c] = image.items[c]
        BY <1>8, <3>1, <3>2, <4>1
      <4> QED
        BY <1>10, <2>3, <3>4, <4>2 DEF Item
    <3> QED
      BY <3>3, <3>4
  <2> QED
    BY <2>2, <2>3
<1>13. Item(y, k)' = it
  <2>1. CASE k < NDirect
    BY <1>1, <1>3, <2>1, Constants DEF Item
  <2>2. CASE ~(k < NDirect)
    <3>1. k - NDirect \in Slot
      BY <1>1, <2>2, Constants DEF Slot
    <3> QED
      BY <1>1, <1>8, <1>9, <2>2, <3>1, Constants DEF Item
  <2> QED
    BY <2>1, <2>2
<1> QED
  BY <1>1, <1>3, <1>6, <1>12, <1>13 DEF k

LEMMA ItemIsAdded ==
  ASSUME OneLongNode, Shape, NEW use, NEW ino, NEW cnt, NEW kids, Data(use, ino, cnt, kids),
         NEW n, NEW it, NEW b1, NEW b2, NEW added, NEW y, NEW use2, NEW ino2, NEW cnt2, NEW kids2,
         Adding(use, ino, cnt, kids, n, it, b1, b2, added, y, use2, ino2),
         Sets(cnt, cnt2, n, cnt[n] + 1), Sets(kids, kids2, n, added), tree' = tree, where' = where
  PROVE  Data(use2, ino2, cnt2, kids2)'
<1>0. /\ \A m \in Nodes : \A j \in 0 .. cnt[m] - 1 : Item(ino2[m], j)' = Item(ino[m], j)
      /\ Item(y, cnt[n])' = it
      /\ y.indirect = IF cnt[n] = NDirect THEN b2 ELSE ino[n].indirect
      /\ cnt[n] >= NDirect => y.indirect \in Block
  BY ItemsKept
<1> USE DEF Adding, Data
<1> DEFINE k == cnt[n]
<1>1. /\ k \in Nat /\ k < NDirect + ItemsPerBlock
      /\ NeedsIndirect(ino[n], k) <=> k = NDirect
      /\ k >= NDirect => n \in Long(tree)
      /\ n \in Dirs => k + 1 = 2 + Cardinality(added)
  BY LongNeeds
<1>2. /\ \A m \in Nodes : \A j \in 0 .. cnt[m] - 1 : Item(ino2[m], j)' = Item(ino[m], j)
      /\ Item(y, k)' = it
      /\ y.indirect = IF k = NDirect THEN b2 ELSE ino[n].indirect
      /\ k >= NDirect => y.indirect \in Block
  BY <1>0
<1>3. Nodes' = Nodes /\ Dirs' = Dirs /\ Files' = Files
  BY SameTree DEF Nodes
<1>4. /\ ino2[n] = y /\ cnt2[n] = k + 1 /\ kids2[n] = added
      /\ DOMAIN ino2 = Nodes /\ DOMAIN cnt2 = Nodes /\ DOMAIN kids2 = Nodes
      /\ \A m \in Nodes : m # n => ino2[m] = ino[m] /\ cnt2[m] = cnt[m] /\ kids2[m] = kids[m]
  BY DEF Sets, Inodes
<1>5. /\ n \in Files => b1 \in Block /\ use[b1] = Nil
      /\ k = NDirect => b2 \in Block /\ use[b2] = Nil
      /\ n \in Files /\ k = NDirect => b1 # b2
      /\ \A c \in Block :
           freemap'[c] = IF (n \in Files /\ c = b1) \/ (k = NDirect /\ c = b2) THEN 1 ELSE freemap[c]
      /\ DOMAIN use2 = Block
      /\ \A c \in Block : use2[c] = IF n \in Files /\ c = b1 THEN <<"data", n, k>>
                                    ELSE IF k = NDirect /\ c = b2 THEN <<"items", n, 0>> ELSE use[c]
  BY <1>1 DEF Takes, Uses, Owned
<1>6. \A c \in Block : use[c] # Nil => use2[c] = use[c]
  BY <1>5
<1>7. n \in Files => it.block = b1
  BY DEF ItemFor
<1> DEFINE Newest(m, j) == m = n /\ j = k
<1>8. ASSUME NEW m \in Nodes, NEW j \in 0 .. cnt2[m] - 1
      PROVE  \/ Newest(m, j) \/ j \in 0 .. cnt[m] - 1
  <2>1. CASE m = n
    BY <1>1, <1>4, <1>8, <2>1
  <2>2. CASE m # n
    BY <1>4, <1>8, <2>2
  <2> QED
    BY <2>1, <2>2
<1> HIDE DEF k
<1>9. Owned(use2, ino2, cnt2)'
  <2>1. \A c \in Block : freemap'[c] = 0 <=> use2[c] = Nil
    BY <1>5 DEF Owned, Nil
  <2>2. use2[0] = <<"super", Root, 0>> /\ \A c \in 1 .. FreemapNum : use2[c] = <<"map", Root, c>>
    <3>1. 0 \in Block /\ 1 .. FreemapNum \subseteq Block
      BY Constants DEF Block
    <3>2. use[0] = <<"super", Root, 0>> /\ \A c \in 1 .. FreemapNum : use[c] = <<"map", Root, c>>
      BY DEF Owned
    <3> QED
      BY <1>6, <3>1, <3>2 DEF Nil
  <2>3. ASSUME NEW m \in Nodes PROVE where[m] \in Block /\ use2[where[m]] = <<"inode", m, 0>>
    BY <1>6 DEF Owned, Nil
  <2>4. ASSUME NEW m \in Nodes, cnt2[m] > NDirect
        PROVE  ino2[m].indirect \in Block /\ use2[ino2[m].indirect] = <<"items", m, 0>>
    <3>1. CASE m # n
      BY <1>4, <1>6, <2>4, <3>1 DEF Owned, Nil
    <3>2. CASE m = n /\ k = NDirect
      BY <1>2, <1>4, <1>5, <3>2
    <3>3. CASE m = n /\ k # NDirect
      <4>1. k > NDirect
        BY <1>1, <1>4, <2>4, <3>3, Constants
      <4>2. ino[n].indirect \in Block /\ use[ino[n].indirect] = <<"items", n, 0>>
        BY <4>1 DEF Owned, k
      <4> QED
        BY <1>2, <1>4, <1>6, <3>3, <4>2 DEF Nil
    <3> QED
      BY <3>1, <3>2, <3>3
  <2>5. ASSUME NEW m \in Nodes, m \in Files, NEW j \in 0 .. cnt2[m] - 1
        PROVE  LET c == Item(ino2[m], j)'.block IN c \in Block /\ use2[c] = <<"data", m, j>>
    <3>1. CASE Newest(m, j)
      BY <1>2, <1>4, <1>5, <1>7, <2>5, <3>1
    <3>2. CASE j \in 0 .. cnt[m] - 1
      <4>1. Item(ino[m], j).block \in Block /\ use[Item(ino[m], j).block] = <<"data", m, j>>
        BY <2>5, <3>2 DEF Owned
      <4> QED
        BY <1>2, <1>6, <3>2, <4>1 DEF Nil
    <3> QED
      BY <1>8, <3>1, <3>2
  <2> QED
    BY <1>3, <1>5, <2>1, <2>2, <2>3, <2>4, <2>5 DEF Owned
<1>10. Accounted(use2, ino2, cnt2)'
  <2> SUFFICES ASSUME NEW c \in Block, use2[c] # Nil, c # 0, c \notin 1 .. FreemapNum
               PROVE  \E m \in Nodes :
                        \/ c = where[m]
                        \/ cnt2[m] > NDirect /\ c = ino2[m].indirect
                        \/ m \in Files /\ \E j \in 0 .. cnt2[m] - 1 : c = Item(ino2[m], j)'.block
    BY <1>3 DEF Accounted
  <2>1. CASE n \in Files /\ c = b1
    <3>1. k \in 0 .. cnt2[n] - 1 /\ c = Item(ino2[n], k)'.block
      BY <1>1, <1>2, <1>4, <1>7, <2>1
    <3> QED
      BY <2>1, <3>1
  <2>2. CASE k = NDirect /\ c = b2
    BY <1>1, <1>2, <1>4, <2>2, Constants
  <2>3. CASE use[c] # Nil
    <3>1. PICK m \in Nodes : \/ c = where[m]
                             \/ cnt[m] > NDirect /\ c = ino[m].indirect
                             \/ m \in Files /\ \E j \in 0 .. cnt[m] - 1 : c = Item(ino[m], j).block
      BY <2>3 DEF Accounted
    <3>2. CASE cnt[m] > NDirect /\ c = ino[m].indirect
      <4>1. cnt2[m] > NDirect /\ c = ino2[m].indirect
        BY <1>1, <1>2, <1>4, <3>2, Constants DEF k
      <4> QED
        BY <4>1
    <3>3. ASSUME m \in Files, NEW j \in 0 .. cnt[m] - 1, c = Item(ino[m], j).block
          PROVE  j \in 0 .. cnt2[m] - 1 /\ c = Item(ino2[m], j)'.block
      BY <1>1, <1>2, <1>4, <3>3 DEF k
    <3> QED
      BY <3>1, <3>2, <3>3
  <2> QED
    BY <1>5, <2>1, <2>2, <2>3
<1>11. Inodes(ino2, cnt2, kids2)'
  <2>1. ASSUME NEW m \in Nodes, m # n
        PROVE  /\ InodeShape(ino2[m]) /\ ino2[m].filename = tree[m].name /\ cnt2[m] \in Nat
               /\ m \in Long(tree) => (ino2[m].indirect = 0 <=> cnt2[m] <= NDirect)
               /\ m \in Files => FileSoFar(m, ino2[m], cnt2[m])'
               /\ m \in Dirs  => DirSoFar(m, ino2[m], cnt2[m], kids2[m])'
    <3>1. ino2[m] = ino[m] /\ cnt2[m] = cnt[m] /\ kids2[m] = kids[m] /\ cnt[m] \in Nat
      BY <1>4, <2>1 DEF Inodes
    <3>2. m \in Dirs => DirSoFar(m, ino2[m], cnt2[m], kids2[m])'
      <4> SUFFICES ASSUME m \in Dirs PROVE DirSoFar(m, ino2[m], cnt2[m], kids2[m])'
        OBVIOUS
      <4>1. DirSoFar(m, ino[m], cnt[m], kids[m])
        BY DEF Inodes
      <4>2. IsFiniteSet(kids[m]) /\ Cardinality(kids[m]) \in Nat
        BY <4>1, EntriesAreFinite DEF DirSoFar
      <4>3. \A j \in 0 .. cnt[m] - 1 : Item(ino2[m], j)' = Item(ino[m], j)
        BY <1>2
      <4>4. 0 \in 0 .. cnt[m] - 1 /\ 1 \in 0 .. cnt[m] - 1 /\ 2 .. cnt[m] - 1 \subseteq 0 .. cnt[m] - 1
        BY <4>1, <4>2 DEF DirSoFar
      <4> QED
        BY <1>3, <3>1, <4>1, <4>3, <4>4 DEF DirSoFar
    <3> QED
      BY <3>1, <3>2 DEF Inodes, FileSoFar
  <2>2. /\ InodeShape(y) /\ y.filename = tree[n].name /\ y.type = ino[n].type
        /\ y.size = ino[n].size /\ y.blocks = ino[n].blocks
    <3>1. InodeShape(ino[n]) /\ ino[n].filename = tree[n].name /\ k \in Nat
      BY <1>1 DEF Inodes
    <3> QED
      BY <3>1, WithItemIs DEF k
  <2>3. n \in Long(tree) => (y.indirect = 0 <=> k + 1 <= NDirect)
    <3>1. k = NDirect => b2 # 0
      <4>1. use[0] # Nil
        BY DEF Owned, Nil
      <4> QED
        BY <1>5, <4>1
    <3>2. n \in Long(tree) => (ino[n].indirect = 0 <=> k <= NDirect)
      BY DEF Inodes, k
    <3> QED
      BY <1>1, <1>2, <3>1, <3>2, Constants
  <2>4. n \in Files => FileSoFar(n, y, k + 1)'
    <3>1. n \in Files => (k + 1 - 1) * BlockSize < tree[n].size
      BY <1>1 DEF ItemFor, k
    <3>2. n \in Files => FileSoFar(n, ino[n], k)
      BY DEF Inodes, k
    <3>3. BlocksOf(tree[n].size)' = BlocksOf(tree[n].size)
      BY DEF BlocksOf
    <3> QED
      BY <1>1, <2>2, <3>1, <3>2, <3>3 DEF FileSoFar
  <2>5. n \in Dirs => DirSoFar(n, y, k + 1, added)'
    <3> SUFFICES ASSUME n \in Dirs PROVE DirSoFar(n, y, k + 1, added)'
      OBVIOUS
    <3>1. DirSoFar(n, ino[n], k, kids[n])
      BY DEF Inodes, k
    <3>2. PICK m \in EntriesOf(tree, n) \cap Nodes :
                 it.filename = tree[m].name /\ added = kids[n] \cup {m}
      BY DEF ItemFor
    <3>3. IsFiniteSet(kids[n]) /\ Cardinality(kids[n]) \in Nat
      BY <3>1, EntriesAreFinite DEF DirSoFar
    <3>4. \A j \in 0 .. k - 1 : Item(y, j)' = Item(ino[n], j)
      BY <1>2, <1>4 DEF k
    <3>5. /\ 0 \in 0 .. k - 1 /\ 1 \in 0 .. k - 1 /\ 2 .. k - 1 \subseteq 0 .. k - 1
          /\ \A j \in 2 .. k + 1 - 1 : j \in 2 .. k - 1 \/ j = k
          /\ 2 .. k - 1 \subseteq 2 .. k + 1 - 1 /\ k \in 2 .. k + 1 - 1
      BY <1>1, <3>1, <3>3 DEF DirSoFar
    <3>6. added \subseteq EntriesOf(tree, n) \cap Nodes
      BY <3>1, <3>2 DEF DirSoFar
    <3>7. \A j \in 2 .. k + 1 - 1 : \E q \in added : Item(y, j)'.filename = tree[q].name
      BY <1>2, <3>1, <3>2, <3>4, <3>5 DEF DirSoFar
    <3>8. \A q \in added : \E j \in 2 .. k + 1 - 1 : Item(y, j)'.filename = tree[q].name
      BY <1>2, <3>1, <3>2, <3>4, <3>5 DEF DirSoFar
    <3> QED
      BY <1>1, <1>3, <2>2, <3>1, <3>4, <3>5, <3>6, <3>7, <3>8 DEF DirSoFar
  <2> QED
    BY <1>1, <1>3, <1>4, <2>1, <2>2, <2>3, <2>4, <2>5 DEF Inodes
<1>12. Bytes(ino2, cnt2)'
  <2>1. ASSUME NEW m \in Nodes, m \in Files, NEW i \in 0 .. cnt2[m] - 1,
               NEW j \in 0 .. BlockSize - 1, Place(i, j) < tree[m].size
        PROVE  image'.data[Item(ino2[m], i)'.block][j] = <<m, Place(i, j)>>
    <3>1. CASE Newest(m, i)
      <4>1. Item(ino2[m], i)'.block = b1
        BY <1>2, <1>4, <1>7, <2>1, <3>1
      <4> QED
        BY <2>1, <3>1, <4>1 DEF Writes, k
    <3>2. CASE i \in 0 .. cnt[m] - 1
      <4> DEFINE c == Item(ino[m], i).block
      <4>1. c \in Block /\ use[c] = <<"data", m, i>>
        BY <2>1, <3>2 DEF Owned
      <4>2. k > NDirect => use[ino[n].indirect] = <<"items", n, 0>>
        BY DEF Owned, k
      <4>3. c \notin Touched(n, k, y, b1)
        <5>1. n \in Files => c # b1
          BY <1>5, <4>1 DEF Nil
        <5>2. k = NDirect => c # y.indirect
          BY <1>2, <1>5, <4>1 DEF Nil
        <5>3. k > NDirect => c # y.indirect
          <6>1. k > NDirect => y.indirect = ino[n].indirect
            BY <1>1, <1>2, Constants
          <6> QED
            BY <4>1, <4>2, <6>1
        <5>4. k >= NDirect => c # y.indirect
          BY <1>1, <5>2, <5>3, Constants
        <5> QED
          BY <5>1, <5>4 DEF Touched
      <4>4. image'.data[c] = image.data[c]
        BY <4>1, <4>3 DEF Writes, k
      <4>5. image.data[c][j] = <<m, Place(i, j)>>
        BY <2>1, <3>2 DEF Bytes
      <4> QED
        BY <1>2, <3>2, <4>4, <4>5
    <3> QED
      BY <1>8, <3>1, <3>2
  <2> QED
    BY <1>3, <2>1 DEF Bytes
<1>13. Zeroed(ino2)'
  <2> SUFFICES ASSUME NEW l \in Long(tree) \ Nodes
               PROVE  /\ \A m \in Nodes : ino2[m].indirect = 0
                      /\ \A c \in Block : image'.inode[c].indirect = 0
    BY <1>3 DEF Zeroed
  <2>1. /\ \A m \in Nodes : ino[m].indirect = 0
        /\ \A c \in Block : image.inode[c].indirect = 0
    BY DEF Zeroed
  <2>2. n \notin Long(tree)
    BY DEF OneLongNode, Shape
  <2>3. y.indirect = 0
    BY <1>1, <1>2, <2>1, <2>2, Constants
  <2>4. \A c \in Block : image'.inode[c].indirect = 0
    BY <2>1 DEF Writes
  <2> QED
    BY <1>4, <2>1, <2>3, <2>4
<1> QED
  BY <1>9, <1>10, <1>11, <1>12, <1>13
-----------------------------------------------------------------------------
(* The inode of a node is stored: the end of a file, of a directory, and of main. *)

\* The inode as it is now, perhaps with another number of entries.
Closing(ino, n, x, ino2) ==
  /\ n \in Nodes /\ Sets(ino, ino2, n, x)
  /\ InodeShape(x) /\ x.filename = ino[n].filename /\ x.type = ino[n].type /\ x.size = ino[n].size
  /\ x.direct = ino[n].direct /\ x.indirect = ino[n].indirect
  /\ n \in Files => x.blocks = ino[n].blocks
  /\ UNCHANGED <<tree, where, freemap>>
  /\ image'.inode[where[n]].indirect = x.indirect
  /\ \A c \in Block \ {where[n]} : /\ image'.inode[c].indirect = image.inode[c].indirect
                                   /\ image'.items[c] = image.items[c]
                                   /\ image'.data[c] = image.data[c]

LEMMA InodeIsStored ==
  ASSUME OneLongNode, Shape, NEW use, NEW ino, NEW cnt, NEW kids, Data(use, ino, cnt, kids),
         NEW n, NEW x, NEW ino2, Closing(ino, n, x, ino2)
  PROVE  Data(use, ino2, cnt, kids)'
<1> USE DEF Closing, Data
<1>1. Nodes' = Nodes /\ Dirs' = Dirs /\ Files' = Files
  BY SameTree DEF Nodes
<1>2. /\ DOMAIN ino2 = Nodes /\ ino2[n] = x
      /\ \A m \in Nodes : m # n => ino2[m] = ino[m]
  BY DEF Sets, Inodes
<1>3. \A m \in Nodes : cnt[m] \in Nat /\ cnt[m] <= NDirect + ItemsPerBlock
  BY ItemsFit
<1>4. where[n] \in Block /\ use[where[n]] = <<"inode", n, 0>>
  BY DEF Owned
<1>5. \A m \in Nodes : ino2[m].indirect = ino[m].indirect /\ ino2[m].direct = ino[m].direct
  BY <1>2
<1>6. ASSUME NEW m \in Nodes, NEW j \in 0 .. cnt[m] - 1
      PROVE  Item(ino2[m], j)' = Item(ino[m], j)
  <2>1. CASE j < NDirect
    BY <1>5, <2>1 DEF Item
  <2>2. CASE ~(j < NDirect)
    <3>1. cnt[m] > NDirect
      BY <1>3, <2>2, Constants
    <3>2. ino[m].indirect \in Block \ {where[n]}
      BY <1>4, <3>1 DEF Owned
    <3> QED
      BY <1>5, <2>2, <3>2 DEF Item
  <2> QED
    BY <2>1, <2>2
<1>7. Owned(use, ino2, cnt)'
  <2>1. ASSUME NEW m \in Nodes
        PROVE  /\ where'[m] \in Block /\ use[where'[m]] = <<"inode", m, 0>>
               /\ cnt[m] > NDirect => /\ ino2[m].indirect \in Block
                                      /\ use[ino2[m].indirect] = <<"items", m, 0>>
    BY <1>5 DEF Owned
  <2>2. ASSUME NEW m \in Nodes, m \in Files, NEW j \in 0 .. cnt[m] - 1
        PROVE  LET c == Item(ino2[m], j)'.block IN c \in Block /\ use[c] = <<"data", m, j>>
    BY ZenonT(40), <1>6, <2>2 DEF Owned
  <2>3. freemap' = freemap
    OBVIOUS
  <2> QED
    BY <1>1, <2>1, <2>2, <2>3 DEF Owned
<1>8. Accounted(use, ino2, cnt)'
  BY <1>1, <1>5, <1>6 DEF Accounted
<1>9. Inodes(ino2, cnt, kids)'
  <2>1. ASSUME NEW m \in Nodes
        PROVE  /\ InodeShape(ino2[m]) /\ ino2[m].filename = tree[m].name /\ cnt[m] \in Nat
               /\ m \in Long(tree) => (ino2[m].indirect = 0 <=> cnt[m] <= NDirect)
    BY <1>2 DEF Inodes
  <2>2. ASSUME NEW m \in Nodes, m \in Files
        PROVE  FileSoFar(m, ino2[m], cnt[m])'
    <3>1. FileSoFar(m, ino[m], cnt[m])
      BY <2>2 DEF Inodes
    <3>2. BlocksOf(tree[m].size)' = BlocksOf(tree[m].size)
      BY DEF BlocksOf
    <3> QED
      BY <1>2, <2>2, <3>1, <3>2 DEF FileSoFar
  <2>3. ASSUME NEW m \in Nodes, m \in Dirs
        PROVE  DirSoFar(m, ino2[m], cnt[m], kids[m])'
    <3>1. DirSoFar(m, ino[m], cnt[m], kids[m])
      BY <2>3 DEF Inodes
    <3>2. IsFiniteSet(kids[m]) /\ Cardinality(kids[m]) \in Nat
      BY <3>1, EntriesAreFinite DEF DirSoFar
    <3>3. /\ 0 \in 0 .. cnt[m] - 1 /\ 1 \in 0 .. cnt[m] - 1
          /\ 2 .. cnt[m] - 1 \subseteq 0 .. cnt[m] - 1
      BY <3>1, <3>2 DEF DirSoFar
    <3>4. \A j \in 0 .. cnt[m] - 1 : Item(ino2[m], j)' = Item(ino[m], j)
      BY <1>6
    <3>5. ino2[m].type = ino[m].type
      BY <1>2
    <3> QED
      BY <1>1, <3>1, <3>3, <3>4, <3>5 DEF DirSoFar
  <2> QED
    BY <1>1, <1>2, <2>1, <2>2, <2>3 DEF Inodes
<1>10. Bytes(ino2, cnt)'
  <2>1. ASSUME NEW m \in Nodes, m \in Files, NEW i \in 0 .. cnt[m] - 1,
               NEW j \in 0 .. BlockSize - 1, Place(i, j) < tree[m].size
        PROVE  image'.data[Item(ino2[m], i)'.block][j] = <<m, Place(i, j)>>
    <3> DEFINE c == Item(ino[m], i).block
    <3>1. c \in Block \ {where[n]}
      BY <1>4, <2>1 DEF Owned
    <3>2. image.data[c][j] = <<m, Place(i, j)>>
      BY <2>1 DEF Bytes
    <3> QED
      BY <1>6, <3>1, <3>2
  <2> QED
    BY <1>1, <2>1 DEF Bytes
<1>11. Zeroed(ino2)'
  BY <1>1, <1>2, <1>5 DEF Zeroed
<1> QED
  BY <1>7, <1>8, <1>9, <1>10, <1>11

\* Neither the image nor the tree changes.
LEMMA DataKept ==
  ASSUME NEW use, NEW ino, NEW cnt, NEW kids, Data(use, ino, cnt, kids),
         UNCHANGED <<tree, where, freemap, image>>
  PROVE  Data(use, ino, cnt, kids)'
<1>1. Nodes' = Nodes /\ Dirs' = Dirs /\ Files' = Files
  BY SameTree DEF Nodes
<1>2. \A x, i : Item(x, i)' = Item(x, i)
  BY SameItem
<1>3. Owned(use, ino, cnt)' /\ Accounted(use, ino, cnt)'
  BY <1>1, <1>2 DEF Data, Owned, Accounted
<1>4. Inodes(ino, cnt, kids)'
  <2>1. \A m, x, k : FileSoFar(m, x, k)' <=> FileSoFar(m, x, k)
    BY DEF FileSoFar, BlocksOf
  <2>2. \A m, x, k, S : DirSoFar(m, x, k, S)' <=> DirSoFar(m, x, k, S)
    BY <1>1, <1>2 DEF DirSoFar
  <2> QED
    BY <1>1, <2>1, <2>2 DEF Data, Inodes
<1>5. Bytes(ino, cnt)'
  BY <1>1, <1>2 DEF Data, Bytes
<1>6. Zeroed(ino)'
  BY <1>1 DEF Data, Zeroed
<1> QED
  BY <1>3, <1>4, <1>5, <1>6 DEF Data
-----------------------------------------------------------------------------
(* The stack of walk.                                                      *)

LEMMA LastOf ==
  ASSUME NEW s, StackOK(s)
  PROVE  Len(s) \in Nat /\ Len(s) \in 1 .. Len(s) /\ 1 \in 1 .. Len(s) /\ DOMAIN s = 1 .. Len(s)
<1>1. PICK S : s \in Seq(S)
  BY DEF StackOK
<1>2. Len(s) \in Nat /\ Len(s) # 0
  BY <1>1 DEF StackOK
<1> QED
  BY <1>1, <1>2

LEMMA PutLast ==
  ASSUME NEW s, StackOK(s), NEW f
  PROVE  LET q == [s EXCEPT ![Len(s)] = f]
         IN  /\ StackOK(q) /\ Len(q) = Len(s)
             /\ \A i \in 1 .. Len(s) : q[i] = IF i = Len(s) THEN f ELSE s[i]
<1> DEFINE q == [s EXCEPT ![Len(s)] = f]
<1>1. PICK S : s \in Seq(S)
  BY DEF StackOK
<1> DEFINE T == S \cup {f}
<1>2. s \in Seq(T) /\ f \in T
  BY <1>1, SeqMonotonic
<1> HIDE DEF T
<1>3. Len(s) \in 1 .. Len(s)
  BY LastOf
<1>4. /\ q \in Seq(T) /\ Len(q) = Len(s)
      /\ \A i \in 1 .. Len(s) : q[i] = IF i = Len(s) THEN f ELSE s[i]
  BY <1>2, <1>3, ExceptSeq
<1> HIDE DEF q
<1>5. q # <<>>
  BY <1>3, <1>4
<1> QED
  BY <1>4, <1>5 DEF StackOK, q

LEMMA Pushed ==
  ASSUME NEW s, StackOK(s), NEW f
  PROVE  LET q == Append(s, f)
         IN  /\ StackOK(q) /\ Len(q) = Len(s) + 1 /\ q[Len(s) + 1] = f
             /\ \A i \in 1 .. Len(s) : q[i] = s[i]
<1> DEFINE q == Append(s, f)
<1>1. PICK S : s \in Seq(S)
  BY DEF StackOK
<1> DEFINE T == S \cup {f}
<1>2. s \in Seq(T) /\ f \in T /\ Len(s) \in Nat
  BY <1>1, SeqMonotonic
<1> HIDE DEF T
<1>3. q \in Seq(T) /\ Len(q) = Len(s) + 1 /\ q[Len(s) + 1] = f /\ \A i \in 1 .. Len(s) : q[i] = s[i]
  BY <1>2
<1> HIDE DEF q
<1>4. q # <<>>
  BY <1>2, <1>3
<1> QED
  BY <1>3, <1>4 DEF StackOK, q

LEMMA Popped ==
  ASSUME NEW s, StackOK(s), Len(s) > 1
  PROVE  LET q == SubSeq(s, 1, Len(s) - 1)
         IN  /\ StackOK(q) /\ Len(q) = Len(s) - 1
             /\ \A i \in 1 .. Len(s) - 1 : q[i] = s[i]
<1> DEFINE n == Len(s) - 1
           q == SubSeq(s, 1, n)
<1>1. PICK S : s \in Seq(S)
  BY DEF StackOK
<1>2. n \in Nat /\ n >= 1 /\ n < Len(s) /\ 1 \in Int /\ n \in Int /\ \A i \in 1 .. n : i \in 1 .. Len(s)
  BY LastOf
<1>3. \A i \in 1 .. n : s[i] \in S
  BY <1>1, <1>2
<1> HIDE DEF n
<1>4. /\ q \in Seq(S) /\ Len(q) = IF 1 <= n THEN n - 1 + 1 ELSE 0
      /\ \A i \in 1 .. n - 1 + 1 : q[i] = s[1 + i - 1]
  BY <1>2, <1>3, SubSeqProperties
<1> HIDE DEF q
<1>5. Len(q) = n /\ \A i \in 1 .. n : q[i] = s[i]
  BY <1>2, <1>4
<1>6. q # <<>>
  BY <1>2, <1>5
<1> QED
  BY <1>4, <1>5, <1>6 DEF StackOK, q, n

Same(m, ino, cnt, kids, ino2, cnt2, kids2) ==
  ino2[m] = ino[m] /\ cnt2[m] = cnt[m] /\ kids2[m] = kids[m]

LEMMA FrameKept ==
  ASSUME NEW f, NEW busy, NEW ino, NEW cnt, NEW kids, FrameOK(f, busy, ino, cnt, kids),
         tree' = tree, Nodes \subseteq Nodes', where'[f.dir] = where[f.dir], f.todo \cap Nodes' = {},
         NEW ino2, NEW cnt2, NEW kids2, Same(f.dir, ino, cnt, kids, ino2, cnt2, kids2)
  PROVE  FrameOK(f, busy, ino2, cnt2, kids2)'
<1>1. Dirs' = Dirs /\ Packed' = Packed /\ Children(f.dir)' = Children(f.dir)
  BY SameTree
<1>2. EntriesOf(tree, f.dir)' = EntriesOf(tree, f.dir)
  OBVIOUS
<1> QED
  BY <1>1, <1>2 DEF FrameOK, Same

\* The innermost call.
LEMMA TopFacts ==
  ASSUME NEW ino, NEW cnt, NEW kids, Frames(ino, cnt, kids)
  PROVE  /\ Len(stack) \in Nat /\ Len(stack) \in 1 .. Len(stack) /\ 1 \in 1 .. Len(stack)
         /\ FrameOK(Top, Busy(Len(stack)), ino, cnt, kids)
         /\ Top.dir \in Open /\ \A i \in 1 .. Len(stack) : i # Len(stack) => stack[i].dir # Top.dir
<1>1. Len(stack) \in Nat /\ Len(stack) \in 1 .. Len(stack) /\ 1 \in 1 .. Len(stack)
  BY LastOf DEF Frames
<1> QED
  BY <1>1 DEF Frames, Top, Open

LEMMA TypesFollow ==
  (Shape /\ \E use, ino, cnt, kids : BuildInv(use, ino, cnt, kids)) => TypeOK
<1> SUFFICES ASSUME Shape, NEW use, NEW ino, NEW cnt, NEW kids, BuildInv(use, ino, cnt, kids)
             PROVE  TypeOK
  OBVIOUS
<1>1. DOMAIN stack = 1 .. Len(stack)
  BY LastOf DEF BuildInv, Control, Frames
<1>2. \A i \in DOMAIN stack : stack[i].num = where[stack[i].dir]
  BY <1>1 DEF BuildInv, Control, Frames, FrameOK
<1>3. \A n \in DOMAIN where : where[n] \in Block
  BY DEF BuildInv, Data, Owned, Nodes
<1>4. DOMAIN where \subseteq DOMAIN tree
  BY Kinds DEF Shape, Nodes
<1> QED
  BY <1>2, <1>3, <1>4 DEF TypeOK, Shape, ImageShape, Slot
-----------------------------------------------------------------------------
(* The steps of walk.                                                      *)

\* The entry readdir returns.
LEMMA EntryIsNew ==
  ASSUME NEW ino, NEW cnt, NEW kids, Control(ino, cnt, kids), NEW n, Readdir(n)
  PROVE  /\ n \in Children(Top.dir) /\ n \in DOMAIN tree /\ n # Root /\ n \notin Nodes
         /\ tree[n].parent = Top.dir
         /\ EntriesOf(tree, Top.dir) = (Top.todo \cap Packed) \cup kids[Top.dir]
         /\ pc = "walk"
<1>1. /\ Len(stack) \in Nat /\ Len(stack) \in 1 .. Len(stack)
      /\ FrameOK(Top, Busy(Len(stack)), ino, cnt, kids)
  BY TopFacts DEF Control
<1>2. Busy(Len(stack)) = {} /\ n \in Top.todo /\ pc = "walk"
  BY <1>1 DEF Busy, Readdir
<1>3. n \in Children(Top.dir) /\ n \notin Nodes
  BY <1>1, <1>2 DEF FrameOK
<1>4. EntriesOf(tree, Top.dir) = (Top.todo \cap Packed) \cup kids[Top.dir]
  BY <1>1, <1>2 DEF FrameOK
<1> QED
  BY <1>2, <1>3, <1>4 DEF Children

\* The stack without it.
LEMMA DroppedIs ==
  ASSUME NEW ino, NEW cnt, NEW kids, Control(ino, cnt, kids), NEW n
  PROVE  /\ StackOK(Dropped(n)) /\ Len(Dropped(n)) = Len(stack)
         /\ \A i \in 1 .. Len(stack) :
              Dropped(n)[i] = IF i = Len(stack) THEN [Top EXCEPT !.todo = @ \ {n}] ELSE stack[i]
<1> DEFINE f == [Top EXCEPT !.todo = @ \ {n}]
<1>4. Dropped(n) = [stack EXCEPT ![Len(stack)] = f]
  BY DEF Dropped, Top
<1>5. StackOK(stack)
  BY DEF Control, Frames
<1> HIDE DEF f
<1>6. /\ StackOK(Dropped(n)) /\ Len(Dropped(n)) = Len(stack)
      /\ \A i \in 1 .. Len(stack) :
           Dropped(n)[i] = IF i = Len(stack) THEN f ELSE stack[i]
  <2> DEFINE q == [stack EXCEPT ![Len(stack)] = f]
  <2>1. /\ StackOK(q) /\ Len(q) = Len(stack)
        /\ \A i \in 1 .. Len(stack) : q[i] = IF i = Len(stack) THEN f ELSE stack[i]
    BY <1>5, PutLast
  <2> QED
    BY <1>4, <2>1
<1> QED
  BY <1>6 DEF f

LEMMA SkipKeeps ==
  ASSUME OneLongNode, Shape, NEW use, NEW ino, NEW cnt, NEW kids, BuildInv(use, ino, cnt, kids),
         NEW n, SkipEntry(n)
  PROVE  Shape' /\ BuildInv(use, ino, cnt, kids)'
<1>0. Control(ino, cnt, kids) /\ Data(use, ino, cnt, kids)
  BY DEF BuildInv
<1>1. /\ UNCHANGED <<tree, freemap, freenum, file, item, pc, where, image>>
      /\ stack' = Dropped(n) /\ Readdir(n) /\ n \notin Packed
  BY DEF SkipEntry, Packed, Dirs, Files
<1>2. /\ n \in Children(Top.dir) /\ n \notin Nodes
      /\ StackOK(stack') /\ Len(stack') = Len(stack)
      /\ \A i \in 1 .. Len(stack) :
           stack'[i] = IF i = Len(stack) THEN [Top EXCEPT !.todo = @ \ {n}] ELSE stack[i]
      /\ EntriesOf(tree, Top.dir) = (Top.todo \cap Packed) \cup kids[Top.dir]
      /\ pc = "walk"
  BY <1>0, <1>1, EntryIsNew, DroppedIs
<1>3. /\ Len(stack) \in Nat /\ Len(stack) \in 1 .. Len(stack) /\ 1 \in 1 .. Len(stack)
      /\ FrameOK(Top, Busy(Len(stack)), ino, cnt, kids)
  BY <1>0, TopFacts DEF Control
<1>4. Nodes' = Nodes /\ Dirs' = Dirs /\ Packed' = Packed /\ Files' = Files
      /\ \A m : Children(m)' = Children(m)
  BY <1>1, SameTree DEF Nodes
<1>5. Shape'
  BY <1>1, <1>4 DEF Shape, Free
<1>6. Data(use, ino, cnt, kids)'
  BY <1>0, <1>1, DataKept
<1>7. \A i \in 1 .. Len(stack) : stack'[i].dir = stack[i].dir
  BY <1>2, <1>3 DEF FrameOK, Top
<1>8. Open' = Open
  BY <1>1, <1>2, <1>7 DEF Open
<1>9. \A i \in 1 .. Len(stack) : Busy(i)' = Busy(i)
  <2> SUFFICES ASSUME NEW i \in 1 .. Len(stack) PROVE Busy(i)' = Busy(i)
    OBVIOUS
  <2>1. i < Len(stack) => i + 1 \in 1 .. Len(stack)
    BY <1>3
  <2> QED
    BY <1>1, <1>2, <1>4, <1>7, <2>1 DEF Busy
<1>10. ASSUME NEW i \in 1 .. Len(stack)
       PROVE  FrameOK(stack[i], Busy(i), ino, cnt, kids)'
  <2>1. CASE i # Len(stack)
    <3>1. FrameOK(stack[i], Busy(i), ino, cnt, kids)
      BY <1>0 DEF Control, Frames
    <3> QED
      BY <1>1, <1>2, <1>4, <1>9, <2>1, <3>1 DEF FrameOK
  <2>2. CASE i = Len(stack)
    <3> DEFINE g == [Top EXCEPT !.todo = @ \ {n}]
    <3>1. /\ DOMAIN g = DOMAIN Top /\ g.dir = Top.dir /\ g.num = Top.num /\ g.inode = Top.inode
          /\ g.emptyIndex = Top.emptyIndex /\ g.todo = Top.todo \ {n}
      BY <1>3 DEF FrameOK
    <3> HIDE DEF g
    <3>2. g.todo \cap Packed = Top.todo \cap Packed
      BY <1>1, <3>1
    <3>3. stack'[i] = g /\ Busy(i)' = Busy(Len(stack))
      BY <1>2, <1>9, <2>2 DEF g
    <3> QED
      BY <1>1, <1>3, <1>4, <3>1, <3>2, <3>3 DEF FrameOK
  <2> QED
    BY <2>1, <2>2
<1>11. Frames(ino, cnt, kids)'
  <2>1. stack'[1].dir = Root
    BY <1>0, <1>3, <1>7 DEF Control, Frames
  <2>2. \A i, j \in 1 .. Len(stack) : stack'[i].dir = stack'[j].dir => i = j
    BY <1>0, <1>7 DEF Control, Frames
  <2> QED
    BY <1>2, <1>10, <2>1, <2>2 DEF Frames
<1>12. Copying(ino, cnt)' /\ Written(ino, cnt)'
  BY <1>1, <1>2 DEF Copying, Written
<1>13. Stored(ino, cnt, kids)'
  BY <1>0, <1>1, <1>4, <1>8 DEF Control, Stored, InodeOf
<1> QED
  BY <1>5, <1>6, <1>11, <1>12, <1>13 DEF BuildInv, Control

\* A node n with the inode x and k items is new.
Grown(n, x, k, ino, cnt, kids, ino2, cnt2, kids2) ==
  /\ Nodes' = Nodes \cup {n} /\ where'[n] = FreeBlock(1)
  /\ ino2[n] = x /\ cnt2[n] = k /\ kids2[n] = {}
  /\ \A m \in Nodes : m # n /\ where'[m] = where[m] /\ Same(m, ino, cnt, kids, ino2, cnt2, kids2)

LEMMA NodeTaken ==
  ASSUME OneLongNode, Shape, NEW use, NEW ino, NEW cnt, NEW kids, BuildInv(use, ino, cnt, kids),
         NEW n \in Packed, Readdir(n), Enough(1), TakeBlocks(1),
         where' = Placed(n, FreeBlock(1)), UNCHANGED <<tree, image>>, pc' \in {"walk", "copy"},
         NEW x, NEW k, NewInodeOK(n, x, k)
  PROVE  /\ Shape'
         /\ \E use2, ino2, cnt2, kids2 : /\ Data(use2, ino2, cnt2, kids2)'
                                         /\ Grown(n, x, k, ino, cnt, kids, ino2, cnt2, kids2)
<1> DEFINE b == FreeBlock(1)
<1>0. Control(ino, cnt, kids) /\ Data(use, ino, cnt, kids)
  BY DEF BuildInv
<1>1. /\ n \in Children(Top.dir) /\ n \in DOMAIN tree /\ n # Root /\ n \notin Nodes
      /\ tree[n].parent = Top.dir
  BY <1>0, EntryIsNew
<1>2. Top.dir \in Nodes
  BY <1>0, TopFacts DEF Control, FrameOK
<1>3. /\ b \in Block /\ freemap[b] = 0
      /\ \A c \in Block : freemap'[c] = IF c = b THEN 1 ELSE freemap[c]
      /\ freemap' \in [Block -> 0 .. 1] /\ freenum' = Cardinality(Free')
  BY TakeOne
<1> HIDE DEF b
<1>4. Sets(where, where', n, b)
  BY <1>1 DEF Sets, Nodes, Placed, b
<1>5. /\ Nodes' = Nodes \cup {n} /\ where'[n] = b
      /\ \A m \in Nodes : m # n /\ where'[m] = where[m]
  BY <1>1, <1>4 DEF Sets, Nodes
<1>6. PICK use2 : Sets(use, use2, b, <<"inode", n, 0>>)
  BY SetsExists
<1>7. PICK ino2 : Sets(ino, ino2, n, x)
  BY SetsExists
<1>8. PICK cnt2 : Sets(cnt, cnt2, n, k)
  BY SetsExists
<1>9. PICK kids2 : Sets(kids, kids2, n, {})
  BY SetsExists
<1>10. Entering(use, ino, cnt, kids, n, b, x, k, use2, ino2, cnt2, kids2)
  BY <1>1, <1>3, <1>4, <1>6, <1>7, <1>8, <1>9 DEF Entering
<1>11. Data(use2, ino2, cnt2, kids2)'
  BY <1>0, <1>10, NewNode
<1>12. Grown(n, x, k, ino, cnt, kids, ino2, cnt2, kids2)
  BY <1>0, <1>5, <1>7, <1>8, <1>9 DEF Grown, Same, Sets, Data, Inodes, b
<1>13. Shape'
  <2>1. Packed' = Packed
    BY SameTree
  <2>2. Nodes' \subseteq Packed'
    BY <1>5, <2>1 DEF Shape
  <2>3. Root \in Nodes' /\ where'[Root] = FreemapNum + 1
    BY <1>5 DEF Shape
  <2>4. \A m \in Nodes' \ {Root} : tree[m].parent \in Nodes'
    BY <1>1, <1>2, <1>5 DEF Shape
  <2>5. ImageShape(image)'
    BY DEF Shape
  <2> QED
    BY <1>3, <2>2, <2>3, <2>4, <2>5 DEF Shape
<1> QED
  BY <1>11, <1>12, <1>13

\* The calls but the innermost, when an entry of the innermost one is taken.
LEMMA OuterKept ==
  ASSUME Shape, NEW ino, NEW cnt, NEW kids, Frames(ino, cnt, kids), NEW n, tree[n].parent = Top.dir,
         NEW x, NEW k, NEW ino2, NEW cnt2, NEW kids2,
         Grown(n, x, k, ino, cnt, kids, ino2, cnt2, kids2),
         tree' = tree, NEW i \in 1 .. Len(stack), i # Len(stack),
         stack'[i] = stack[i], Busy(i)' = Busy(i)
  PROVE  FrameOK(stack[i], Busy(i), ino2, cnt2, kids2)'
<1>1. PICK f, busy : f = stack[i] /\ busy = Busy(i)
  OBVIOUS
<1>2. FrameOK(f, busy, ino, cnt, kids)
  BY <1>1 DEF Frames
<1>3. f.dir # Top.dir
  BY <1>1, TopFacts
<1>4. n \notin f.todo
  BY <1>2, <1>3 DEF FrameOK, Children
<1>5. f.todo \cap Nodes' = {} /\ Nodes \subseteq Nodes'
  BY <1>2, <1>4 DEF FrameOK, Grown
<1>6. f.dir \in Nodes
  BY <1>2 DEF FrameOK
<1>7. where'[f.dir] = where[f.dir] /\ Same(f.dir, ino, cnt, kids, ino2, cnt2, kids2)
  BY <1>6 DEF Grown
<1>8. FrameOK(f, busy, ino2, cnt2, kids2)'
  BY <1>2, <1>5, <1>7, FrameKept
<1> QED
  BY <1>1, <1>8 DEF FrameOK

LEMMA NewDirInode ==
  ASSUME NEW n \in Dirs, NEW b, NEW up, NEW g \in Leftover
  PROVE  LET w == Walk(n, b, up, g)
         IN  /\ DOMAIN w = {"dir", "num", "emptyIndex", "todo", "inode"}
             /\ w.dir = n /\ w.num = b /\ w.emptyIndex = 2 /\ w.todo = Children(n)
             /\ NewInodeOK(n, w.inode, 2) /\ w.inode.indirect = g
<1> DEFINE x == NewInode(n, TYPE_DIR, 0, g)
           d0 == [filename |-> ".", block |-> b]
           d1 == [filename |-> "..", block |-> up]
           d == [[x.direct EXCEPT ![0] = d0] EXCEPT ![1] = d1]
           y == [x EXCEPT !.direct = d]
<1>1. Walk(n, b, up, g) =
        [dir |-> n, num |-> b, emptyIndex |-> 2, todo |-> Children(n), inode |-> y]
  <2>1. [NewInode(n, TYPE_DIR, 0, g) EXCEPT !.direct[0] = d0, !.direct[1] = d1] = y
    <3>1. "direct" \in DOMAIN x
      BY DEF NewInode, StaleInode
    <3> HIDE DEF d0, d1
    <3> QED
      BY <3>1
  <2> QED
    BY <2>1 DEF Walk
<1>2. /\ InodeShape(x) /\ x.filename = tree[n].name /\ x.type = TYPE_DIR /\ x.indirect = g
  BY DEF NewInode, StaleInode, InodeShape
<1> HIDE DEF x
<1>3. 0 \in 0 .. NDirect - 1 /\ 1 \in 0 .. NDirect - 1
  BY Constants
<1>4. d0.filename = "." /\ d1.filename = ".."
  OBVIOUS
<1> HIDE DEF d0, d1
<1>5. d[0] = d0 /\ d[1] = d1 /\ DOMAIN d = 0 .. NDirect - 1
  <2> DEFINE e == [x.direct EXCEPT ![0] = d0]
  <2>1. e[0] = d0 /\ DOMAIN e = 0 .. NDirect - 1
    BY <1>2, <1>3 DEF InodeShape
  <2>2. d = [e EXCEPT ![1] = d1]
    OBVIOUS
  <2> HIDE DEF e, d
  <2> QED
    BY <1>3, <2>1, <2>2
<1> HIDE DEF d
<1>6. /\ InodeShape(y) /\ y.filename = tree[n].name /\ y.type = TYPE_DIR /\ y.indirect = g /\ y.direct = d
  BY <1>2, <1>5 DEF InodeShape
<1> HIDE DEF y
<1>7. NewInodeOK(n, y, 2)
  BY <1>4, <1>5, <1>6, Kinds DEF NewInodeOK
<1> QED
  BY <1>1, <1>6, <1>7

LEMMA NewFileInode ==
  ASSUME NEW n \in Files, NEW g \in Leftover
  PROVE  NewInodeOK(n, [NewInode(n, TYPE_FILE, tree[n].size, g) EXCEPT
                          !.blocks = BlocksOf(tree[n].size)], 0)
<1> DEFINE k == BlocksOf(tree[n].size)
           x == NewInode(n, TYPE_FILE, tree[n].size, g)
           y == [x EXCEPT !.blocks = k]
<1> HIDE DEF k
<1>1. /\ InodeShape(x) /\ x.filename = tree[n].name /\ x.type = TYPE_FILE /\ x.indirect = g
      /\ x.size = tree[n].size
  BY DEF NewInode, StaleInode, InodeShape
<1> HIDE DEF x
<1>2. /\ InodeShape(y) /\ y.filename = tree[n].name /\ y.type = TYPE_FILE /\ y.indirect = g
      /\ y.size = tree[n].size /\ y.blocks = k
  BY <1>1 DEF InodeShape
<1> HIDE DEF y
<1>3. NewInodeOK(n, y, 0)
  BY <1>2, Kinds DEF NewInodeOK, FileSoFar, k
<1> QED
  BY <1>3 DEF y, x, k

\* What is complete stays complete while nothing of it is written.
LEMMA StoredKept ==
  ASSUME NEW ino, NEW cnt, NEW kids, Stored(ino, cnt, kids), tree' = tree,
         NEW ino2, NEW cnt2, NEW kids2,
         \A m \in (Nodes \ Open)' : /\ m \in Nodes \ Open
                                    /\ Same(m, ino, cnt, kids, ino2, cnt2, kids2)
                                    /\ InodeOf(m)' = InodeOf(m)
  PROVE  Stored(ino2, cnt2, kids2)'
<1>1. Dirs' = Dirs /\ Files' = Files
  BY SameTree
<1> QED
  BY <1>1 DEF Stored, Same

LEMMA EnterKeeps ==
  ASSUME OneLongNode, Shape, NEW use, NEW ino, NEW cnt, NEW kids, BuildInv(use, ino, cnt, kids),
         NEW n, EnterDir(n)
  PROVE  Shape' /\ \E use2, ino2, cnt2, kids2 : BuildInv(use2, ino2, cnt2, kids2)'
<1> DEFINE b == FreeBlock(1)
<1>0. Control(ino, cnt, kids) /\ Data(use, ino, cnt, kids) /\ Frames(ino, cnt, kids)
  BY DEF BuildInv, Control
<1>a. PICK L : L = Len(stack)
  OBVIOUS
<1>1. /\ Readdir(n) /\ tree[n].kind = "dir" /\ Enough(1) /\ TakeBlocks(1)
      /\ where' = Placed(n, b) /\ UNCHANGED <<tree, file, item, pc, image>>
  BY DEF EnterDir
<1>2. PICK g \in Leftover : stack' = Append(Dropped(n), Walk(n, b, Upper(b), g))
  BY DEF EnterDir
<1>3. /\ n \in Children(Top.dir) /\ n \in DOMAIN tree /\ n # Root /\ n \notin Nodes
      /\ tree[n].parent = Top.dir
      /\ EntriesOf(tree, Top.dir) = (Top.todo \cap Packed) \cup kids[Top.dir]
      /\ pc = "walk"
  BY <1>a, <1>0, <1>1, EntryIsNew
<1>4. n \in Dirs /\ n \in Packed
  BY <1>a, <1>1, <1>3 DEF Dirs, Packed
<1> DEFINE w == Walk(n, b, Upper(b), g)
           x == w.inode
<1>5. /\ DOMAIN w = {"dir", "num", "emptyIndex", "todo", "inode"}
      /\ w.dir = n /\ w.num = b /\ w.emptyIndex = 2 /\ w.todo = Children(n)
      /\ NewInodeOK(n, x, 2)
  BY <1>a, <1>4, NewDirInode
<1> HIDE DEF w, b
<1>6. pc' \in {"walk", "copy"} /\ where' = Placed(n, FreeBlock(1)) /\ UNCHANGED <<tree, image>>
  BY <1>a, <1>1, <1>3 DEF b
<1>7. /\ Shape'
      /\ \E use2, ino2, cnt2, kids2 : /\ Data(use2, ino2, cnt2, kids2)'
                                      /\ Grown(n, x, 2, ino, cnt, kids, ino2, cnt2, kids2)
  BY <1>a, <1>1, <1>4, <1>5, <1>6, NodeTaken
<1>8. PICK use2, ino2, cnt2, kids2 : /\ Data(use2, ino2, cnt2, kids2)'
                                     /\ Grown(n, x, 2, ino, cnt, kids, ino2, cnt2, kids2)
  BY <1>a, <1>7
<1>9. L \in Nat /\ L \in 1 .. L /\ 1 \in 1 .. L /\ FrameOK(Top, Busy(L), ino, cnt, kids)
  BY <1>a, <1>0, TopFacts
<1>10. /\ StackOK(stack') /\ Len(stack') = L + 1 /\ stack'[L + 1] = w
       /\ \A i \in 1 .. L : stack'[i] = IF i = L THEN [Top EXCEPT !.todo = @ \ {n}] ELSE stack[i]
  <2> DEFINE d == Dropped(n)
  <2>1. /\ StackOK(d) /\ Len(d) = L
        /\ \A i \in 1 .. L : d[i] = IF i = L THEN [Top EXCEPT !.todo = @ \ {n}] ELSE stack[i]
    BY <1>a, <1>0, DroppedIs
  <2>2. stack' = Append(d, w)
    BY <1>a, <1>2 DEF w
  <2> HIDE DEF d
  <2>3. /\ StackOK(stack') /\ Len(stack') = Len(d) + 1 /\ stack'[Len(d) + 1] = w
        /\ \A i \in 1 .. Len(d) : stack'[i] = d[i]
    BY <2>1, <2>2, Pushed
  <2> QED
    BY <2>1, <2>3
<1>11. \A i \in 1 .. L : stack'[i].dir = stack[i].dir /\ stack[i].dir \in Nodes
  BY <1>a, <1>0, <1>9, <1>10 DEF FrameOK, Top, Frames
<1>12. Nodes' = Nodes \cup {n} /\ Dirs' = Dirs /\ Packed' = Packed /\ Files' = Files
       /\ \A m : Children(m)' = Children(m)
  BY <1>a, <1>1, <1>8, SameTree DEF Grown
<1>13. \A i \in 1 .. L + 1 : i \in 1 .. L \/ i = L + 1
  BY <1>a, <1>9
<1>14. Open' = Open \cup {n}
  BY <1>a, <1>1, <1>3, <1>5, <1>10, <1>11, <1>13 DEF Open
<1>15. ASSUME NEW i \in 1 .. L, i # L
       PROVE  FrameOK(stack[i], Busy(i), ino2, cnt2, kids2)'
  <2>1. i + 1 \in 1 .. L /\ i < L /\ i < L + 1
    BY <1>a, <1>9, <1>15
  <2>2. Busy(i)' = Busy(i) /\ stack'[i] = stack[i]
    BY <1>a, <1>10, <1>11, <1>15, <2>1 DEF Busy
  <2> QED
    BY <1>a, <1>0, <1>1, <1>3, <1>8, <1>15, <2>2, OuterKept
<1>16. FrameOK(stack[L], Busy(L), ino2, cnt2, kids2)'
  <2> DEFINE h == [Top EXCEPT !.todo = @ \ {n}]
  <2>1. /\ DOMAIN h = DOMAIN Top /\ h.dir = Top.dir /\ h.num = Top.num /\ h.inode = Top.inode
        /\ h.emptyIndex = Top.emptyIndex /\ h.todo = Top.todo \ {n}
    BY <1>a, <1>9 DEF FrameOK
  <2>2. stack'[L] = h /\ Busy(L)' = {n}
    <3>1. L < L + 1 /\ stack'[L + 1].dir = n
      BY <1>5, <1>9, <1>10
    <3>2. stack'[L] = h
      BY <1>9, <1>10
    <3> QED
      BY <1>10, <3>1, <3>2 DEF Busy
  <2> HIDE DEF h
  <2>3. Top.dir \in Nodes \cap Dirs /\ n \notin kids[Top.dir]
    BY <1>a, <1>0, <1>3, <1>9 DEF FrameOK, Data, Inodes, DirSoFar
  <2>4. where'[Top.dir] = where[Top.dir] /\ Same(Top.dir, ino, cnt, kids, ino2, cnt2, kids2)
    BY <1>a, <1>8, <2>3 DEF Grown
  <2>5. EntriesOf(tree, Top.dir) = (h.todo \cap Packed) \cup kids[Top.dir] \cup {n}
    BY <1>a, <1>3, <1>4, <2>1, EntriesAre
  <2>6. h.todo \subseteq Children(Top.dir) /\ h.todo \cap Nodes' = {}
    BY <1>a, <1>9, <1>12, <2>1 DEF FrameOK
  <2> QED
    BY <1>a, <1>1, <1>9, <1>12, <2>1, <2>2, <2>3, <2>4, <2>5, <2>6 DEF FrameOK, Same
<1>17. FrameOK(stack[L + 1], Busy(L + 1), ino2, cnt2, kids2)'
  <2>1. stack'[L + 1] = w /\ Busy(L + 1)' = {}
    BY <1>a, <1>1, <1>3, <1>9, <1>10 DEF Busy
  <2>2. where'[n] = b /\ ino2[n] = x /\ cnt2[n] = 2 /\ kids2[n] = {}
    BY <1>a, <1>8 DEF Grown, b
  <2>3. Children(n) \cap Nodes' = {}
    <3>1. ASSUME NEW m \in Children(n), m \in Nodes PROVE FALSE
      BY <1>a, <1>3, <3>1 DEF Shape, Children
    <3>2. n \notin Children(n)
      BY <1>a, <1>3, <1>9 DEF Children, FrameOK
    <3> QED
      BY <1>a, <1>12, <3>1, <3>2
  <2>4. EntriesOf(tree, n) = (Children(n) \cap Packed) \cup {} \cup {}
    BY EntriesAre
  <2> QED
    BY <1>a, <1>1, <1>4, <1>5, <1>12, <2>1, <2>2, <2>3, <2>4 DEF FrameOK
<1>18. Frames(ino2, cnt2, kids2)'
  <2>1. stack'[1].dir = Root
    BY <1>a, <1>0, <1>9, <1>11 DEF Frames
  <2>2. ASSUME NEW i \in 1 .. L + 1, NEW j \in 1 .. L + 1, stack'[i].dir = stack'[j].dir
        PROVE  i = j
    <3>1. stack'[L + 1].dir = n
      BY <1>a, <1>5, <1>10
    <3>2. \A q \in 1 .. L : stack'[q].dir # n
      BY <1>a, <1>3, <1>11
    <3> QED
      BY <1>a, <1>0, <1>11, <1>13, <2>2, <3>1, <3>2 DEF Frames
  <2>3. \A i \in 1 .. L + 1 : FrameOK(stack[i], Busy(i), ino2, cnt2, kids2)'
    BY <1>a, <1>13, <1>15, <1>16, <1>17
  <2> QED
    BY <1>a, <1>10, <2>1, <2>2, <2>3 DEF Frames
<1>19. Copying(ino2, cnt2)' /\ Written(ino2, cnt2)'
  BY <1>a, <1>1, <1>3 DEF Copying, Written
<1>20. Stored(ino2, cnt2, kids2)'
  <2>1. \A m \in (Nodes \ Open)' : /\ m \in Nodes \ Open
                                    /\ Same(m, ino, cnt, kids, ino2, cnt2, kids2)
                                    /\ InodeOf(m)' = InodeOf(m)
    BY <1>a, <1>1, <1>8, <1>12, <1>14 DEF Grown, InodeOf
  <2> QED
    BY <1>a, <1>0, <1>1, <2>1, StoredKept DEF Control
<1> QED
  BY <1>a, <1>7, <1>8, <1>18, <1>19, <1>20 DEF BuildInv, Control

LEMMA StartKeeps ==
  ASSUME OneLongNode, Shape, NEW use, NEW ino, NEW cnt, NEW kids, BuildInv(use, ino, cnt, kids),
         NEW n, StartFile(n)
  PROVE  Shape' /\ \E use2, ino2, cnt2, kids2 : BuildInv(use2, ino2, cnt2, kids2)'
<1> DEFINE b == FreeBlock(1)
<1>0. Control(ino, cnt, kids) /\ Data(use, ino, cnt, kids) /\ Frames(ino, cnt, kids)
  BY DEF BuildInv, Control
<1>a. PICK L : L = Len(stack)
  OBVIOUS
<1>1. /\ Readdir(n) /\ tree[n].kind = "reg" /\ Enough(1) /\ TakeBlocks(1)
      /\ where' = Placed(n, b) /\ UNCHANGED <<tree, item, image>> /\ pc' = "copy"
      /\ stack' = Dropped(n)
  BY DEF StartFile
<1>2. PICK g \in Leftover :
        file' = [node |-> n, num |-> b, left |-> tree[n].size, blockIndex |-> 0,
                 inode |-> [NewInode(n, TYPE_FILE, tree[n].size, g) EXCEPT
                              !.blocks = BlocksOf(tree[n].size)]]
  BY DEF StartFile
<1>3. /\ n \in Children(Top.dir) /\ n \in DOMAIN tree /\ n # Root /\ n \notin Nodes
      /\ tree[n].parent = Top.dir
      /\ EntriesOf(tree, Top.dir) = (Top.todo \cap Packed) \cup kids[Top.dir]
      /\ pc = "walk"
  BY <1>0, <1>1, EntryIsNew
<1>4. n \in Files /\ n \in Packed
  BY <1>1, <1>3 DEF Files, Packed
<1> DEFINE x == [NewInode(n, TYPE_FILE, tree[n].size, g) EXCEPT !.blocks = BlocksOf(tree[n].size)]
<1>5. NewInodeOK(n, x, 0)
  BY <1>4, NewFileInode
<1> HIDE DEF x, b
<1>6. pc' \in {"walk", "copy"} /\ where' = Placed(n, FreeBlock(1)) /\ UNCHANGED <<tree, image>>
  BY <1>1, <1>3 DEF b
<1>7. /\ Shape'
      /\ \E use2, ino2, cnt2, kids2 : /\ Data(use2, ino2, cnt2, kids2)'
                                      /\ Grown(n, x, 0, ino, cnt, kids, ino2, cnt2, kids2)
  BY <1>1, <1>4, <1>5, <1>6, NodeTaken
<1>8. PICK use2, ino2, cnt2, kids2 : /\ Data(use2, ino2, cnt2, kids2)'
                                     /\ Grown(n, x, 0, ino, cnt, kids, ino2, cnt2, kids2)
  BY <1>7
<1>9. L \in Nat /\ L \in 1 .. L /\ 1 \in 1 .. L /\ FrameOK(Top, Busy(L), ino, cnt, kids)
  BY <1>0, <1>a, TopFacts
<1>10. /\ StackOK(stack') /\ Len(stack') = L
       /\ \A i \in 1 .. L : stack'[i] = IF i = L THEN [Top EXCEPT !.todo = @ \ {n}] ELSE stack[i]
  BY <1>0, <1>a, <1>1, DroppedIs
<1>11. \A i \in 1 .. L : stack'[i].dir = stack[i].dir /\ stack[i].dir \in Nodes
  BY <1>0, <1>a, <1>9, <1>10 DEF FrameOK, Top, Frames
<1>12. Nodes' = Nodes \cup {n} /\ Dirs' = Dirs /\ Packed' = Packed /\ Files' = Files
       /\ \A m : Children(m)' = Children(m)
  BY <1>1, <1>8, SameTree DEF Grown
<1>13. /\ DOMAIN file' = {"node", "num", "inode", "left", "blockIndex"}
       /\ file'.node = n /\ file'.num = b /\ file'.inode = x /\ file'.left = tree[n].size
       /\ file'.blockIndex = 0
  BY <1>2 DEF x
<1>14. Open' = Open \cup {n}
  BY <1>a, <1>1, <1>3, <1>10, <1>11, <1>13 DEF Open
<1>15. ASSUME NEW i \in 1 .. L, i # L
       PROVE  FrameOK(stack[i], Busy(i), ino2, cnt2, kids2)'
  <2>1. i + 1 \in 1 .. L /\ i < L
    BY <1>9, <1>15
  <2>2. Busy(i)' = Busy(i) /\ stack'[i] = stack[i]
    BY <1>a, <1>10, <1>11, <1>15, <2>1 DEF Busy
  <2> QED
    BY <1>0, <1>a, <1>1, <1>3, <1>8, <1>15, <2>2, OuterKept
<1>16. FrameOK(stack[L], Busy(L), ino2, cnt2, kids2)'
  <2> DEFINE g1 == [Top EXCEPT !.todo = @ \ {n}]
  <2>1. /\ DOMAIN g1 = DOMAIN Top /\ g1.dir = Top.dir /\ g1.num = Top.num /\ g1.inode = Top.inode
        /\ g1.emptyIndex = Top.emptyIndex /\ g1.todo = Top.todo \ {n}
    BY <1>9 DEF FrameOK
  <2>2. stack'[L] = g1 /\ Busy(L)' = {n}
    <3>1. stack'[L] = g1
      BY <1>9, <1>10
    <3> QED
      BY <1>1, <1>9, <1>10, <1>13, <3>1 DEF Busy
  <2> HIDE DEF g1
  <2>3. Top.dir \in Nodes \cap Dirs /\ n \notin kids[Top.dir]
    BY <1>0, <1>3, <1>9 DEF FrameOK, Data, Inodes, DirSoFar
  <2>4. where'[Top.dir] = where[Top.dir] /\ Same(Top.dir, ino, cnt, kids, ino2, cnt2, kids2)
    BY <1>8, <2>3 DEF Grown
  <2>5. EntriesOf(tree, Top.dir) = (g1.todo \cap Packed) \cup kids[Top.dir] \cup {n}
    BY <1>3, <1>4, <2>1, EntriesAre
  <2>6. g1.todo \subseteq Children(Top.dir) /\ g1.todo \cap Nodes' = {}
    BY <1>9, <1>12, <2>1 DEF FrameOK
  <2> QED
    BY <1>1, <1>9, <1>12, <2>1, <2>2, <2>3, <2>4, <2>5, <2>6 DEF FrameOK, Same
<1>17. Frames(ino2, cnt2, kids2)'
  <2>1. stack'[1].dir = Root
    BY <1>0, <1>9, <1>11 DEF Frames
  <2>2. \A i, j \in 1 .. L : stack'[i].dir = stack'[j].dir => i = j
    BY <1>0, <1>a, <1>11 DEF Frames
  <2>3. \A i \in 1 .. L : FrameOK(stack[i], Busy(i), ino2, cnt2, kids2)'
    BY <1>15, <1>16
  <2> QED
    BY <1>10, <2>1, <2>2, <2>3 DEF Frames
<1>18. Copying(ino2, cnt2)' /\ Written(ino2, cnt2)'
  <2>1. where'[n] = b /\ ino2[n] = x /\ cnt2[n] = 0 /\ n \in Nodes' \cap Files'
    BY <1>4, <1>8, <1>12 DEF Grown, b
  <2>2. tree[n].size \in Nat /\ BlockSize \in Nat
    BY <1>3, TreeFacts, Constants
  <2>3. 0 * BlockSize = 0
    BY Constants
  <2>4. tree[n].size = LeftAfter(n, 0)'
    BY <1>1, <2>2, <2>3 DEF LeftAfter
  <2> QED
    BY <1>1, <1>13, <2>1, <2>4 DEF Copying, Written
<1>19. Stored(ino2, cnt2, kids2)'
  <2>1. \A m \in (Nodes \ Open)' : /\ m \in Nodes \ Open
                                    /\ Same(m, ino, cnt, kids, ino2, cnt2, kids2)
                                    /\ InodeOf(m)' = InodeOf(m)
    BY <1>1, <1>8, <1>12, <1>14 DEF Grown, InodeOf
  <2> QED
    BY <1>0, <1>1, <2>1, StoredKept DEF Control
<1> QED
  BY <1>7, <1>8, <1>17, <1>18, <1>19 DEF BuildInv, Control

LEMMA UseTaken ==
  ASSUME NEW use, NEW n, NEW k, NEW x, NEW b1, NEW b2
  PROVE  \E use2 : Uses(use, n, k, x, b1, b2, use2)
<1> DEFINE u == [c \in Block |-> IF n \in Files /\ c = b1 THEN <<"data", n, k>>
                                 ELSE IF NeedsIndirect(x, k) /\ c = b2 THEN <<"items", n, 0>> ELSE use[c]]
<1>1. Uses(use, n, k, x, b1, b2, u)
  BY DEF Uses
<1> QED
  BY <1>1

LEMMA StoreItemWrites ==
  ASSUME NEW im, ImageShape(im), NEW k \in Nat, k < NDirect + ItemsPerBlock,
         NEW y, k >= NDirect => y.indirect \in Block, NEW it, it.block \in Block
  PROVE  LET to == StoreItem(im, y, k, it)
         IN  /\ ImageShape(to)
             /\ k >= NDirect =>
                  /\ to.inode[y.indirect] = StaleInode
                  /\ to.items[y.indirect] = [im.items[y.indirect] EXCEPT ![k - NDirect] = it]
             /\ \A c \in Block : ~(k >= NDirect /\ c = y.indirect) =>
                  to.inode[c] = im.inode[c] /\ to.items[c] = im.items[c] /\ to.data[c] = im.data[c]
<1> DEFINE to == StoreItem(im, y, k, it)
<1>1. CASE k < NDirect
  <2>1. to = im /\ ~(k >= NDirect)
    BY <1>1, Constants DEF StoreItem
  <2> HIDE DEF to
  <2>2. /\ ImageShape(to)
        /\ \A c \in Block : to.inode[c] = im.inode[c] /\ to.items[c] = im.items[c] /\ to.data[c] = im.data[c]
    BY <2>1
  <2> QED
    BY <2>1, <2>2 DEF to
<1>2. CASE ~(k < NDirect)
  <2> DEFINE b == y.indirect
             j == k - NDirect
  <2>1. b \in Block /\ j \in Slot /\ to = PutItem(im, b, j, it)
    BY <1>2, Constants DEF StoreItem, Slot
  <2>2. k >= NDirect
    BY <1>2, Constants
  <2> HIDE DEF to, b, j
  <2>3. /\ ImageShape(to) /\ to.inode[b] = StaleInode
        /\ to.items[b] = [im.items[b] EXCEPT ![j] = it]
        /\ \A c \in Block \ {b} : /\ to.inode[c] = im.inode[c] /\ to.items[c] = im.items[c]
                                  /\ to.data[c] = im.data[c]
    BY <2>1, PutItemWrites
  <2> QED
    BY <2>2, <2>3 DEF to, b, j
<1> QED
  BY <1>1, <1>2

LEMMA MinOfTwo ==
  ASSUME NEW a \in Int, NEW b \in Int
  PROVE  Min({a, b}) = IF a <= b THEN a ELSE b
<1> DEFINE m == IF a <= b THEN a ELSE b
<1>1. m \in {a, b} /\ \A c \in {a, b} : m <= c
  OBVIOUS
<1>2. \A z \in {a, b} : (\A c \in {a, b} : z <= c) => z = m
  OBVIOUS
<1> HIDE DEF m
<1>3. Min({a, b}) = m
  BY <1>1, <1>2 DEF Min
<1> QED
  BY <1>3 DEF m

\* One block: where its bytes come from, and what is left.
LEMMA BlockFacts ==
  ASSUME NEW n, tree[n].size \in Nat, NEW k \in Nat, NEW left, left = LeftAfter(n, k), left > 0
  PROVE  /\ k * BlockSize < tree[n].size
         /\ left - Min({left, BlockSize}) = LeftAfter(n, k + 1)
         /\ \A j \in 0 .. BlockSize - 1 : Place(k, j) < tree[n].size => j < Min({left, BlockSize})
<1> DEFINE p == k * BlockSize
           q == (k + 1) * BlockSize
<1>1. BlockSize \in Nat /\ p \in Nat
  BY Constants
<1>2. q = p + BlockSize
  BY <1>1
<1>3. left = (IF tree[n].size <= p THEN 0 ELSE tree[n].size - p)
      /\ LeftAfter(n, k + 1) = IF tree[n].size <= q THEN 0 ELSE tree[n].size - q
  BY DEF LeftAfter
<1>4. \A j : Place(k, j) = p + j
  BY DEF Place
<1> HIDE DEF p, q
<1>5. p < tree[n].size /\ left = tree[n].size - p
  BY <1>1, <1>3
<1>6. Min({left, BlockSize}) = IF left <= BlockSize THEN left ELSE BlockSize
  BY <1>1, <1>5, MinOfTwo
<1>7. left - Min({left, BlockSize}) = LeftAfter(n, k + 1)
  BY <1>1, <1>2, <1>3, <1>5, <1>6
<1>8. \A j \in 0 .. BlockSize - 1 : Place(k, j) < tree[n].size => j < Min({left, BlockSize})
  BY <1>1, <1>4, <1>5, <1>6
<1> QED
  BY <1>1, <1>5, <1>7, <1>8 DEF p

\* What copying a block does to the blocks.
LEMMA BlockIsCopied ==
  ASSUME OneLongNode, Shape, NEW use, NEW ino, NEW cnt, NEW kids, BuildInv(use, ino, cnt, kids),
         CopyBlock, NEW n, n = file.node
  PROVE  /\ Shape'
         /\ \E use2, ino2, cnt2, kids2, y :
              /\ Data(use2, ino2, cnt2, kids2)'
              /\ Sets(ino, ino2, n, y) /\ Sets(cnt, cnt2, n, cnt[n] + 1) /\ Sets(kids, kids2, n, kids[n])
              /\ file' = [file EXCEPT !.left = @ - Min({file.left, BlockSize}),
                                      !.blockIndex = @ + 1, !.inode = y]
              /\ \A c \in Block : use[c] \notin {Nil, <<"items", n, 0>>} =>
                   image'.inode[c] = image.inode[c]
<1> DEFINE k == cnt[n]
           x == ino[n]
<1>0. /\ Control(ino, cnt, kids) /\ Data(use, ino, cnt, kids) /\ Copying(ino, cnt)
      /\ Owned(use, ino, cnt) /\ Inodes(ino, cnt, kids)
  BY DEF BuildInv, Control, Data
<1>1. PICK b1, b2, size, from : b1 = FreeBlock(1) /\ b2 = FreeBlock(Demand)
                                /\ size = Min({file.left, BlockSize}) /\ from = file.inode.size - file.left
  OBVIOUS
<1> DEFINE it == [filename |-> "", block |-> b1]
           y == WithItem(x, k, it, b2)
<1>2. /\ pc = "copy" /\ file.left > 0 /\ Enough(Demand) /\ TakeBlocks(Demand)
      /\ image' = StoreItem(PutBytes(image, b1, file.node, from, size),
                            WithItem(file.inode, file.blockIndex, it, b2), file.blockIndex, it)
      /\ file' = [file EXCEPT !.left = @ - size, !.blockIndex = @ + 1,
                              !.inode = WithItem(file.inode, file.blockIndex, it, b2)]
      /\ UNCHANGED <<tree, stack, item, pc, where>>
  BY <1>1 DEF CopyBlock
<1>3. /\ n \in Nodes /\ n \in Files /\ file.inode = x /\ file.blockIndex = k /\ file.left = LeftAfter(n, k)
  BY <1>0, <1>2 DEF Copying
<1>4. /\ image' = StoreItem(PutBytes(image, b1, n, from, size), y, k, it)
      /\ file' = [file EXCEPT !.left = @ - size, !.blockIndex = @ + 1, !.inode = y]
      /\ Demand = IF NeedsIndirect(x, k) THEN 2 ELSE 1
  BY <1>2, <1>3 DEF Demand
<1>5. /\ InodeShape(x) /\ k \in Nat /\ x.size = tree[n].size /\ tree[n].size \in Nat
      /\ k > NDirect => x.indirect \in Block /\ use[x.indirect] = <<"items", n, 0>>
  BY <1>0, <1>3, TreeFacts, Kinds DEF Inodes, FileSoFar, Owned, Shape
<1> HIDE DEF k, x
<1>6. /\ k * BlockSize < tree[n].size
      /\ from = k * BlockSize
      /\ \A j \in 0 .. BlockSize - 1 : Place(k, j) < tree[n].size => j < size
  <2>1. PICK left, i : left = file.left /\ i = k
    OBVIOUS
  <2>2. tree[n].size \in Nat /\ i \in Nat /\ left = LeftAfter(n, i) /\ left > 0
    BY <1>2, <1>3, <1>5, <2>1
  <2>3. i * BlockSize < tree[n].size
    BY <2>2, BlockFacts
  <2>4. tree[n].size - left = i * BlockSize
    <3> DEFINE p == i * BlockSize
    <3>1. p \in Nat /\ p < tree[n].size /\ left = IF tree[n].size <= p THEN 0 ELSE tree[n].size - p
      BY <2>2, <2>3, Constants DEF LeftAfter
    <3> HIDE DEF p
    <3>2. tree[n].size - left = p
      BY <2>2, <3>1
    <3> QED
      BY <3>2 DEF p
  <2>5. \A j \in 0 .. BlockSize - 1 : Place(i, j) < tree[n].size => j < Min({left, BlockSize})
    BY <2>2, BlockFacts
  <2> QED
    BY <1>1, <1>3, <1>5, <2>1, <2>3, <2>4, <2>5
<1>7. it.block = b1 /\ \A m \in Dirs : m # n
  BY <1>3, Kinds
<1> HIDE DEF it
<1>8. ItemFor(kids, n, k, it, b1, kids[n])
  BY <1>6, <1>7 DEF ItemFor
<1>9. k < NDirect + ItemsPerBlock /\ (NeedsIndirect(x, k) <=> k = NDirect)
  BY <1>0, <1>3, <1>8, LongNeeds DEF k, x
<1>10. /\ b1 \in Block /\ freemap[b1] = 0
       /\ k = NDirect => b2 \in Block /\ freemap[b2] = 0 /\ b1 # b2
       /\ \A c \in Block : freemap'[c] = IF c = b1 \/ (k = NDirect /\ c = b2) THEN 1 ELSE freemap[c]
       /\ freemap' \in [Block -> 0 .. 1] /\ freenum' = Cardinality(Free')
  <2>1. CASE k = NDirect
    BY <1>1, <1>2, <1>4, <1>9, <2>1, TakeTwo
  <2>2. CASE k # NDirect
    BY <1>1, <1>2, <1>4, <1>9, <2>2, TakeOne
  <2> QED
    BY <2>1, <2>2
<1>11. PICK use2 : Uses(use, n, k, x, b1, b2, use2)
  BY UseTaken
<1>12. Takes(use, n, k, x, b1, b2, use2)
  BY <1>3, <1>9, <1>10, <1>11 DEF Takes
<1>13. y.indirect = IF k = NDirect THEN b2 ELSE x.indirect
  BY <1>5, <1>9, WithItemIs
<1> HIDE DEF y
<1>14. /\ use[b1] = Nil /\ (k = NDirect => use[b2] = Nil)
       /\ k >= NDirect => y.indirect \in Block /\ y.indirect # b1
       /\ k >= NDirect => use[y.indirect] \in {Nil, <<"items", n, 0>>}
  <2>1. use[b1] = Nil /\ (k = NDirect => use[b2] = Nil)
    BY <1>0, <1>10 DEF Owned
  <2>2. k >= NDirect => k = NDirect \/ k > NDirect
    BY <1>5, Constants
  <2>3. k > NDirect => k # NDirect
    BY <1>5, Constants
  <2>4. <<"items", n, 0>> # Nil
    BY DEF Nil
  <2> QED
    BY <1>5, <1>10, <1>13, <2>1, <2>2, <2>3, <2>4
<1> DEFINE im == PutBytes(image, b1, n, from, size)
<1>15. /\ ImageShape(im) /\ im.inode[b1] = StaleInode
       /\ \A j \in 0 .. BlockSize - 1 : j < size => im.data[b1][j] = <<n, from + j>>
       /\ \A c \in Block \ {b1} : /\ im.inode[c] = image.inode[c] /\ im.items[c] = image.items[c]
                                  /\ im.data[c] = image.data[c]
  BY <1>10, PutBytesWrites DEF Shape
<1>16. image' = StoreItem(im, y, k, it)
  BY <1>4
<1> HIDE DEF im
<1>17. /\ ImageShape(image')
       /\ k >= NDirect =>
            /\ image'.inode[y.indirect] = StaleInode
            /\ image'.items[y.indirect] = [im.items[y.indirect] EXCEPT ![k - NDirect] = it]
       /\ \A c \in Block : ~(k >= NDirect /\ c = y.indirect) =>
            image'.inode[c] = im.inode[c] /\ image'.items[c] = im.items[c] /\ image'.data[c] = im.data[c]
  BY SMTT(30), <1>5, <1>7, <1>9, <1>10, <1>14, <1>15, <1>16, StoreItemWrites
<1>18. Writes(n, k, y, it, b1)
  <2>1. \A c \in Touched(n, k, y, b1) : c = b1 \/ (k >= NDirect /\ c = y.indirect)
    BY DEF Touched
  <2>2. b1 \in Touched(n, k, y, b1) /\ (k >= NDirect => y.indirect \in Touched(n, k, y, b1))
    BY <1>3 DEF Touched
  <2>3. \A c \in Block \ Touched(n, k, y, b1) : /\ image'.inode[c] = image.inode[c]
                                                /\ image'.items[c] = image.items[c]
                                                /\ image'.data[c] = image.data[c]
    BY <1>15, <1>17, <2>2
  <2>4. \A c \in Touched(n, k, y, b1) : image'.inode[c].indirect = 0
    BY <1>10, <1>14, <1>15, <1>17, <2>1, StaleShape
  <2>5. k >= NDirect => image'.items[y.indirect] = [image.items[y.indirect] EXCEPT ![k - NDirect] = it]
    BY <1>14, <1>15, <1>17
  <2>6. ASSUME NEW j \in 0 .. BlockSize - 1, Place(k, j) < tree[n].size
        PROVE  image'.data[b1][j] = <<n, Place(k, j)>>
    <3>1. image'.data[b1] = im.data[b1]
      BY <1>10, <1>14, <1>17
    <3>2. im.data[b1][j] = <<n, from + j>>
      BY <1>6, <1>15, <2>6
    <3>3. from + j = Place(k, j)
      BY <1>6 DEF Place
    <3> QED
      BY <3>1, <3>2, <3>3
  <2> QED
    BY <2>3, <2>4, <2>5, <2>6 DEF Writes
<1>19. PICK ino2 : Sets(ino, ino2, n, y)
  BY SetsExists
<1>20. PICK cnt2 : Sets(cnt, cnt2, n, cnt[n] + 1)
  BY SetsExists
<1>21. PICK kids2 : Sets(kids, kids2, n, kids[n])
  BY SetsExists
<1>22. Adding(use, ino, cnt, kids, n, it, b1, b2, kids[n], y, use2, ino2)
  BY <1>0, <1>3, <1>8, <1>12, <1>18, <1>19 DEF Adding, k, x, y
<1>23. Data(use2, ino2, cnt2, kids2)'
  BY <1>0, <1>2, <1>20, <1>21, <1>22, ItemIsAdded
<1>24. \A c \in Block : use[c] \notin {Nil, <<"items", n, 0>>} => image'.inode[c] = image.inode[c]
  BY <1>14, <1>15, <1>17
<1>25. Shape'
  BY <1>2, <1>10, <1>17, SameTree DEF Shape, Nodes
<1>26. file' = [file EXCEPT !.left = @ - Min({file.left, BlockSize}), !.blockIndex = @ + 1, !.inode = y]
  BY <1>1, <1>4
<1> QED
  BY <1>19, <1>20, <1>21, <1>23, <1>24, <1>25, <1>26

LEMMA CopyKeeps ==
  ASSUME OneLongNode, Shape, NEW use, NEW ino, NEW cnt, NEW kids, BuildInv(use, ino, cnt, kids), CopyBlock
  PROVE  Shape' /\ \E use2, ino2, cnt2, kids2 : BuildInv(use2, ino2, cnt2, kids2)'
<1>0. /\ Control(ino, cnt, kids) /\ Data(use, ino, cnt, kids) /\ Copying(ino, cnt)
      /\ Frames(ino, cnt, kids) /\ Stored(ino, cnt, kids)
  BY DEF BuildInv, Control
<1>1. PICK n : n = file.node
  OBVIOUS
<1>2. PICK use2, ino2, cnt2, kids2, y :
        /\ Data(use2, ino2, cnt2, kids2)'
        /\ Sets(ino, ino2, n, y) /\ Sets(cnt, cnt2, n, cnt[n] + 1) /\ Sets(kids, kids2, n, kids[n])
        /\ file' = [file EXCEPT !.left = @ - Min({file.left, BlockSize}), !.blockIndex = @ + 1, !.inode = y]
        /\ \A c \in Block : use[c] \notin {Nil, <<"items", n, 0>>} => image'.inode[c] = image.inode[c]
  BY ZenonT(40), <1>1, BlockIsCopied
<1>3. pc = "copy" /\ file.left > 0 /\ UNCHANGED <<tree, stack, item, pc, where>>
  BY DEF CopyBlock
<1>4. /\ DOMAIN file = {"node", "num", "inode", "left", "blockIndex"}
      /\ n \in Nodes \cap Files /\ file.num = where[n] /\ file.inode = ino[n] /\ file.blockIndex = cnt[n]
      /\ file.left = LeftAfter(n, cnt[n])
  BY <1>0, <1>1, <1>3 DEF Copying
<1>5. /\ DOMAIN file' = DOMAIN file /\ file'.node = n /\ file'.num = where[n] /\ file'.inode = y
      /\ file'.blockIndex = cnt[n] + 1 /\ file'.left = file.left - Min({file.left, BlockSize})
  BY <1>1, <1>2, <1>4
<1>6. /\ ino2[n] = y /\ cnt2[n] = cnt[n] + 1
      /\ \A m \in Nodes : m # n => Same(m, ino, cnt, kids, ino2, cnt2, kids2)
  BY <1>0, <1>2 DEF Sets, Same, Data, Inodes
<1>7. Nodes' = Nodes /\ Dirs' = Dirs /\ Packed' = Packed /\ Files' = Files
  BY <1>3, SameTree DEF Nodes
<1>8. Open' = Open /\ n \in Open
  BY <1>1, <1>3, <1>5 DEF Open
<1>9. ASSUME NEW i \in 1 .. Len(stack)
      PROVE  FrameOK(stack[i], Busy(i), ino2, cnt2, kids2)'
  <2>1. PICK f, busy : f = stack[i] /\ busy = Busy(i)
    OBVIOUS
  <2>2. FrameOK(f, busy, ino, cnt, kids)
    BY <1>0, <2>1 DEF Frames
  <2>3. f.dir \in Nodes /\ f.dir # n /\ f.todo \cap Nodes' = {}
    BY <1>4, <1>7, <2>2, Kinds DEF FrameOK
  <2>4. FrameOK(f, busy, ino2, cnt2, kids2)'
    BY <1>3, <1>6, <1>7, <2>2, <2>3, FrameKept
  <2>5. busy = Busy(i)' /\ f = stack'[i]
    BY <1>1, <1>3, <1>5, <2>1 DEF Busy
  <2> QED
    BY <2>4, <2>5 DEF FrameOK
<1>10. Frames(ino2, cnt2, kids2)'
  BY <1>0, <1>3, <1>9 DEF Frames
<1>11. Copying(ino2, cnt2)' /\ Written(ino2, cnt2)'
  <2>1. file'.left = LeftAfter(n, cnt[n] + 1)
    <3>1. PICK left, k : left = file.left /\ k = cnt[n]
      OBVIOUS
    <3>2. /\ tree[n].size \in Nat /\ k \in Nat /\ left = LeftAfter(n, k) /\ left > 0
      BY <1>0, <1>3, <1>4, <3>1, TreeFacts, Kinds DEF Data, Inodes
    <3>3. left - Min({left, BlockSize}) = LeftAfter(n, k + 1)
      BY <3>2, BlockFacts
    <3> QED
      BY <1>5, <3>1, <3>3
  <2>2. LeftAfter(n, cnt[n] + 1)' = LeftAfter(n, cnt[n] + 1)
    BY <1>3 DEF LeftAfter
  <2> QED
    BY <1>3, <1>4, <1>5, <1>6, <1>7, <2>1, <2>2 DEF Copying, Written
<1>12. Stored(ino2, cnt2, kids2)'
  <2>1. ASSUME NEW m \in Nodes \ Open PROVE InodeOf(m)' = InodeOf(m)
    <3>1. where[m] \in Block /\ use[where[m]] \notin {Nil, <<"items", n, 0>>}
      BY <1>0 DEF Data, Owned, Nil
    <3> QED
      BY <1>2, <1>3, <3>1 DEF InodeOf
  <2>2. \A m \in (Nodes \ Open)' : /\ m \in Nodes \ Open
                                    /\ Same(m, ino, cnt, kids, ino2, cnt2, kids2)
                                    /\ InodeOf(m)' = InodeOf(m)
    BY <1>6, <1>7, <1>8, <2>1
  <2> QED
    BY <1>0, <1>3, <2>2, StoredKept
<1>13. Shape'
  BY <1>1, BlockIsCopied
<1> QED
  BY <1>2, <1>10, <1>11, <1>12, <1>13 DEF BuildInv, Control

\* What storing the inode of a node changes.
LEMMA InodeIsPut ==
  ASSUME OneLongNode, Shape, NEW use, NEW ino, NEW cnt, NEW kids, Data(use, ino, cnt, kids),
         NEW n \in Nodes, NEW x, InodeShape(x),
         NEW im, ImageShape(im), image' = PutInode(im, where[n], x),
         \A c \in Block : im.inode[c].indirect = image.inode[c].indirect
                            /\ im.items[c] = image.items[c] /\ im.data[c] = image.data[c],
         UNCHANGED <<tree, freemap, where>>,
         x.filename = ino[n].filename, x.type = ino[n].type, x.size = ino[n].size,
         x.direct = ino[n].direct, x.indirect = ino[n].indirect,
         n \in Files => x.blocks = ino[n].blocks,
         NEW ino2, \/ ino2 = ino
                   \/ Sets(ino, ino2, n, x)
  PROVE  /\ Data(use, ino2, cnt, kids)' /\ ImageShape(image')
         /\ InodeOf(n)' = x
         /\ \A m \in Nodes : m # n => InodeOf(m)' = im.inode[where[m]]
<1>1. where[n] \in Block
  BY DEF Data, Owned
<1>2. /\ ImageShape(image') /\ image'.inode[where[n]] = x
      /\ \A c \in Block \ {where[n]} : /\ image'.inode[c] = im.inode[c]
                                       /\ image'.items[c] = im.items[c] /\ image'.data[c] = im.data[c]
  BY <1>1, PutInodeWrites
<1>3. \A m \in Nodes : m # n => where[m] \in Block /\ where[m] # where[n]
  BY DEF Data, Owned
<1>4. CASE Sets(ino, ino2, n, x)
  <2>1. Closing(ino, n, x, ino2)
    BY <1>2, <1>4 DEF Closing
  <2>2. Data(use, ino2, cnt, kids)'
    BY <2>1, InodeIsStored
  <2> QED
    BY <1>2, <1>3, <2>2 DEF InodeOf
<1>5. CASE ino2 = ino
  <2>1. Sets(ino, ino, n, ino[n]) /\ InodeShape(ino[n])
    BY DEF Sets, Data, Inodes
  <2>2. Closing(ino, n, ino[n], ino)
    BY <1>2, <2>1 DEF Closing
  <2>3. Data(use, ino, cnt, kids)'
    BY <2>2, InodeIsStored
  <2> QED
    BY <1>2, <1>3, <1>5, <2>3 DEF InodeOf
<1> QED
  BY <1>4, <1>5

LEMMA CloseKeeps ==
  ASSUME OneLongNode, Shape, NEW use, NEW ino, NEW cnt, NEW kids, BuildInv(use, ino, cnt, kids), CloseFile
  PROVE  Shape' /\ BuildInv(use, ino, cnt, kids)'
<1>0. /\ Control(ino, cnt, kids) /\ Data(use, ino, cnt, kids) /\ Copying(ino, cnt)
      /\ Frames(ino, cnt, kids) /\ Stored(ino, cnt, kids)
  BY DEF BuildInv, Control
<1>1. PICK n : n = file.node
  OBVIOUS
<1>2. /\ pc = "copy" /\ file.left = 0 /\ pc' = "add"
      /\ image' = PutInode(image, file.num, file.inode)
      /\ item' = [filename |-> file.inode.filename, block |-> file.num]
      /\ UNCHANGED <<tree, freemap, freenum, stack, where>>
  BY DEF CloseFile
<1>3. /\ n \in Nodes \cap Files /\ file.num = where[n] /\ file.inode = ino[n]
      /\ file.left = LeftAfter(n, cnt[n])
  BY <1>0, <1>1, <1>2 DEF Copying
<1>4. InodeShape(ino[n]) /\ ImageShape(image) /\ ino[n].filename = tree[n].name
  BY <1>0, <1>3 DEF Data, Inodes, Shape
<1>5. image' = PutInode(image, where[n], ino[n])
  BY <1>2, <1>3
<1>6. /\ Data(use, ino, cnt, kids)' /\ ImageShape(image')
      /\ InodeOf(n)' = ino[n]
      /\ \A m \in Nodes : m # n => InodeOf(m)' = image.inode[where[m]]
  BY <1>0, <1>2, <1>3, <1>4, <1>5, InodeIsPut
<1>7. Nodes' = Nodes /\ Dirs' = Dirs /\ Packed' = Packed /\ Files' = Files
      /\ \A m : Children(m)' = Children(m)
  BY <1>2, SameTree DEF Nodes
<1>8. n \notin {stack[i].dir : i \in 1 .. Len(stack)}
  BY <1>0, <1>3, Kinds DEF Frames, FrameOK
<1>9. Open = Open' \cup {n} /\ n \notin Open'
  BY <1>1, <1>2, <1>8 DEF Open
<1>10. \A i \in 1 .. Len(stack) : Busy(i)' = Busy(i)
  <2>1. {m \in Nodes' : where'[m] = item'.block} = {n}
    BY <1>0, <1>2, <1>3, <1>7 DEF Data, Owned
  <2> QED
    BY <1>1, <1>2, <2>1 DEF Busy
<1>11. Frames(ino, cnt, kids)'
  BY <1>0, <1>2, <1>7, <1>10 DEF Frames, FrameOK
<1>12. Copying(ino, cnt)' /\ Written(ino, cnt)'
  BY <1>2, <1>3, <1>4, <1>7 DEF Copying, Written
<1>13. tree[n].size <= cnt[n] * BlockSize
  <2> DEFINE p == cnt[n] * BlockSize
  <2>1. /\ p \in Nat /\ tree[n].size \in Nat
    BY <1>0, <1>3, TreeFacts, Kinds, Constants DEF Data, Inodes
  <2>2. 0 = IF tree[n].size <= p THEN 0 ELSE tree[n].size - p
    BY <1>2, <1>3 DEF LeftAfter
  <2> HIDE DEF p
  <2>3. tree[n].size <= p
    BY <2>1, <2>2
  <2> QED
    BY <2>3 DEF p
<1>14. Stored(ino, cnt, kids)'
  <2>1. ASSUME NEW m \in Nodes \ Open
        PROVE  InodeOf(m)' = ino[m]
    BY <1>0, <1>6, <1>9, <2>1 DEF Stored, InodeOf
  <2>2. n \notin Dirs
    BY <1>3, Kinds
  <2> QED
    BY <1>0, <1>2, <1>6, <1>7, <1>9, <1>13, <2>1, <2>2 DEF Stored
<1>15. Shape'
  BY <1>2, <1>6, <1>7 DEF Shape, Free
<1> QED
  BY <1>6, <1>11, <1>12, <1>14, <1>15 DEF BuildInv, Control

LEMMA ClosedIs ==
  ASSUME NEW x, InodeShape(x), NEW k, NEW y, y = [x EXCEPT !.blocks = k]
  PROVE  /\ InodeShape(y) /\ y.blocks = k /\ y.filename = x.filename /\ y.type = x.type
         /\ y.size = x.size /\ y.direct = x.direct /\ y.indirect = x.indirect
BY DEF InodeShape

LEMMA LeaveKeeps ==
  ASSUME OneLongNode, Shape, NEW use, NEW ino, NEW cnt, NEW kids, BuildInv(use, ino, cnt, kids), LeaveDir
  PROVE  Shape' /\ \E ino2 : BuildInv(use, ino2, cnt, kids)'
<1>0. /\ Control(ino, cnt, kids) /\ Data(use, ino, cnt, kids) /\ Copying(ino, cnt)
      /\ Frames(ino, cnt, kids) /\ Stored(ino, cnt, kids)
  BY DEF BuildInv, Control
<1>1. PICK n, L : n = Top.dir /\ L = Len(stack)
  OBVIOUS
<1>2. /\ pc = "walk" /\ L > 1 /\ Top.todo = {} /\ pc' = "add"
      /\ image' = PutInode(image, Top.num, Closed(Top))
      /\ item' = [filename |-> Top.inode.filename, block |-> Top.num]
      /\ stack' = SubSeq(stack, 1, Len(stack) - 1)
      /\ UNCHANGED <<tree, freemap, freenum, file, where>>
  BY <1>1 DEF LeaveDir
<1>3. /\ L \in Nat /\ L \in 1 .. L /\ 1 \in 1 .. L
      /\ FrameOK(Top, Busy(L), ino, cnt, kids) /\ Busy(L) = {}
      /\ n \in Open /\ \A i \in 1 .. L : i # L => stack[i].dir # n
  BY <1>0, <1>1, <1>2, TopFacts DEF Busy
<1>4. /\ n \in Nodes \cap Dirs /\ Top.num = where[n] /\ Top.inode = ino[n] /\ Top.emptyIndex = cnt[n]
      /\ kids[n] = EntriesOf(tree, n)
  BY <1>1, <1>2, <1>3 DEF FrameOK
<1> DEFINE x == [ino[n] EXCEPT !.blocks = cnt[n]]
<1>5. InodeShape(ino[n]) /\ ImageShape(image) /\ ino[n].filename = tree[n].name
  BY <1>0, <1>4 DEF Data, Inodes, Shape
<1>6. image' = PutInode(image, where[n], x)
  BY <1>2, <1>4 DEF Closed
<1>7. /\ InodeShape(x) /\ x.blocks = cnt[n] /\ x.filename = ino[n].filename /\ x.type = ino[n].type
      /\ x.size = ino[n].size /\ x.direct = ino[n].direct /\ x.indirect = ino[n].indirect
  BY <1>5, ClosedIs
<1> HIDE DEF x
<1>8. PICK ino2 : Sets(ino, ino2, n, x)
  BY SetsExists
<1>9. n \notin Files
  BY <1>4, Kinds
<1>10. /\ Data(use, ino2, cnt, kids)' /\ ImageShape(image')
       /\ InodeOf(n)' = x
       /\ \A m \in Nodes : m # n => InodeOf(m)' = image.inode[where[m]]
  BY <1>0, <1>2, <1>4, <1>5, <1>6, <1>7, <1>8, <1>9, InodeIsPut
<1>11. Nodes' = Nodes /\ Dirs' = Dirs /\ Packed' = Packed /\ Files' = Files
       /\ \A m : Children(m)' = Children(m)
  BY <1>2, SameTree DEF Nodes
<1>12. /\ ino2[n] = x
       /\ \A m \in Nodes : m # n => Same(m, ino, cnt, kids, ino2, cnt, kids)
  BY <1>0, <1>8 DEF Sets, Same, Data, Inodes
<1>13. StackOK(stack') /\ Len(stack') = L - 1 /\ \A i \in 1 .. L - 1 : stack'[i] = stack[i]
  BY <1>0, <1>1, <1>2, Popped DEF Frames
<1>14. \A i \in 1 .. L : i \in 1 .. L - 1 \/ i = L
  BY <1>3
<1>15. \A i \in 1 .. L - 1 : i \in 1 .. L /\ i # L /\ i < L
  BY <1>3
<1>16. Open = Open' \cup {n} /\ n \notin Open'
  <2>1. Open = {stack[i].dir : i \in 1 .. L}
    BY <1>1, <1>2 DEF Open
  <2>2. Open' = {stack[i].dir : i \in 1 .. L - 1}
    BY <1>2, <1>13 DEF Open
  <2>3. stack[L].dir = n
    BY <1>1 DEF Top
  <2> QED
    BY <1>3, <1>14, <1>15, <2>1, <2>2, <2>3
<1>17. \A i \in 1 .. L - 1 : Busy(i)' = Busy(i)
  <2> SUFFICES ASSUME NEW i \in 1 .. L - 1 PROVE Busy(i)' = Busy(i)
    OBVIOUS
  <2>1. {m \in Nodes' : where'[m] = item'.block} = {n}
    BY <1>0, <1>2, <1>4, <1>11 DEF Data, Owned
  <2>2. Busy(i) = {stack[i + 1].dir}
    BY <1>1, <1>15 DEF Busy
  <2>3. CASE i < L - 1
    <3>1. i + 1 \in 1 .. L - 1
      BY <1>3, <2>3
    <3> QED
      BY <1>13, <2>2, <2>3, <3>1 DEF Busy
  <2>4. CASE ~(i < L - 1)
    <3>1. i + 1 = L
      BY <1>3, <2>4
    <3> QED
      BY <1>1, <1>2, <1>13, <2>1, <2>2, <2>4, <3>1 DEF Busy, Top
  <2> QED
    BY <2>3, <2>4
<1>18. ASSUME NEW i \in 1 .. L - 1
       PROVE  FrameOK(stack[i], Busy(i), ino2, cnt, kids)'
  <2>1. PICK f, busy : f = stack[i] /\ busy = Busy(i)
    OBVIOUS
  <2>2. FrameOK(f, busy, ino, cnt, kids)
    BY <1>0, <1>1, <1>15, <2>1 DEF Frames
  <2>3. f.dir \in Nodes /\ f.dir # n /\ f.todo \cap Nodes' = {}
    BY <1>3, <1>11, <1>15, <2>1, <2>2 DEF FrameOK
  <2>4. FrameOK(f, busy, ino2, cnt, kids)'
    BY <1>2, <1>11, <1>12, <2>2, <2>3, FrameKept
  <2>5. busy = Busy(i)' /\ f = stack'[i]
    BY <1>13, <1>17, <2>1
  <2> QED
    BY <2>4, <2>5 DEF FrameOK
<1>19. Frames(ino2, cnt, kids)'
  <2>1. stack'[1].dir = Root
    BY <1>0, <1>2, <1>3, <1>13 DEF Frames
  <2>2. \A i, j \in 1 .. L - 1 : stack'[i].dir = stack'[j].dir => i = j
    BY <1>0, <1>1, <1>13, <1>15 DEF Frames
  <2> QED
    BY <1>13, <1>18, <2>1, <2>2 DEF Frames
<1>20. Copying(ino2, cnt)' /\ Written(ino2, cnt)'
  BY <1>2, <1>4, <1>5, <1>11 DEF Copying, Written
<1>21. Stored(ino2, cnt, kids)'
  <2>1. ASSUME NEW m \in Nodes \ Open
        PROVE  InodeOf(m)' = ino2[m] /\ Same(m, ino, cnt, kids, ino2, cnt, kids)
    BY <1>0, <1>10, <1>12, <1>16, <2>1 DEF Stored, InodeOf, Same
  <2> QED
    BY <1>0, <1>2, <1>4, <1>7, <1>9, <1>10, <1>11, <1>12, <1>16, <2>1 DEF Stored, Same
<1>22. Shape'
  BY <1>2, <1>10, <1>11 DEF Shape, Free
<1> QED
  BY <1>10, <1>19, <1>20, <1>21, <1>22 DEF BuildInv, Control

LEMMA WriteKeeps ==
  ASSUME OneLongNode, Shape, NEW use, NEW ino, NEW cnt, NEW kids, BuildInv(use, ino, cnt, kids), WriteImage
  PROVE  Shape' /\ BuildInv(use, ino, cnt, kids)'
<1>0. /\ Control(ino, cnt, kids) /\ Data(use, ino, cnt, kids)
      /\ Frames(ino, cnt, kids) /\ Stored(ino, cnt, kids)
  BY DEF BuildInv, Control
<1>1. PICK im : im = [image EXCEPT !.super = [blocks |-> BlockNum, unusedBlocks |-> freenum,
                                              freemapBlocks |-> FreemapNum],
                                   !.inode[0].type = BlockNum,
                                   !.freemap = [i \in 0 .. BlockNum \div 8 - 1 |-> MapByte(i)]]
  OBVIOUS
<1>2. /\ pc = "walk" /\ Len(stack) = 1 /\ Top.todo = {} /\ pc' = "done"
      /\ image' = PutInode(im, FreemapNum + 1, Closed(Top))
      /\ UNCHANGED <<tree, freemap, freenum, stack, file, item, where>>
  BY <1>1 DEF WriteImage
<1>3. /\ FrameOK(Top, Busy(1), ino, cnt, kids) /\ Top = stack[1] /\ Top.dir = Root
  BY <1>0, <1>2, TopFacts DEF Frames, Top
<1>4. /\ Root \in Nodes \cap Dirs /\ where[Root] = FreemapNum + 1
      /\ Top.inode = ino[Root] /\ Top.emptyIndex = cnt[Root]
  BY <1>3 DEF FrameOK, Shape
<1> DEFINE x == [ino[Root] EXCEPT !.blocks = cnt[Root]]
<1>5. InodeShape(ino[Root]) /\ ImageShape(image)
  BY <1>0, <1>4 DEF Data, Inodes, Shape
<1>6. image' = PutInode(im, where[Root], x)
  BY <1>2, <1>4 DEF Closed
<1>7. /\ InodeShape(x) /\ x.blocks = cnt[Root] /\ x.filename = ino[Root].filename /\ x.type = ino[Root].type
      /\ x.size = ino[Root].size /\ x.direct = ino[Root].direct /\ x.indirect = ino[Root].indirect
  BY <1>5, ClosedIs
<1> HIDE DEF x
<1>8. /\ ImageShape(im) /\ im.super.unusedBlocks = freenum
      /\ \A i \in 0 .. BlockNum \div 8 - 1 : im.freemap[i] = MapByte(i)
      /\ \A c \in Block : /\ im.inode[c].indirect = image.inode[c].indirect
                          /\ im.items[c] = image.items[c] /\ im.data[c] = image.data[c]
      /\ \A c \in Block : c # 0 => im.inode[c] = image.inode[c]
  <2> DEFINE map == [i \in 0 .. BlockNum \div 8 - 1 |-> MapByte(i)]
             sup == [blocks |-> BlockNum, unusedBlocks |-> freenum, freemapBlocks |-> FreemapNum]
             first == [image.inode[0] EXCEPT !.type = BlockNum]
  <2>1. sup.unusedBlocks = freenum /\ \A i \in 0 .. BlockNum \div 8 - 1 : map[i] = MapByte(i)
    OBVIOUS
  <2>2. 0 \in Block
    BY Constants DEF Block
  <2>3. InodeShape(first) /\ first.indirect = image.inode[0].indirect
    BY <1>5, <2>2 DEF ImageShape, InodeShape
  <2> HIDE DEF map, sup, first
  <2>4. /\ DOMAIN im = {"super", "freemap", "inode", "items", "data"}
        /\ im.super = sup /\ im.freemap = map /\ im.items = image.items /\ im.data = image.data
        /\ im.inode = [image.inode EXCEPT ![0] = first]
    BY <1>1, <1>5 DEF ImageShape, map, sup, first
  <2> QED
    BY <1>5, <2>1, <2>2, <2>3, <2>4 DEF ImageShape
<1>9. Root \notin Files
  BY <1>4, Kinds
<1>10. /\ Data(use, ino, cnt, kids)' /\ ImageShape(image')
       /\ InodeOf(Root)' = x
       /\ \A m \in Nodes : m # Root => InodeOf(m)' = im.inode[where[m]]
  <2>1. \A c \in Block : im.inode[c].indirect = image.inode[c].indirect
                            /\ im.items[c] = image.items[c] /\ im.data[c] = image.data[c]
    BY <1>8
  <2>2. Root \in Nodes /\ ImageShape(im) /\ UNCHANGED <<tree, freemap, where>>
    BY <1>2, <1>4, <1>8
  <2>3. Root \in Files => x.blocks = ino[Root].blocks
    BY <1>9
  <2> QED
    BY SMTT(30), <1>0, <1>6, <1>7, <2>1, <2>2, <2>3, InodeIsPut
<1>11. image'.super = im.super /\ image'.freemap = im.freemap
  <2>1. where[Root] \in Block
    BY <1>0, <1>4 DEF Data, Owned
  <2> QED
    BY <1>6, <1>7, <1>8, <2>1, PutInodeWrites
<1>12. Nodes' = Nodes /\ Dirs' = Dirs /\ Packed' = Packed /\ Files' = Files
       /\ \A m : Children(m)' = Children(m)
  BY <1>2, SameTree DEF Nodes
<1>13. Open' = Open /\ Root \in Open
  BY <1>0, <1>2, <1>3, TopFacts DEF Open
<1>14. Frames(ino, cnt, kids)'
  <2>1. \A i \in 1 .. Len(stack) : Busy(i)' = Busy(i)
    BY <1>2 DEF Busy
  <2> QED
    BY <1>0, <1>2, <1>12, <2>1 DEF Frames, FrameOK
<1>15. Copying(ino, cnt)'
  BY <1>2 DEF Copying
<1>16. Written(ino, cnt)'
  <2>1. \A i : MapByte(i)' = MapByte(i)
    BY <1>2 DEF MapByte
  <2> QED
    BY <1>2, <1>3, <1>8, <1>10, <1>11, <2>1 DEF Written, x
<1>17. Stored(ino, cnt, kids)'
  <2>1. ASSUME NEW m \in Nodes \ Open
        PROVE  InodeOf(m)' = InodeOf(m)
    <3>1. where[m] \in Block /\ where[m] # 0 /\ m # Root
      BY <1>0, <1>13, <2>1 DEF Data, Owned
    <3> QED
      BY <1>8, <1>10, <3>1 DEF InodeOf
  <2>2. \A m \in (Nodes \ Open)' : /\ m \in Nodes \ Open
                                    /\ Same(m, ino, cnt, kids, ino, cnt, kids)
                                    /\ InodeOf(m)' = InodeOf(m)
    BY <1>12, <1>13, <2>1 DEF Same
  <2> QED
    BY <1>0, <1>2, <2>2, StoredKept
<1>18. Shape'
  BY <1>2, <1>10, <1>12 DEF Shape, Free
<1> QED
  BY <1>10, <1>14, <1>15, <1>16, <1>17, <1>18 DEF BuildInv, Control

\* The innermost call with another inode and number of items.
Counted(y, k) == [stack EXCEPT ![Len(stack)].inode = y, ![Len(stack)].emptyIndex = k]

\* What adding an entry does to the blocks.
Entered(use, ino, cnt, kids, n, use2, ino2, cnt2, kids2, y, m) ==
  /\ Data(use2, ino2, cnt2, kids2)'
  /\ m \in Nodes /\ item.block = where[m]
  /\ Sets(ino, ino2, n, y) /\ Sets(cnt, cnt2, n, cnt[n] + 1)
  /\ Sets(kids, kids2, n, kids[n] \cup {m})
  /\ stack' = Counted(y, cnt[n] + 1)
  /\ \A c \in Block : use[c] \notin {Nil, <<"items", n, 0>>} => image'.inode[c] = image.inode[c]

LEMMA EntryIsAdded ==
  ASSUME OneLongNode, Shape, NEW use, NEW ino, NEW cnt, NEW kids, BuildInv(use, ino, cnt, kids),
         AddItem, NEW n, n = Top.dir
  PROVE  /\ Shape'
         /\ \E use2, ino2, cnt2, kids2, y, m :
              Entered(use, ino, cnt, kids, n, use2, ino2, cnt2, kids2, y, m)
<1> DEFINE k == cnt[n]
           x == ino[n]
<1>0. /\ Control(ino, cnt, kids) /\ Data(use, ino, cnt, kids) /\ Copying(ino, cnt)
      /\ Owned(use, ino, cnt) /\ Inodes(ino, cnt, kids) /\ Frames(ino, cnt, kids)
  BY DEF BuildInv, Control, Data
<1>1. PICK b2, it : b2 = FreeBlock(AddDemand) /\ it = item
  OBVIOUS
<1> DEFINE y == WithItem(x, k, it, b2)
<1>2. /\ pc = "add" /\ pc' = "walk" /\ Enough(AddDemand) /\ TakeBlocks(AddDemand)
      /\ image' = StoreItem(image, WithItem(Top.inode, Top.emptyIndex, it, b2), Top.emptyIndex, it)
      /\ stack' = [stack EXCEPT ![Len(stack)].inode = WithItem(Top.inode, Top.emptyIndex, it, b2),
                                ![Len(stack)].emptyIndex = Top.emptyIndex + 1]
      /\ UNCHANGED <<tree, file, where>>
  BY <1>1 DEF AddItem
<1>3. /\ Len(stack) \in 1 .. Len(stack) /\ FrameOK(Top, Busy(Len(stack)), ino, cnt, kids)
      /\ Len(stack) \in Nat
  BY <1>0, TopFacts
<1>4. /\ n \in Nodes /\ n \in Dirs /\ Top.inode = x /\ Top.emptyIndex = k
  BY <1>3 DEF FrameOK
<1>5. PICK m \in Nodes : item = [filename |-> tree[m].name, block |-> where[m]]
  BY <1>0, <1>2 DEF Copying
<1>6. it.filename = tree[m].name /\ it.block = where[m] /\ where[m] \in Block
  BY <1>0, <1>1, <1>5 DEF Owned
<1>7. Busy(Len(stack)) = {m}
  BY <1>0, <1>1, <1>2, <1>3, <1>5, <1>6 DEF Busy, Owned
<1>8. m \in EntriesOf(tree, n) /\ m \notin kids[n]
  BY <1>3, <1>7 DEF FrameOK
<1>9. /\ image' = StoreItem(image, y, k, it)
      /\ stack' = [stack EXCEPT ![Len(stack)].inode = y, ![Len(stack)].emptyIndex = k + 1]
      /\ AddDemand = IF NeedsIndirect(x, k) THEN 1 ELSE 0
  BY <1>2, <1>4 DEF AddDemand
<1>10. /\ InodeShape(x) /\ k \in Nat
       /\ k > NDirect => x.indirect \in Block /\ use[x.indirect] = <<"items", n, 0>>
  BY <1>0, <1>4 DEF Inodes, Owned
<1>11. n \notin Files
  BY <1>4, Kinds
<1> DEFINE added == kids[n] \cup {m}
<1>12. ItemFor(kids, n, cnt[n], it, b2, added)
  BY <1>5, <1>6, <1>8, <1>11 DEF ItemFor
<1>13. k < NDirect + ItemsPerBlock /\ (NeedsIndirect(x, k) <=> k = NDirect)
  BY <1>0, <1>4, <1>12, LongNeeds
<1> HIDE DEF k, x, added
<1>14. /\ k = NDirect => b2 \in Block /\ freemap[b2] = 0
       /\ \A c \in Block : freemap'[c] = IF k = NDirect /\ c = b2 THEN 1 ELSE freemap[c]
       /\ freemap' \in [Block -> 0 .. 1] /\ freenum' = Cardinality(Free')
  <2>1. CASE k = NDirect
    BY <1>1, <1>2, <1>9, <1>13, <2>1, TakeOne
  <2>2. CASE k # NDirect
    <3>1. freemap' = freemap /\ freenum' = freenum
      BY <1>2, <1>9, <1>13, <2>2, TakeNone
    <3> QED
      BY <2>2, <3>1 DEF Shape, Free
  <2> QED
    BY <2>1, <2>2
<1>15. PICK use2 : Uses(use, n, k, x, b2, b2, use2)
  BY UseTaken
<1>16. Takes(use, n, k, x, b2, b2, use2)
  BY <1>11, <1>13, <1>14, <1>15 DEF Takes
<1>17. y.indirect = IF k = NDirect THEN b2 ELSE x.indirect
  BY <1>10, <1>13, WithItemIs
<1> HIDE DEF y
<1>18. /\ k >= NDirect => y.indirect \in Block
       /\ k >= NDirect => use[y.indirect] \in {Nil, <<"items", n, 0>>}
  <2>1. k = NDirect => use[b2] = Nil
    BY <1>0, <1>14 DEF Owned
  <2>2. k >= NDirect => k = NDirect \/ k > NDirect
    BY <1>10, Constants
  <2>3. k > NDirect => k # NDirect
    BY <1>10, Constants
  <2> QED
    BY <1>10, <1>14, <1>17, <2>1, <2>2, <2>3
<1>19. /\ ImageShape(image')
       /\ k >= NDirect =>
            /\ image'.inode[y.indirect] = StaleInode
            /\ image'.items[y.indirect] = [image.items[y.indirect] EXCEPT ![k - NDirect] = it]
       /\ \A c \in Block : ~(k >= NDirect /\ c = y.indirect) =>
            image'.inode[c] = image.inode[c] /\ image'.items[c] = image.items[c]
              /\ image'.data[c] = image.data[c]
  <2>1. PICK im : im = image
    OBVIOUS
  <2>2. ImageShape(im) /\ it.block \in Block /\ image' = StoreItem(im, y, k, it)
    BY <1>6, <1>9, <2>1 DEF Shape
  <2>3. /\ ImageShape(image')
        /\ k >= NDirect =>
             /\ image'.inode[y.indirect] = StaleInode
             /\ image'.items[y.indirect] = [im.items[y.indirect] EXCEPT ![k - NDirect] = it]
        /\ \A c \in Block : ~(k >= NDirect /\ c = y.indirect) =>
             image'.inode[c] = im.inode[c] /\ image'.items[c] = im.items[c] /\ image'.data[c] = im.data[c]
    BY <1>10, <1>13, <1>18, <2>2, StoreItemWrites
  <2> QED
    BY <2>1, <2>3
<1>20. Writes(n, k, y, it, b2)
  <2>1. \A c : c \in Touched(n, k, y, b2) <=> (k >= NDirect /\ c = y.indirect)
    BY <1>11 DEF Touched
  <2> QED
    BY <1>11, <1>19, <2>1, StaleShape DEF Writes
<1>21. PICK ino2 : Sets(ino, ino2, n, y)
  BY SetsExists
<1>22. PICK cnt2 : Sets(cnt, cnt2, n, cnt[n] + 1)
  BY SetsExists
<1>23. PICK kids2 : Sets(kids, kids2, n, added)
  BY SetsExists
<1>24. Adding(use, ino, cnt, kids, n, it, b2, b2, added, y, use2, ino2)
  BY <1>0, <1>4, <1>12, <1>16, <1>20, <1>21 DEF Adding, k, x, y
<1>25. Data(use2, ino2, cnt2, kids2)'
  BY <1>0, <1>2, <1>22, <1>23, <1>24, ItemIsAdded
<1>26. \A c \in Block : use[c] \notin {Nil, <<"items", n, 0>>} => image'.inode[c] = image.inode[c]
  BY <1>18, <1>19
<1>27. Shape'
  BY <1>2, <1>14, <1>19, SameTree DEF Shape, Nodes
<1>28. m \in Nodes /\ item.block = where[m]
  BY <1>1, <1>6
<1>29. stack' = Counted(y, cnt[n] + 1)
  BY <1>9 DEF k, Counted
<1> QED
  BY <1>21, <1>22, <1>23, <1>25, <1>26, <1>27, <1>28, <1>29 DEF added, Entered

LEMMA AddKeeps ==
  ASSUME OneLongNode, Shape, NEW use, NEW ino, NEW cnt, NEW kids, BuildInv(use, ino, cnt, kids), AddItem
  PROVE  Shape' /\ \E use2, ino2, cnt2, kids2 : BuildInv(use2, ino2, cnt2, kids2)'
<1>0. /\ Control(ino, cnt, kids) /\ Data(use, ino, cnt, kids)
      /\ Frames(ino, cnt, kids) /\ Stored(ino, cnt, kids)
  BY DEF BuildInv, Control
<1>1. PICK n, L : n = Top.dir /\ L = Len(stack)
  OBVIOUS
<1>2. PICK use2, ino2, cnt2, kids2, y, m :
        Entered(use, ino, cnt, kids, n, use2, ino2, cnt2, kids2, y, m)
  BY <1>1, EntryIsAdded
<1> USE DEF Entered
<1>3. pc = "add" /\ pc' = "walk" /\ UNCHANGED <<tree, file, where>>
  BY DEF AddItem
<1>4. /\ L \in Nat /\ L \in 1 .. L /\ 1 \in 1 .. L
      /\ FrameOK(Top, Busy(L), ino, cnt, kids)
      /\ n \in Open /\ \A i \in 1 .. L : i # L => stack[i].dir # n
  BY <1>0, <1>1, TopFacts
<1>5. n \in Nodes /\ n \in Dirs
  BY <1>1, <1>4 DEF FrameOK
<1>6. Busy(L) = {m}
  BY <1>0, <1>1, <1>2, <1>3, <1>4 DEF Busy, Data, Owned
<1>7. /\ ino2[n] = y /\ cnt2[n] = cnt[n] + 1 /\ kids2[n] = kids[n] \cup {m}
      /\ \A q \in Nodes : q # n => Same(q, ino, cnt, kids, ino2, cnt2, kids2)
  BY <1>0, <1>2 DEF Sets, Same, Data, Inodes
<1>8. Nodes' = Nodes /\ Dirs' = Dirs /\ Packed' = Packed /\ Files' = Files
      /\ \A q : Children(q)' = Children(q)
  BY <1>3, SameTree DEF Nodes
<1> DEFINE g == [Top EXCEPT !.inode = y, !.emptyIndex = cnt[n] + 1]
<1>9. /\ DOMAIN g = DOMAIN Top /\ g.dir = n /\ g.num = Top.num /\ g.inode = y
      /\ g.emptyIndex = cnt[n] + 1 /\ g.todo = Top.todo
  BY <1>1, <1>4 DEF FrameOK
<1>10. stack' = [stack EXCEPT ![Len(stack)] = g]
  BY <1>2 DEF Top, Counted
<1> HIDE DEF g
<1>11. /\ StackOK(stack') /\ Len(stack') = L
       /\ \A i \in 1 .. L : stack'[i] = IF i = L THEN g ELSE stack[i]
  <2>1. StackOK(stack)
    BY <1>0 DEF Frames
  <2> DEFINE q == [stack EXCEPT ![Len(stack)] = g]
  <2>2. /\ StackOK(q) /\ Len(q) = Len(stack)
        /\ \A i \in 1 .. Len(stack) : q[i] = IF i = Len(stack) THEN g ELSE stack[i]
    BY <2>1, PutLast
  <2> QED
    BY <1>1, <1>10, <2>2
<1>12. \A i \in 1 .. L : stack'[i].dir = stack[i].dir
  BY <1>1, <1>4, <1>9, <1>11 DEF Top
<1>13. Open' = Open
  BY <1>1, <1>3, <1>11, <1>12 DEF Open
<1>14. ASSUME NEW i \in 1 .. L, i # L
       PROVE  FrameOK(stack[i], Busy(i), ino2, cnt2, kids2)'
  <2>1. PICK f, busy : f = stack[i] /\ busy = Busy(i)
    OBVIOUS
  <2>2. FrameOK(f, busy, ino, cnt, kids)
    BY <1>0, <1>1, <2>1 DEF Frames
  <2>3. f.dir \in Nodes /\ f.dir # n /\ f.todo \cap Nodes' = {}
    BY <1>4, <1>8, <1>14, <2>1, <2>2 DEF FrameOK
  <2>4. FrameOK(f, busy, ino2, cnt2, kids2)'
    BY <1>3, <1>7, <1>8, <2>2, <2>3, FrameKept
  <2>5. i + 1 \in 1 .. L /\ i < L
    BY <1>4, <1>14
  <2>6. busy = Busy(i)' /\ f = stack'[i]
    BY <1>1, <1>11, <1>12, <1>14, <2>1, <2>5 DEF Busy
  <2> QED
    BY <2>4, <2>6 DEF FrameOK
<1>15. FrameOK(stack[L], Busy(L), ino2, cnt2, kids2)'
  <2>1. stack'[L] = g /\ Busy(L)' = {}
    <3>1. stack'[L] = g /\ ~(L < L)
      BY <1>4, <1>11
    <3> QED
      BY <1>3, <1>11, <3>1 DEF Busy
  <2>2. EntriesOf(tree, n) = (g.todo \cap Packed) \cup kids2[n] \cup {}
    BY <1>1, <1>4, <1>6, <1>7, <1>9 DEF FrameOK
  <2> QED
    BY <1>1, <1>3, <1>4, <1>5, <1>7, <1>8, <1>9, <2>1, <2>2 DEF FrameOK
<1>16. Frames(ino2, cnt2, kids2)'
  <2>1. stack'[1].dir = Root
    BY <1>0, <1>4, <1>12 DEF Frames
  <2>2. \A i, j \in 1 .. L : stack'[i].dir = stack'[j].dir => i = j
    BY <1>0, <1>1, <1>12 DEF Frames
  <2>3. \A i \in 1 .. L : FrameOK(stack[i], Busy(i), ino2, cnt2, kids2)'
    BY <1>14, <1>15
  <2> QED
    BY <1>11, <2>1, <2>2, <2>3 DEF Frames
<1>17. Copying(ino2, cnt2)' /\ Written(ino2, cnt2)'
  BY <1>3 DEF Copying, Written
<1>18. Stored(ino2, cnt2, kids2)'
  <2>1. ASSUME NEW q \in Nodes \ Open PROVE InodeOf(q)' = InodeOf(q)
    <3>1. where[q] \in Block /\ use[where[q]] \notin {Nil, <<"items", n, 0>>}
      BY <1>0 DEF Data, Owned, Nil
    <3> QED
      BY <1>2, <1>3, <3>1 DEF InodeOf
  <2>2. \A q \in (Nodes \ Open)' : /\ q \in Nodes \ Open
                                    /\ Same(q, ino, cnt, kids, ino2, cnt2, kids2)
                                    /\ InodeOf(q)' = InodeOf(q)
    BY <1>4, <1>7, <1>8, <1>13, <2>1
  <2> QED
    BY <1>0, <1>3, <2>2, StoredKept
<1>19. Shape'
  BY <1>1, EntryIsAdded
<1> QED
  BY <1>2, <1>16, <1>17, <1>18, <1>19 DEF BuildInv, Control
-----------------------------------------------------------------------------
(* The invariant.                                                          *)

LEMMA InitShape ==
  ASSUME Init
  PROVE  Shape /\ Nodes = {Root}
<1>1. /\ tree \in Trees /\ image = EmptyImage /\ pc = "walk"
      /\ freemap = [b \in Block |-> IF b <= FreemapNum + 1 THEN 1 ELSE 0]
      /\ freenum = BlockNum - (FreemapNum + 2)
      /\ Nodes = {Root} /\ where[Root] = FreemapNum + 1
  BY DEF Init, Nodes
<1>2. freemap \in [Block -> 0 .. 1]
  BY <1>1
<1>3. freenum = Cardinality(Free)
  <2> DEFINE a == FreemapNum + 2
             z == BlockNum - 1
  <2>1. Free = a .. z
    BY <1>1, Constants DEF Free, Block
  <2>2. a \in Int /\ z \in Int /\ z >= a - 1
    BY Constants
  <2> HIDE DEF a, z
  <2>3. Cardinality(a .. z) = IF a > z THEN 0 ELSE z - a + 1
    BY <2>2, FS_Interval
  <2>4. Cardinality(Free) = z - a + 1
    BY <2>1, <2>2, <2>3
  <2> QED
    BY <1>1, <2>4, Constants DEF a, z
<1>4. ImageShape(image)
  <2>1. InodeShape(ZeroInode)
    BY DEF ZeroInode, StaleInode, InodeShape
  <2>2. NoItem.block \in Block
    BY Constants DEF NoItem, Block
  <2> QED
    BY <1>1, <2>1, <2>2 DEF EmptyImage, ImageShape, Slot
<1>5. Root \in Packed
  BY <1>1, TreeAssumption DEF Packed, Dirs
<1> QED
  BY <1>1, <1>2, <1>3, <1>4, <1>5 DEF Shape

LEMMA InitHolds ==
  ASSUME OneLongNode, Init
  PROVE  Shape /\ \E use, ino, cnt, kids : BuildInv(use, ino, cnt, kids)
<1> DEFINE b == FreemapNum + 1
<1>1. Shape /\ Nodes = {Root}
  BY InitShape
<1>2. /\ freemap = [c \in Block |-> IF c <= b THEN 1 ELSE 0]
      /\ where[Root] = b /\ pc = "walk" /\ image = EmptyImage
  BY DEF Init
<1>3. Root \in Dirs /\ tree[Root].name = "/" /\ Root \in Packed
  BY <1>1, TreeFacts, Kinds
<1>4. PICK g \in Uninit : stack = <<Walk(Root, b, b, g)>>
  BY DEF Init
<1>5. g \in Leftover
  BY <1>4 DEF Leftover
<1> DEFINE w == Walk(Root, b, b, g)
           x == w.inode
<1>6. /\ DOMAIN w = {"dir", "num", "emptyIndex", "todo", "inode"}
      /\ w.dir = Root /\ w.num = b /\ w.emptyIndex = 2 /\ w.todo = Children(Root)
      /\ NewInodeOK(Root, x, 2) /\ x.indirect = g
  BY <1>3, <1>5, NewDirInode
<1> HIDE DEF w
<1>7. stack = <<w>>
  BY <1>4 DEF w
<1>8. /\ InodeShape(x) /\ x.filename = tree[Root].name /\ x.type = TYPE_DIR
      /\ x.direct[0].filename = "." /\ x.direct[1].filename = ".."
  BY <1>3, <1>6 DEF NewInodeOK
<1> HIDE DEF x
<1>9. PICK u : /\ DOMAIN u = Block
               /\ \A c \in Block : u[c] = IF c = 0 THEN <<"super", Root, 0>>
                                          ELSE IF c <= FreemapNum THEN <<"map", Root, c>>
                                          ELSE IF c = b THEN <<"inode", Root, 0>> ELSE Nil
  <2> DEFINE f == [c \in Block |-> IF c = 0 THEN <<"super", Root, 0>>
                                   ELSE IF c <= FreemapNum THEN <<"map", Root, c>>
                                   ELSE IF c = b THEN <<"inode", Root, 0>> ELSE Nil]
  <2>1. /\ DOMAIN f = Block
        /\ \A c \in Block : f[c] = IF c = 0 THEN <<"super", Root, 0>>
                                   ELSE IF c <= FreemapNum THEN <<"map", Root, c>>
                                   ELSE IF c = b THEN <<"inode", Root, 0>> ELSE Nil
    OBVIOUS
  <2> QED
    BY <2>1
<1> DEFINE ino == [n \in {Root} |-> x]
           cnt == [n \in {Root} |-> 2]
           kids == [n \in {Root} |-> {}]
<1>10. /\ DOMAIN ino = {Root} /\ ino[Root] = x /\ DOMAIN cnt = {Root} /\ cnt[Root] = 2
       /\ DOMAIN kids = {Root} /\ kids[Root] = {}
  OBVIOUS
<1> HIDE DEF ino, cnt, kids
<1>11. Root \notin Files
  BY <1>3, Kinds
<1>12. Block \subseteq Nat /\ b \in Block /\ 0 \in Block /\ 1 .. FreemapNum \subseteq Block
       /\ \A c \in Block : c <= b <=> c = 0 \/ c \in 1 .. FreemapNum \/ c = b
  BY Constants DEF Block
<1>13. Owned(u, ino, cnt)
  <2>1. \A c \in Block : freemap[c] = 0 <=> u[c] = Nil
    <3> SUFFICES ASSUME NEW c \in Block PROVE freemap[c] = 0 <=> u[c] = Nil
      OBVIOUS
    <3>1. freemap[c] = 0 <=> ~(c <= b)
      BY <1>2
    <3>2. c <= b <=> c = 0 \/ c <= FreemapNum \/ c = b
      BY <1>12, Constants
    <3>3. u[c] = Nil <=> ~(c = 0 \/ c <= FreemapNum \/ c = b)
      BY <1>9 DEF Nil
    <3> QED
      BY <3>1, <3>2, <3>3
  <2>2. u[0] = <<"super", Root, 0>> /\ \A c \in 1 .. FreemapNum : u[c] = <<"map", Root, c>>
    BY <1>9, <1>12, Constants
  <2>3. u[b] = <<"inode", Root, 0>> /\ ~(2 > NDirect)
    BY <1>9, <1>12, Constants
  <2> QED
    BY <1>1, <1>2, <1>9, <1>10, <1>11, <1>12, <2>1, <2>2, <2>3 DEF Owned
<1>14. Accounted(u, ino, cnt)
  BY <1>1, <1>2, <1>9, <1>12, Constants DEF Accounted
<1>15. Zeroed(ino) /\ (Root \in Long(tree) => g = 0)
  <2>1. Long(tree) # {} => g = 0
    BY <1>1, <1>4 DEF OneLongNode, Shape
  <2>2. \A c \in Block : image.inode[c].indirect = 0
    BY <1>2 DEF EmptyImage, ZeroInode, StaleInode
  <2> QED
    BY <1>1, <1>6, <1>10, <2>1, <2>2 DEF Zeroed
<1>16. Inodes(ino, cnt, kids)
  <2>1. DirSoFar(Root, ino[Root], cnt[Root], kids[Root])
    <3>1. Cardinality({}) = 0
      BY FS_EmptySet
    <3>2. Item(x, 0) = x.direct[0] /\ Item(x, 1) = x.direct[1]
      BY Constants DEF Item
    <3> QED
      BY <1>8, <1>10, <3>1, <3>2 DEF DirSoFar
  <2> QED
    BY <1>1, <1>6, <1>8, <1>10, <1>11, <1>15, <2>1, Constants DEF Inodes
<1>17. Bytes(ino, cnt)
  BY <1>1, <1>11 DEF Bytes
<1>18. Frames(ino, cnt, kids)
  <2>1. StackOK(stack) /\ Len(stack) = 1 /\ stack[1] = w
    <3>1. <<w>> \in Seq({w}) /\ Len(<<w>>) = 1 /\ <<w>>[1] = w /\ <<w>> # <<>>
      OBVIOUS
    <3> QED
      BY <1>7, <3>1 DEF StackOK
  <2>2. Busy(1) = {}
    BY <1>2, <2>1 DEF Busy
  <2>3. Children(Root) \cap Nodes = {}
    BY <1>1 DEF Children
  <2>4. FrameOK(w, {}, ino, cnt, kids)
    BY <1>1, <1>2, <1>3, <1>6, <1>10, <2>3, EntriesAre DEF FrameOK, x
  <2> QED
    BY <1>6, <2>1, <2>2, <2>4 DEF Frames
<1>19. Copying(ino, cnt) /\ Written(ino, cnt)
  BY <1>2 DEF Copying, Written
<1>20. Stored(ino, cnt, kids)
  BY <1>1, <1>6, <1>7 DEF Stored, Open
<1> QED
  BY <1>1, <1>13, <1>14, <1>15, <1>16, <1>17, <1>18, <1>19, <1>20 DEF BuildInv, Data, Control

\* Nothing but pc changes: the build is over, or has failed.
LEMMA ShapeKept ==
  ASSUME Shape, TypeOK, UNCHANGED <<tree, freemap, freenum, stack, where, image>>,
         pc' \in {"walk", "copy", "add", "done", "failed", "linked"}
  PROVE  Shape' /\ TypeOK'
<1>1. Nodes' = Nodes /\ Free' = Free /\ Packed' = Packed
  BY SameTree DEF Nodes, Free
<1>2. Shape'
  BY <1>1 DEF Shape
<1>3. TypeOK'
  BY <1>1 DEF TypeOK
<1> QED
  BY <1>2, <1>3

LEMMA BuildKept ==
  ASSUME NEW use, NEW ino, NEW cnt, NEW kids, BuildInv(use, ino, cnt, kids),
         UNCHANGED <<tree, freemap, freenum, stack, file, item, where, image>>,
         pc' = pc \/ (pc = "done" /\ pc' = "linked")
  PROVE  BuildInv(use, ino, cnt, kids)'
<1>0. Control(ino, cnt, kids) /\ Data(use, ino, cnt, kids)
  BY DEF BuildInv
<1>1. Data(use, ino, cnt, kids)'
  BY <1>0, DataKept
<1>2. Nodes' = Nodes /\ Dirs' = Dirs /\ Packed' = Packed /\ Files' = Files
      /\ \A m : Children(m)' = Children(m)
  BY SameTree DEF Nodes
<1>3. Open' = Open /\ \A i : Busy(i)' = Busy(i)
  BY <1>2 DEF Open, Busy
<1>4. Frames(ino, cnt, kids)'
  BY <1>0, <1>2, <1>3 DEF Control, Frames, FrameOK
<1>5. Copying(ino, cnt)'
  <2>1. \A n, i : LeftAfter(n, i)' = LeftAfter(n, i)
    BY DEF LeftAfter
  <2> QED
    BY <1>0, <1>2, <2>1 DEF Control, Copying
<1>6. Stored(ino, cnt, kids)'
  BY <1>0, <1>2, <1>3 DEF Control, Stored, InodeOf
<1>7. Written(ino, cnt)'
  BY <1>0 DEF Control, Written, InodeOf, MapByte
<1> QED
  BY <1>1, <1>4, <1>5, <1>6, <1>7 DEF BuildInv, Control

Held == Shape /\ \E use, ino, cnt, kids : BuildInv(use, ino, cnt, kids)

\* A step of mksfs that does not fail.
LEMMA BuildStep ==
  ASSUME OneLongNode, Held, Build, pc' # "failed"
  PROVE  Held'
<1>0. PICK use, ino, cnt, kids : BuildInv(use, ino, cnt, kids)
  BY DEF Held
<1>s. Shape
  BY DEF Held
<1>1. ASSUME NEW n, SkipEntry(n) PROVE Held'
  BY <1>0, <1>s, <1>1, SkipKeeps DEF Held
<1>2. ASSUME NEW n, EnterDir(n) PROVE Held'
  BY <1>0, <1>s, <1>2, EnterKeeps DEF Held
<1>3. ASSUME NEW n, StartFile(n) PROVE Held'
  BY <1>0, <1>s, <1>3, StartKeeps DEF Held
<1>4. CASE CopyBlock
  BY <1>0, <1>s, <1>4, CopyKeeps DEF Held
<1>5. CASE CloseFile
  BY <1>0, <1>s, <1>5, CloseKeeps DEF Held
<1>6. CASE AddItem
  BY <1>0, <1>s, <1>6, AddKeeps DEF Held
<1>7. CASE LeaveDir
  BY <1>0, <1>s, <1>7, LeaveKeeps DEF Held
<1>8. CASE WriteImage
  BY <1>0, <1>s, <1>8, WriteKeeps DEF Held
<1>9. ~OutOfBlocks
  BY DEF OutOfBlocks
<1> QED
  BY <1>1, <1>2, <1>3, <1>4, <1>5, <1>6, <1>7, <1>8, <1>9 DEF Build

LEMMA TypesFollowNext == Held' => TypeOK'
<1>1. Held => TypeOK
  BY TypesFollow DEF Held
<1> QED
  BY <1>1, PTL

LEMMA InitInv ==
  ASSUME OneLongNode
  PROVE  FTInit => IInv
<1>1. FTInit => Held
  BY InitHolds DEF FTInit, Held
<1>2. Held => TypeOK /\ IInv
  BY TypesFollow DEF Held, IInv
<1> QED
  BY <1>1, <1>2

LEMMA StepInv ==
  ASSUME OneLongNode
  PROVE  IInv /\ [FTNext]_allVars => IInv'
<1> SUFFICES ASSUME IInv, [FTNext]_allVars PROVE IInv'
  OBVIOUS
<1>1. Shape /\ TypeOK /\ (pc # "failed" => Held)
  BY DEF IInv, Held
<1>2. Held' => IInv'
  BY TypesFollowNext DEF IInv, Held
<1>3. CASE Build /\ pc' # "failed"
  <2>1. pc # "failed"
    BY <1>3 DEF Build, SkipEntry, EnterDir, StartFile, CopyBlock, CloseFile, AddItem, LeaveDir,
                WriteImage, OutOfBlocks, Readdir
  <2> QED
    BY <1>1, <1>2, <1>3, <2>1, BuildStep
<1>4. CASE Build /\ pc' = "failed"
  <2>1. UNCHANGED <<tree, freemap, freenum, stack, where, image>>
    BY <1>1, <1>4 DEF Build, SkipEntry, EnterDir, StartFile, CopyBlock, CloseFile, AddItem, LeaveDir,
                      WriteImage, OutOfBlocks, Readdir
  <2>2. Shape' /\ TypeOK'
    BY <1>1, <1>4, <2>1, ShapeKept
  <2> QED
    BY <1>4, <2>2 DEF IInv
<1>5. CASE UNCHANGED <<tree, freemap, freenum, stack, file, item, where, image>>
             /\ (pc' = pc \/ (pc = "done" /\ pc' = "linked"))
  <2>1. Shape' /\ TypeOK'
    BY <1>1, <1>5, ShapeKept DEF TypeOK
  <2>2. CASE pc' = "failed"
    BY <2>1, <2>2 DEF IInv
  <2>3. CASE pc' # "failed"
    <3>1. pc # "failed"
      BY <1>5, <2>3
    <3>2. PICK use, ino, cnt, kids : BuildInv(use, ino, cnt, kids)
      BY <1>1, <3>1 DEF Held
    <3>3. BuildInv(use, ino, cnt, kids)'
      BY <1>5, <3>2, BuildKept
    <3> QED
      BY <2>1, <3>3 DEF IInv
  <2> QED
    BY <2>2, <2>3
<1>6. CASE Boot
  BY <1>5, <1>6 DEF Boot
<1>7. CASE UNCHANGED vars
  BY <1>5, <1>7 DEF vars, buildVars
<1> QED
  BY <1>3, <1>4, <1>6, <1>7 DEF FTNext, Mkfs, Over, allVars

LEMMA InvHolds ==
  ASSUME OneLongNode
  PROVE  FTSpec => []IInv
<1>1. FTInit => IInv
  BY InitInv
<1>2. IInv /\ [FTNext]_allVars => IInv'
  BY StepInv
<1> QED
  BY <1>1, <1>2, PTL DEF FTSpec
-----------------------------------------------------------------------------
(* What has been written.                                                  *)

LEMMA Division ==
  ASSUME NEW j \in Nat, NEW c \in Nat, c >= 1
  PROVE  /\ j \div c \in Nat /\ j % c \in 0 .. c - 1
         /\ (j \div c) * c + (j % c) = j
<1>1. j \div c \in Nat
  BY Z3
<1>2. j % c \in 0 .. c - 1
  BY Z3
<1>3. (j \div c) * c + (j % c) = j
  BY Z3
<1> QED
  BY <1>1, <1>2, <1>3

\* When mksfs is done every node has its inode in the image, and every directory
\* its entries.
Complete(ino, cnt, kids) ==
  /\ Nodes = Packed
  /\ \A n \in Packed :
       /\ InodeOf(n).type = ino[n].type /\ InodeOf(n).size = ino[n].size
       /\ InodeOf(n).direct = ino[n].direct /\ InodeOf(n).indirect = ino[n].indirect
       /\ n \in Dirs  => InodeOf(n).blocks = cnt[n] /\ kids[n] = EntriesOf(tree, n)
       /\ n \in Files => InodeOf(n).blocks = ino[n].blocks /\ tree[n].size <= cnt[n] * BlockSize

LEMMA DoneIsComplete ==
  ASSUME OneLongNode, Shape, NEW use, NEW ino, NEW cnt, NEW kids,
         BuildInv(use, ino, cnt, kids), pc = "done"
  PROVE  Complete(ino, cnt, kids)
<1>0. Inodes(ino, cnt, kids) /\ Frames(ino, cnt, kids) /\ Stored(ino, cnt, kids) /\ Written(ino, cnt)
  BY DEF BuildInv, Data, Control
<1>1. /\ Len(stack) = 1 /\ stack[1].todo = {} /\ stack[1].dir = Root
      /\ InodeOf(Root) = [ino[Root] EXCEPT !.blocks = cnt[Root]]
  BY <1>0 DEF Written, Frames
<1>2. \A i : i \in 1 .. Len(stack) <=> i = 1
  BY <1>1
<1>3. Open = {Root}
  BY <1>1, <1>2 DEF Open
<1>4. kids[Root] = EntriesOf(tree, Root)
  <2>1. Busy(1) = {}
    BY <1>1 DEF Busy
  <2>2. FrameOK(stack[1], {}, ino, cnt, kids)
    BY <1>0, <1>2, <2>1 DEF Frames
  <2> QED
    BY <1>1, <2>2 DEF FrameOK
<1>5. Root \in Dirs /\ Root \notin Files
  BY TreeFacts, Kinds
<1>6. \A n \in Nodes :
       /\ InodeOf(n).type = ino[n].type /\ InodeOf(n).size = ino[n].size
       /\ InodeOf(n).direct = ino[n].direct /\ InodeOf(n).indirect = ino[n].indirect
       /\ n \in Dirs  => InodeOf(n).blocks = cnt[n] /\ kids[n] = EntriesOf(tree, n)
       /\ n \in Files => InodeOf(n).blocks = ino[n].blocks /\ tree[n].size <= cnt[n] * BlockSize
  <2> SUFFICES ASSUME NEW n \in Nodes
               PROVE
       /\ InodeOf(n).type = ino[n].type /\ InodeOf(n).size = ino[n].size
       /\ InodeOf(n).direct = ino[n].direct /\ InodeOf(n).indirect = ino[n].indirect
       /\ n \in Dirs  => InodeOf(n).blocks = cnt[n] /\ kids[n] = EntriesOf(tree, n)
       /\ n \in Files => InodeOf(n).blocks = ino[n].blocks /\ tree[n].size <= cnt[n] * BlockSize
    OBVIOUS
  <2>1. CASE n = Root
    <3>1. InodeShape(ino[n])
      BY <1>0 DEF Inodes
    <3> QED
      BY <1>1, <1>4, <1>5, <2>1, <3>1 DEF InodeShape
  <2>2. CASE n # Root
    BY <1>0, <1>3, <2>2 DEF Stored
  <2> QED
    BY <2>1, <2>2
<1>7. Packed \subseteq Nodes
  <2> DEFINE S == {n \in DOMAIN tree : n \in Packed => n \in Nodes}
  <2>1. Root \in S
    BY <1>5, Kinds DEF Shape, S
  <2>2. ASSUME NEW n \in DOMAIN tree \ {Root}, tree[n].parent \in S PROVE n \in S
    <3> SUFFICES ASSUME n \in Packed PROVE n \in Nodes
      BY DEF S
    <3> DEFINE d == tree[n].parent
    <3>1. d \in Dirs /\ d \in Nodes
      BY <2>2, TreeFacts, Kinds DEF S
    <3>2. n \in EntriesOf(tree, d)
      BY EntriesAre DEF Children
    <3>3. EntriesOf(tree, d) \subseteq Nodes
      BY <1>0, <1>6, <3>1 DEF Inodes, DirSoFar
    <3> QED
      BY <3>2, <3>3
  <2>3. S \in SUBSET DOMAIN tree
    BY DEF S
  <2> HIDE DEF S
  <2>4. S = DOMAIN tree
    BY <2>1, <2>2, <2>3, TreeFacts, TreeAssumption
  <2> QED
    BY <2>4, Kinds DEF S
<1> QED
  BY <1>6, <1>7 DEF Complete, Shape

\* What readall and ls find under number i.
LEMMA ItemsFound ==
  ASSUME OneLongNode, Shape, NEW use, NEW ino, NEW cnt, NEW kids,
         BuildInv(use, ino, cnt, kids), Complete(ino, cnt, kids),
         NEW n \in Packed, NEW i \in 0 .. cnt[n] - 1
  PROVE  ItemOf(InodeOf(n), i) = Item(ino[n], i)
<1>1. n \in Nodes /\ cnt[n] \in Nat /\ cnt[n] <= NDirect + ItemsPerBlock
  BY ItemsFit DEF Complete, BuildInv, Data
<1>2. InodeOf(n).direct = ino[n].direct /\ InodeOf(n).indirect = ino[n].indirect
  BY DEF Complete
<1>3. CASE i < NDirect
  BY <1>2, <1>3 DEF ItemOf, Item
<1>4. CASE ~(i < NDirect)
  <2>1. ino[n].indirect \in Block /\ Block \subseteq Int
    BY <1>1, <1>4, Constants DEF BuildInv, Data, Owned, Block
  <2>2. i - NDirect \in Nat /\ i - NDirect < ItemsPerBlock
    BY <1>1, <1>4, Constants
  <2>3. PICK k \in Nat : k = i - NDirect
    BY <2>2
  <2>4. k \div ItemsPerBlock = 0 /\ k % ItemsPerBlock = k
    BY <2>2, <2>3, Constants, Z3
  <2>5. PICK b \in Block : b = ino[n].indirect
    BY <2>1
  <2>6. b + k \div ItemsPerBlock = b
    BY <2>1, <2>4
  <2>7. ItemAt(b, k) = image.items[b][k]
    BY <2>4, <2>6 DEF ItemAt
  <2> QED
    BY <1>2, <1>4, <2>3, <2>5, <2>7 DEF ItemOf, Item
<1> QED
  BY <1>3, <1>4
-----------------------------------------------------------------------------
(* readall.                                                                *)

\* A file has the number of blocks its size takes.
LEMMA BlocksHoldAll ==
  ASSUME NEW s \in Nat, s < Word
  PROVE  BlocksOf(s) \in Nat /\ (s > 0 => BlocksOf(s) * BlockSize >= s)
<1>0. BlockSize \in Nat /\ BlockSize >= 1 /\ Word \in Nat /\ Word >= 1
  BY Constants, MksfsAssumption
<1>1. (s - 1) % Word \in 0 .. Word - 1
  BY <1>0, Z3
<1>2. PICK m \in Nat : m = (s - 1) % Word
  BY <1>0, <1>1
<1>3. PICK q \in Nat : q = m \div BlockSize
  BY <1>0, Division
<1>4. BlocksOf(s) = q + 1
  BY <1>2, <1>3 DEF BlocksOf
<1>5. ASSUME s > 0 PROVE (q + 1) * BlockSize >= s
  <2>1. (s - 1) % Word = s - 1
    BY <1>0, <1>5, Z3
  <2>2. PICK r \in 0 .. BlockSize - 1 : q * BlockSize + r = m
    BY <1>0, <1>3, Division
  <2>3. (q + 1) * BlockSize = q * BlockSize + BlockSize
    BY <1>0, Z3
  <2> DEFINE p == q * BlockSize
  <2>4. p \in Int
    BY <1>0
  <2> HIDE DEF p
  <2>5. p + BlockSize >= s
    BY <1>0, <1>2, <2>1, <2>2, <2>4 DEF p
  <2> QED
    BY <2>3, <2>5 DEF p
<1> QED
  BY <1>4, <1>5

\* The block and the place in it of byte j of a file.
LEMMA ByteIsThere ==
  ASSUME OneLongNode, Shape, NEW use, NEW ino, NEW cnt, NEW kids,
         BuildInv(use, ino, cnt, kids), Complete(ino, cnt, kids),
         NEW n \in Files, NEW j \in 0 .. tree[n].size - 1
  PROVE  LET b == ItemOf(InodeOf(n), j \div BlockSize).block
         IN  /\ j \div BlockSize \in 0 .. cnt[n] - 1
             /\ b \in Block /\ use[b] = <<"data", n, j \div BlockSize>>
             /\ image.data[b][j % BlockSize] = <<n, j>>
<1>0. /\ BlockSize \in Nat /\ BlockSize >= 1 /\ tree[n].size \in Nat /\ j \in Nat
      /\ j < tree[n].size /\ n \in Packed /\ n \in Nodes
  BY Constants, TreeFacts, Kinds DEF Complete
<1>1. PICK k \in Nat : k = j \div BlockSize
  BY <1>0, Division
<1>2. PICK r \in 0 .. BlockSize - 1 : r = j % BlockSize
  BY <1>0, Division
<1>3. k * BlockSize + r = j
  BY <1>0, <1>1, <1>2, Division
<1>4. cnt[n] \in Nat /\ tree[n].size <= cnt[n] * BlockSize
  BY <1>0, ItemsFit DEF Complete, BuildInv, Data
<1>5. k \in 0 .. cnt[n] - 1
  <2>1. k * BlockSize < cnt[n] * BlockSize
    <3> DEFINE p == k * BlockSize
               q == cnt[n] * BlockSize
    <3>1. p \in Int /\ q \in Int
      BY <1>0, <1>4
    <3>2. p + r = j /\ tree[n].size <= q
      BY <1>3, <1>4
    <3> HIDE DEF p, q
    <3>3. p < q
      BY <1>0, <3>1, <3>2
    <3> QED
      BY <3>3 DEF p, q
  <2>2. k < cnt[n]
    BY <1>0, <1>4, <2>1, TimesLess
  <2> QED
    BY <1>4, <2>2
<1>6. ItemOf(InodeOf(n), k) = Item(ino[n], k)
  BY <1>0, <1>5, ItemsFound
<1>7. Item(ino[n], k).block \in Block /\ use[Item(ino[n], k).block] = <<"data", n, k>>
  BY <1>0, <1>5 DEF BuildInv, Data, Owned
<1>8. Place(k, r) = j
  BY <1>3 DEF Place
<1>9. image.data[Item(ino[n], k).block][r] = <<n, j>>
  BY <1>0, <1>5, <1>8 DEF BuildInv, Data, Bytes
<1> QED
  BY <1>1, <1>2, <1>5, <1>6, <1>7, <1>9

LEMMA FileReadsBack ==
  ASSUME OneLongNode, Shape, NEW use, NEW ino, NEW cnt, NEW kids,
         BuildInv(use, ino, cnt, kids), Complete(ino, cnt, kids), NEW n \in Files
  PROVE  /\ InodeOf(n).type = TYPE_FILE
         /\ readall(InodeOf(n)) = [j \in 0 .. tree[n].size - 1 |-> <<n, j>>]
<1>1. n \in Packed /\ n \in Nodes /\ tree[n].size \in Nat
  BY TreeFacts, Kinds DEF Complete
<1>2. /\ InodeOf(n).type = TYPE_FILE /\ InodeOf(n).size = tree[n].size
      /\ InodeOf(n).blocks = BlocksOf(tree[n].size)
  BY <1>1 DEF Complete, BuildInv, Data, Inodes, FileSoFar
<1>3. tree[n].size < Word
  <2> DEFINE top == (NDirect + ItemsPerBlock) * BlockSize
  <2>1. tree[n].size <= top /\ top < Word /\ top \in Int /\ Word \in Int
    BY <1>1, Kinds, Constants, MksfsAssumption DEF OneLongNode, Shape, Fits, Files
  <2> HIDE DEF top
  <2> QED
    BY <1>1, <2>1
<1>4. Min({InodeOf(n).size, InodeOf(n).blocks * BlockSize}) = tree[n].size
  <2>1. PICK k \in Nat : k = BlocksOf(tree[n].size)
    BY <1>1, <1>3, BlocksHoldAll
  <2> DEFINE p == k * BlockSize
  <2>2. p \in Int
    BY Constants
  <2>3. p >= tree[n].size
    <3>1. CASE tree[n].size > 0
      BY <1>1, <1>3, <2>1, <3>1, BlocksHoldAll
    <3>2. CASE tree[n].size = 0
      BY <3>2, Constants, Z3
    <3> QED
      BY <1>1, <3>1, <3>2
  <2>4. InodeOf(n).blocks * BlockSize = p
    BY <1>2, <2>1
  <2> HIDE DEF p
  <2>5. Min({tree[n].size, p}) = tree[n].size
    BY <1>1, <2>2, <2>3, MinOfTwo
  <2> QED
    BY <1>2, <2>4, <2>5
<1>5. ASSUME NEW j \in 0 .. tree[n].size - 1
      PROVE  (LET b == ItemOf(InodeOf(n), j \div BlockSize).block
              IN  IF b \in Block THEN image.data[b][j % BlockSize] ELSE StaleByte) = <<n, j>>
  BY ByteIsThere
<1> QED
  BY <1>2, <1>4, <1>5 DEF readall

LEMMA FilesAreRead ==
  ASSUME OneLongNode
  PROVE  IInv => FilesReadBack
<1> SUFFICES ASSUME IInv, pc = "done", NEW n \in Files
             PROVE  /\ InodeOf(n).type = TYPE_FILE
                    /\ readall(InodeOf(n)) = [j \in 0 .. tree[n].size - 1 |-> <<n, j>>]
  BY DEF FilesReadBack
<1>1. PICK use, ino, cnt, kids : BuildInv(use, ino, cnt, kids)
  BY DEF IInv
<1>2. Shape
  BY DEF IInv
<1>3. Complete(ino, cnt, kids)
  BY <1>1, <1>2, DoneIsComplete
<1> QED
  BY <1>1, <1>2, <1>3, FileReadsBack

\* Whatever readdir returns and wherever the blocks lie, readall gives back every
\* file as it was on the host.
THEOREM FilesAlwaysReadBack ==
  ASSUME OneLongNode
  PROVE  FTSpec => []FilesReadBack
BY InvHolds, FilesAreRead, PTL
-----------------------------------------------------------------------------
(* ls.                                                                     *)

\* No two entries of a directory have one name, and none is called "." or "..".
LEMMA NamesAreCounted ==
  ASSUME Shape, NEW n \in Dirs
  PROVE  Cardinality(Listing(n)) = Cardinality(EntriesOf(tree, n)) + 2
<1> DEFINE E == EntriesOf(tree, n)
           T == {tree[m].name : m \in E}
<1>1. Listing(n) = (T \cup {"."}) \cup {".."}
  BY EntriesAre DEF Listing
<1>2. /\ E \subseteq DOMAIN tree \ {Root}
      /\ \A m \in E : tree[m].parent = n /\ tree[m].name \notin {".", ".."}
      /\ \A m, q \in E : tree[m].name = tree[q].name => m = q
  BY TreeFacts DEF EntriesOf
<1>3. IsFiniteSet(E) /\ Cardinality(E) \in Nat
  BY EntriesAreFinite
<1>4. ExistsBijection(E, T)
  <2> DEFINE f == [m \in E |-> tree[m].name]
  <2>1. f \in [E -> T] /\ \A m \in E : f[m] = tree[m].name
    OBVIOUS
  <2>2. \A m, q \in E : f[m] = f[q] => m = q
    BY <1>2, <2>1
  <2>3. \A t \in T : \E m \in E : f[m] = t
    BY <2>1
  <2> HIDE DEF f, E, T
  <2>4. f \in Bijection(E, T)
    BY <2>1, <2>2, <2>3 DEF Bijection, Injection, Surjection, IsInjective
  <2> QED
    BY <2>4 DEF ExistsBijection
<1>5. "." \notin T /\ ".." \notin T \cup {"."}
  BY <1>2
<1> HIDE DEF E, T
<1>6. IsFiniteSet(T) /\ Cardinality(T) = Cardinality(E)
  BY <1>3, <1>4, FS_Bijection
<1>7. IsFiniteSet(T \cup {"."}) /\ Cardinality(T \cup {"."}) = Cardinality(E) + 1
  BY <1>5, <1>6, FS_AddElement
<1>8. Cardinality((T \cup {"."}) \cup {".."}) = Cardinality(E) + 1 + 1
  BY <1>5, <1>7, FS_AddElement
<1> QED
  BY <1>1, <1>3, <1>8 DEF E

LEMMA DirIsListed ==
  ASSUME OneLongNode, Shape, NEW use, NEW ino, NEW cnt, NEW kids,
         BuildInv(use, ino, cnt, kids), Complete(ino, cnt, kids), NEW n \in Dirs
  PROVE  LET list == ls(InodeOf(n))
         IN  /\ {list[i] : i \in DOMAIN list} = Listing(n)
             /\ Len(list) = Cardinality(Listing(n))
<1> DEFINE E == EntriesOf(tree, n)
<1>1. n \in Packed /\ n \in Nodes
  BY Kinds DEF Complete
<1>2. DirSoFar(n, ino[n], cnt[n], E) /\ InodeOf(n).blocks = cnt[n]
  BY <1>1 DEF Complete, BuildInv, Data, Inodes
<1>3. PICK k : k = cnt[n]
  OBVIOUS
<1>4. Cardinality(E) \in Nat /\ k = 2 + Cardinality(E) /\ Cardinality(Listing(n)) = k
  BY <1>2, <1>3, EntriesAreFinite, NamesAreCounted DEF DirSoFar
<1>5. k \in Nat /\ k >= 2
  BY <1>4
<1>6. PICK name : /\ DOMAIN name = 1 .. k /\ name = ls(InodeOf(n))
                  /\ \A i \in 1 .. k : name[i] = Item(ino[n], i - 1).filename
  <2>1. \A i \in 1 .. k : i - 1 \in 0 .. cnt[n] - 1
    BY <1>3, <1>5
  <2>2. \A i \in 1 .. k : ItemOf(InodeOf(n), i - 1) = Item(ino[n], i - 1)
    BY <1>1, <2>1, ItemsFound
  <2> DEFINE f == ls(InodeOf(n))
  <2>3. f = [i \in 1 .. k |-> ItemOf(InodeOf(n), i - 1).filename]
    BY <1>2, <1>3 DEF ls
  <2>4. DOMAIN f = 1 .. k /\ \A i \in 1 .. k : f[i] = Item(ino[n], i - 1).filename
    BY <2>2, <2>3
  <2>5. f = ls(InodeOf(n))
    OBVIOUS
  <2> HIDE DEF f
  <2> QED
    BY <2>4, <2>5
<1>7. Len(name) = k
  <2>1. name = [i \in 1 .. k |-> ItemOf(InodeOf(n), i - 1).filename]
    BY <1>2, <1>3, <1>6 DEF ls
  <2> QED
    BY <1>5, <2>1
<1>8. \A i \in 1 .. k : name[i] \in Listing(n)
  <2> SUFFICES ASSUME NEW i \in 1 .. k PROVE name[i] \in Listing(n)
    OBVIOUS
  <2>1. i - 1 = 0 \/ i - 1 = 1 \/ i - 1 \in 2 .. k - 1
    BY <1>5
  <2>2. name[i] \in {".", ".."} \/ \E m \in E : name[i] = tree[m].name
    BY <1>2, <1>3, <1>6, <2>1 DEF DirSoFar
  <2> QED
    BY <2>2, EntriesAre DEF Listing
<1>9. \A x \in Listing(n) : \E i \in 1 .. k : name[i] = x
  <2> SUFFICES ASSUME NEW x \in Listing(n) PROVE \E j \in 0 .. k - 1 : Item(ino[n], j).filename = x
    <3>1. \A j \in 0 .. k - 1 : j + 1 \in 1 .. k /\ (j + 1) - 1 = j
      BY <1>5
    <3>2. \A j \in 0 .. k - 1 : name[j + 1] = Item(ino[n], j).filename
      BY <1>6, <3>1
    <3> QED
      BY <3>1, <3>2
  <2>1. x = "." \/ x = ".." \/ \E m \in E : x = tree[m].name
    BY EntriesAre DEF Listing
  <2>2. 0 \in 0 .. k - 1 /\ 1 \in 0 .. k - 1 /\ 2 .. k - 1 \subseteq 0 .. k - 1
    BY <1>5
  <2> QED
    BY <1>2, <1>3, <2>1, <2>2 DEF DirSoFar
<1> QED
  BY <1>4, <1>6, <1>7, <1>8, <1>9

LEMMA DirsAreListed ==
  ASSUME OneLongNode
  PROVE  IInv => LsIsComplete
<1> SUFFICES ASSUME IInv, pc = "done", NEW n \in Dirs
             PROVE  LET list == ls(InodeOf(n))
                    IN  /\ {list[i] : i \in DOMAIN list} = Listing(n)
                        /\ Len(list) = Cardinality(Listing(n))
  BY DEF LsIsComplete
<1>1. PICK use, ino, cnt, kids : BuildInv(use, ino, cnt, kids)
  BY DEF IInv
<1>2. Shape
  BY DEF IInv
<1>3. Complete(ino, cnt, kids)
  BY <1>1, <1>2, DoneIsComplete
<1> QED
  BY <1>1, <1>2, <1>3, DirIsListed

\* ls prints every entry of every directory once, and nothing else, also those
\* whose items are in the indirect block.
THEOREM LsAlwaysComplete ==
  ASSUME OneLongNode
  PROVE  FTSpec => []LsIsComplete
BY InvHolds, DirsAreListed, PTL
-----------------------------------------------------------------------------
(* Who owns the blocks.                                                    *)

\* Block b, and what it was taken for.
ClaimOf(use, b) == <<b, use[b][1], use[b][2], use[b][3]>>

\* The nodes whose indirect block a reader follows have one.
LEMMA TablesAre ==
  ASSUME OneLongNode, Shape, NEW use, NEW ino, NEW cnt, NEW kids,
         BuildInv(use, ino, cnt, kids), Complete(ino, cnt, kids), NEW n \in Packed
  PROVE  n \in Tables <=> cnt[n] > NDirect
<1>1. /\ n \in Nodes /\ n \in DOMAIN tree /\ cnt[n] \in Nat /\ tree[n].size \in Nat
      /\ cnt[n] > NDirect => n \in Long(tree)
  BY ItemsFit, Kinds, TreeFacts DEF Complete, BuildInv, Data
<1>2. CASE n \in Dirs
  <2>1. InodeOf(n).blocks = cnt[n] /\ n \notin Files
    BY <1>2, Kinds DEF Complete
  <2> QED
    BY <1>2, <2>1 DEF Tables
<1>3. CASE n \in Files
  <2>1. n \notin Dirs /\ (n \in Tables <=> tree[n].size > NDirect * BlockSize)
    BY <1>3, Kinds DEF Tables
  <2>2. cnt[n] > NDirect => tree[n].size > NDirect * BlockSize
    BY <1>1, <1>3 DEF Long, IsLong, Files
  <2>3. ASSUME tree[n].size > NDirect * BlockSize PROVE cnt[n] > NDirect
    <3> DEFINE p == NDirect * BlockSize
               q == cnt[n] * BlockSize
    <3>1. p \in Int /\ q \in Int /\ p < tree[n].size /\ tree[n].size <= q
      BY <1>1, <1>3, <2>3, Constants DEF Complete
    <3> HIDE DEF p, q
    <3>2. p < q
      BY <1>1, <3>1
    <3> QED
      BY <1>1, <3>2, Constants, TimesLess DEF p, q
  <2> QED
    BY <2>1, <2>2, <2>3
<1> QED
  BY <1>2, <1>3, Kinds

\* The numbers of the blocks of a file.
LEMMA BlocksOfFile ==
  ASSUME OneLongNode, Shape, NEW use, NEW ino, NEW cnt, NEW kids,
         BuildInv(use, ino, cnt, kids), Complete(ino, cnt, kids), NEW n \in Files
  PROVE  {j \div BlockSize : j \in 0 .. tree[n].size - 1} = 0 .. cnt[n] - 1
<1>0. /\ n \in Nodes /\ n \in Packed /\ cnt[n] \in Nat /\ tree[n].size \in Nat
      /\ BlockSize \in Nat /\ BlockSize >= 1
  BY ItemsFit, Kinds, TreeFacts, Constants DEF Complete, BuildInv, Data
<1>1. \A j \in 0 .. tree[n].size - 1 : j \div BlockSize \in 0 .. cnt[n] - 1
  BY ByteIsThere
<1>2. ASSUME NEW i \in 0 .. cnt[n] - 1
      PROVE  \E j \in 0 .. tree[n].size - 1 : j \div BlockSize = i
  <2> DEFINE j == i * BlockSize
             top == (cnt[n] - 1) * BlockSize
  <2>1. j \in Nat /\ top \in Int
    BY <1>0
  <2>2. top < tree[n].size
    BY <1>0, <1>2 DEF BuildInv, Data, Inodes, FileSoFar
  <2>3. ~(top < j)
    BY <1>0, TimesLess
  <2>4. j \in 0 .. tree[n].size - 1
    <3> HIDE DEF j, top
    <3> QED
      BY <1>0, <2>1, <2>2, <2>3
  <2>5. j \div BlockSize = i
    <3>1. PICK q \in Nat : q = j \div BlockSize
      BY <1>0, <2>1, Division
    <3>2. PICK r \in 0 .. BlockSize - 1 : q * BlockSize + r = j
      BY <1>0, <2>1, <3>1, Division
    <3>3. (q + 1) * BlockSize = q * BlockSize + BlockSize
      BY <1>0, Z3
    <3> DEFINE p == q * BlockSize
    <3>4. p \in Int
      BY <1>0
    <3>5. j < p + BlockSize /\ ~(j < p)
      <4> HIDE DEF p, j
      <4> QED
        BY <1>0, <2>1, <3>2, <3>4 DEF p
    <3>6. i < q + 1
      BY <1>0, <3>3, <3>5, TimesLess
    <3>7. ~(i < q)
      <4> SUFFICES ASSUME i < q PROVE FALSE
        OBVIOUS
      <4>1. (q - i) * BlockSize >= 1
        BY <1>0, Z3
      <4>2. (q - i) * BlockSize = p - j
        BY <1>0, Z3
      <4> HIDE DEF p, j
      <4> QED
        BY <2>1, <3>4, <3>5, <4>1, <4>2
    <3> QED
      BY <3>1, <3>6, <3>7
  <2> QED
    BY <2>4, <2>5
<1> QED
  BY <1>1, <1>2

\* Every claim is what the block was taken for.
LEMMA ClaimsAreUses ==
  ASSUME OneLongNode, Shape, NEW use, NEW ino, NEW cnt, NEW kids,
         BuildInv(use, ino, cnt, kids), Complete(ino, cnt, kids), NEW c \in Claims
  PROVE  \E b \in Block : use[b] # Nil /\ c = ClaimOf(use, b)
<1>0. Owned(use, ino, cnt) /\ Nodes = Packed
  BY DEF BuildInv, Data, Complete
<1>s. 0 \in Block /\ 1 .. FreemapNum \subseteq Block
  BY Constants DEF Block
<1>1. ASSUME NEW b \in Block, NEW kind, NEW n, NEW i, kind # "free",
             use[b] = <<kind, n, i>>, c = <<b, kind, n, i>>
      PROVE  use[b] # Nil /\ c = ClaimOf(use, b)
  <2>1. use[b][1] = kind /\ use[b][2] = n /\ use[b][3] = i
    BY <1>1
  <2> QED
    BY <1>1, <2>1 DEF ClaimOf, Nil
<1>2. CASE c = <<0, "super", Root, 0>>
  BY <1>0, <1>s, <1>1, <1>2 DEF Owned
<1>3. CASE \E b \in 1 .. FreemapNum : c = <<b, "map", Root, b>>
  BY <1>0, <1>s, <1>1, <1>3 DEF Owned
<1>4. CASE \E n \in Packed : c = <<where[n], "inode", n, 0>>
  BY <1>0, <1>1, <1>4 DEF Owned
<1>5. CASE \E n \in Tables : c = <<InodeOf(n).indirect, "items", n, 0>>
  <2>1. PICK n \in Tables : c = <<InodeOf(n).indirect, "items", n, 0>>
    BY <1>5
  <2>2. n \in Packed
    BY Kinds DEF Tables
  <2>3. InodeOf(n).indirect = ino[n].indirect /\ cnt[n] > NDirect
    BY <2>2, TablesAre DEF Complete
  <2> QED
    BY <1>0, <1>1, <2>1, <2>2, <2>3 DEF Owned
<1>6. CASE \E n \in Files : \E i \in {j \div BlockSize : j \in 0 .. tree[n].size - 1} :
             c = <<ItemOf(InodeOf(n), i).block, "data", n, i>>
  <2>0. PICK n \in Files : \E i \in {j \div BlockSize : j \in 0 .. tree[n].size - 1} :
                            c = <<ItemOf(InodeOf(n), i).block, "data", n, i>>
    BY <1>6
  <2>1. PICK i \in {j \div BlockSize : j \in 0 .. tree[n].size - 1} :
          c = <<ItemOf(InodeOf(n), i).block, "data", n, i>>
    BY <2>0
  <2>2. PICK b : b = ItemOf(InodeOf(n), i).block
    OBVIOUS
  <2>3. b \in Block /\ use[b] = <<"data", n, i>>
    BY <2>1, <2>2, ByteIsThere
  <2> QED
    BY <1>1, <2>1, <2>2, <2>3
<1> QED
  BY <1>2, <1>3, <1>4, <1>5, <1>6 DEF Claims

\* And every block that was taken is claimed.
LEMMA UsesAreClaimed ==
  ASSUME OneLongNode, Shape, NEW use, NEW ino, NEW cnt, NEW kids,
         BuildInv(use, ino, cnt, kids), Complete(ino, cnt, kids), NEW b \in Block, use[b] # Nil
  PROVE  \E c \in Claims : c[1] = b
<1>0. Nodes = Packed /\ Accounted(use, ino, cnt)
  BY DEF BuildInv, Data, Complete
<1>1. ASSUME NEW c \in Claims, NEW kind, NEW n, NEW i, c = <<b, kind, n, i>>
      PROVE  \E d \in Claims : d[1] = b
  BY <1>1
<1>2. CASE b = 0
  BY <1>1, <1>2 DEF Claims
<1>3. CASE b \in 1 .. FreemapNum
  <2>1. <<b, "map", Root, b>> \in Claims
    BY <1>3 DEF Claims
  <2> QED
    BY <1>1, <2>1
<1>4. CASE \E n \in Packed : b = where[n]
  <2>1. PICK n \in Packed : b = where[n]
    BY <1>4
  <2>2. <<b, "inode", n, 0>> \in {<<where[m], "inode", m, 0>> : m \in Packed}
    BY <2>1
  <2>3. <<b, "inode", n, 0>> \in Claims
    BY <2>2 DEF Claims
  <2> QED
    BY <1>1, <2>3
<1>5. CASE \E n \in Packed : cnt[n] > NDirect /\ b = ino[n].indirect
  <2>1. PICK n \in Packed : cnt[n] > NDirect /\ b = ino[n].indirect
    BY <1>5
  <2>2. InodeOf(n).indirect = b /\ n \in Tables
    BY <2>1, TablesAre DEF Complete
  <2>3. <<b, "items", n, 0>> \in {<<InodeOf(m).indirect, "items", m, 0>> : m \in Tables}
    BY <2>2
  <2> QED
    BY <1>1, <2>3 DEF Claims
<1>6. CASE \E n \in Files : \E i \in 0 .. cnt[n] - 1 : b = Item(ino[n], i).block
  <2>0. PICK n \in Files : \E i \in 0 .. cnt[n] - 1 : b = Item(ino[n], i).block
    BY <1>6
  <2>1. PICK i \in 0 .. cnt[n] - 1 : b = Item(ino[n], i).block
    BY <2>0
  <2>2. n \in Packed /\ ItemOf(InodeOf(n), i) = Item(ino[n], i)
    BY <2>1, Kinds, ItemsFound
  <2>3. i \in {j \div BlockSize : j \in 0 .. tree[n].size - 1}
    BY BlocksOfFile
  <2>4. <<b, "data", n, i>> \in {<<ItemOf(InodeOf(n), k).block, "data", n, k>> :
                                   k \in {j \div BlockSize : j \in 0 .. tree[n].size - 1}}
    BY <2>1, <2>2, <2>3
  <2>5. <<b, "data", n, i>> \in Claims
    BY <2>4 DEF Claims
  <2> QED
    BY <1>1, <2>5
<1> QED
  BY <1>0, <1>2, <1>3, <1>4, <1>5, <1>6 DEF Accounted

LEMMA WeightIs ==
  /\ Weight[1] = 1 /\ Weight[2] = 2 /\ Weight[3] = 4 /\ Weight[4] = 8
  /\ Weight[5] = 16 /\ Weight[6] = 32 /\ Weight[7] = 64 /\ Weight[8] = 128
BY DEF Weight

\* The bits of a byte.
LEMMA Bits ==
  ASSUME NEW a \in 0 .. 1, NEW b \in 0 .. 1, NEW c \in 0 .. 1, NEW d \in 0 .. 1,
         NEW e \in 0 .. 1, NEW f \in 0 .. 1, NEW g \in 0 .. 1, NEW h \in 0 .. 1,
         NEW x, x = a + 2 * b + 4 * c + 8 * d + 16 * e + 32 * f + 64 * g + 128 * h
  PROVE  /\ (x \div 1) % 2 = a /\ (x \div 2) % 2 = b /\ (x \div 4) % 2 = c /\ (x \div 8) % 2 = d
         /\ (x \div 16) % 2 = e /\ (x \div 32) % 2 = f /\ (x \div 64) % 2 = g
         /\ (x \div 128) % 2 = h
<1>1. (x \div 1) % 2 = a
  BY Z3
<1>2. (x \div 2) % 2 = b
  BY Z3
<1>3. (x \div 4) % 2 = c
  BY Z3
<1>4. (x \div 8) % 2 = d
  BY Z3
<1>5. (x \div 16) % 2 = e
  BY Z3
<1>6. (x \div 32) % 2 = f
  BY Z3
<1>7. (x \div 64) % 2 = g
  BY Z3
<1>8. (x \div 128) % 2 = h
  BY Z3
<1> QED
  BY <1>1, <1>2, <1>3, <1>4, <1>5, <1>6, <1>7, <1>8

\* The bit of block 8 i + j in byte i.
LEMMA BitOfByte ==
  ASSUME Shape, NEW i \in 0 .. BlockNum \div 8 - 1, NEW j \in 0 .. 7
  PROVE  (MapByte(i) \div Weight[j + 1]) % 2 = freemap[8 * i + j]
<1> DEFINE f(k) == freemap[8 * i + k]
<1>1. \A k \in 0 .. 7 : 8 * i + k \in Block
  <2>1. BlockNum \div 8 \in Int /\ 8 * (BlockNum \div 8) <= BlockNum
    BY Constants, Z3
  <2> QED
    BY <2>1, Constants DEF Block
<1>2. \A k \in 0 .. 7 : f(k) \in 0 .. 1
  BY <1>1 DEF Shape
<1>3. /\ f(0) \in 0 .. 1 /\ f(1) \in 0 .. 1 /\ f(2) \in 0 .. 1 /\ f(3) \in 0 .. 1
      /\ f(4) \in 0 .. 1 /\ f(5) \in 0 .. 1 /\ f(6) \in 0 .. 1 /\ f(7) \in 0 .. 1
  BY <1>2
<1>4. MapByte(i) = f(0) * Weight[0 + 1] + f(1) * Weight[1 + 1] + f(2) * Weight[2 + 1]
                   + f(3) * Weight[3 + 1] + f(4) * Weight[4 + 1] + f(5) * Weight[5 + 1]
                   + f(6) * Weight[6 + 1] + f(7) * Weight[7 + 1]
  BY DEF MapByte
<1>5. /\ Weight[0 + 1] = 1 /\ Weight[1 + 1] = 2 /\ Weight[2 + 1] = 4 /\ Weight[3 + 1] = 8
      /\ Weight[4 + 1] = 16 /\ Weight[5 + 1] = 32 /\ Weight[6 + 1] = 64 /\ Weight[7 + 1] = 128
  BY WeightIs
<1> HIDE DEF f
<1>6. MapByte(i) = f(0) + 2 * f(1) + 4 * f(2) + 8 * f(3) + 16 * f(4) + 32 * f(5) + 64 * f(6)
                   + 128 * f(7)
  BY <1>3, <1>4, <1>5
<1>7. /\ (MapByte(i) \div 1) % 2 = f(0) /\ (MapByte(i) \div 2) % 2 = f(1)
      /\ (MapByte(i) \div 4) % 2 = f(2) /\ (MapByte(i) \div 8) % 2 = f(3)
      /\ (MapByte(i) \div 16) % 2 = f(4) /\ (MapByte(i) \div 32) % 2 = f(5)
      /\ (MapByte(i) \div 64) % 2 = f(6) /\ (MapByte(i) \div 128) % 2 = f(7)
  BY <1>3, <1>6, Bits
<1>8. \A k \in 0 .. 7 : k = 0 \/ k = 1 \/ k = 2 \/ k = 3 \/ k = 4 \/ k = 5 \/ k = 6 \/ k = 7
  OBVIOUS
<1>9. (MapByte(i) \div Weight[j + 1]) % 2 = f(j)
  BY <1>5, <1>7, <1>8
<1> QED
  BY <1>9 DEF f

\* The bit of a block in the image says whether it was taken.
LEMMA MarkedIsTaken ==
  ASSUME Shape, NEW use, NEW ino, NEW cnt, NEW kids, BuildInv(use, ino, cnt, kids), pc = "done",
         NEW b \in Block
  PROVE  (MarkedUsed(b) <=> freemap[b] = 1) /\ (MarkedUsed(b) <=> use[b] # Nil)
<1>1. PICK i \in Nat : i = b \div 8
  BY Constants, Z3 DEF Block
<1>2. PICK j \in 0 .. 7 : j = b % 8
  BY Constants, Z3 DEF Block
<1>3. 8 * i + j = b
  BY <1>1, <1>2, Constants, Z3 DEF Block
<1>4. i \in 0 .. BlockNum \div 8 - 1
  <2>1. PICK m \in Nat : m = BlockNum \div 8
    BY Constants, Z3
  <2>2. 8 * m = BlockNum
    BY <2>1, Constants, MksfsAssumption, Z3
  <2>3. i <= m - 1
    BY <1>3, <2>2, Constants DEF Block
  <2> QED
    BY <2>1, <2>3
<1>5. image.freemap[i] = MapByte(i)
  BY <1>4 DEF BuildInv, Control, Written
<1>6. (MapByte(i) \div Weight[j + 1]) % 2 = freemap[b]
  BY <1>3, <1>4, BitOfByte
<1>7. MarkedUsed(b) <=> freemap[b] = 1
  BY <1>1, <1>2, <1>5, <1>6 DEF MarkedUsed
<1>8. freemap[b] \in 0 .. 1 /\ (freemap[b] = 0 <=> use[b] = Nil)
  BY DEF Shape, BuildInv, Data, Owned
<1> QED
  BY <1>7, <1>8

LEMMA BlocksAreOwned ==
  ASSUME OneLongNode
  PROVE  IInv => BlocksAreOwnedOnce
<1> SUFFICES ASSUME IInv, pc = "done"
             PROVE  /\ \A c, d \in Claims : c[1] = d[1] => c = d
                    /\ \A b \in Block : MarkedUsed(b) <=> \E c \in Claims : c[1] = b
                    /\ image.super.unusedBlocks = Cardinality({b \in Block : ~MarkedUsed(b)})
  BY DEF BlocksAreOwnedOnce, IInv
<1>1. PICK use, ino, cnt, kids : BuildInv(use, ino, cnt, kids)
  BY DEF IInv
<1>2. Shape
  BY DEF IInv
<1>3. Complete(ino, cnt, kids)
  BY <1>1, <1>2, DoneIsComplete
<1>4. \A c \in Claims : \E b \in Block : use[b] # Nil /\ c = ClaimOf(use, b) /\ c[1] = b
  <2>1. \A b : ClaimOf(use, b)[1] = b
    BY DEF ClaimOf
  <2> QED
    BY <1>1, <1>2, <1>3, <2>1, ClaimsAreUses
<1>5. \A b \in Block : use[b] # Nil => \E c \in Claims : c[1] = b
  BY <1>1, <1>2, <1>3, UsesAreClaimed
<1>6. \A b \in Block : (MarkedUsed(b) <=> freemap[b] = 1) /\ (MarkedUsed(b) <=> use[b] # Nil)
  BY <1>1, <1>2, MarkedIsTaken
<1>7. \A c, d \in Claims : c[1] = d[1] => c = d
  BY <1>4
<1>8. \A b \in Block : MarkedUsed(b) <=> \E c \in Claims : c[1] = b
  BY <1>4, <1>5, <1>6
<1>9. image.super.unusedBlocks = Cardinality({b \in Block : ~MarkedUsed(b)})
  <2>1. \A b \in Block : freemap[b] = 0 <=> ~MarkedUsed(b)
    BY <1>2, <1>6 DEF Shape
  <2>2. Free = {b \in Block : ~MarkedUsed(b)}
    BY <2>1 DEF Free
  <2>3. image.super.unusedBlocks = Cardinality(Free)
    BY <1>1, <1>2 DEF BuildInv, Control, Written, Shape
  <2> QED
    BY <2>2, <2>3
<1> QED
  BY <1>7, <1>8, <1>9

\* In a finished image no block serves two purposes, the freemap marks exactly the
\* blocks that are in use, and the super block counts the others; and while
\* mksfs works the state keeps its types.
THEOREM BlocksAlwaysOwnedOnce ==
  ASSUME OneLongNode
  PROVE  FTSpec => []BlocksAreOwnedOnce
BY InvHolds, BlocksAreOwned, PTL
=============================================================================
