------------------------------ MODULE SimpleFS ------------------------------
(***************************************************************************)
(* kernel/fs.c: reading a SimpleFS image.  The image lies in the .data     *)
(* section of the kernel and is never written, so everything here is a     *)
(* function of the image.                                                  *)
(*                                                                         *)
(* A block is memory that may be looked at as an inode, as a table of      *)
(* items (an indirect block) or as bytes: image has one view of each kind, *)
(* and storing through one of them spoils the others.  A path is the       *)
(* sequence of its names and slashes.  The number of a block stands for    *)
(* the address of what is in it, and NULL for the address 0.               *)
(***************************************************************************)
EXTENDS Integers, Sequences, FiniteSetsExt

CONSTANTS NDirect,        \* 12, the length of Inode.direct
          ItemsPerBlock,  \* 128, how many items an indirect block holds
          BlockSize,      \* BLOCK_SIZE
          BlockNum        \* BLOCK_NUM

ASSUME SimpleFSAssumption == /\ NDirect \in Nat \ {0, 1}
                             /\ {ItemsPerBlock, BlockSize, BlockNum} \subseteq Nat \ {0}

VARIABLES image           \* from _fs_img_start on

Block     == 0 .. BlockNum - 1
NULL      == -1
TYPE_FILE == 0
TYPE_DIR  == 1

\* Contents that are no more than leftovers: of the stack, or of a block that
\* was stored to through another view.
StaleItem  == [filename |-> "stale", block |-> 0]
StaleInode == [size |-> 0, type |-> 2, filename |-> "stale", blocks |-> 0,
               direct |-> [i \in 0 .. NDirect - 1 |-> StaleItem], indirect |-> 0]
StaleByte  == <<"stale", 0>>

\* Memory behind the image.
InodeAt(b) == IF b \in Block THEN image.inode[b] ELSE StaleInode

\* Slot k of the table of items that begins in block b; the slots behind the
\* last one of a block are in the next block.
ItemAt(b, k) == LET c == b + k \div ItemsPerBlock
                IN  IF c \in Block THEN image.items[c][k % ItemsPerBlock] ELSE StaleItem

\* ROOT_INODE, computed by initFs.
RootInode == image.super.freemapBlocks + 1
-----------------------------------------------------------------------------
(* lookup.                                                                 *)

\* The i-th item lookup compares.  Beyond the direct ones the name is that of
\* slot i of the indirect block, not i - 12, and the block is that of
\* direct[i], which lies behind the inode, where mksfs leaves the block zero.
Candidate(node, i) ==
  IF i < NDirect THEN node.direct[i]
                 ELSE [filename |-> ItemAt(node.indirect, i).filename, block |-> 0]

\* The first component of a path (the empty name if the path begins with a
\* slash), and what follows it and one slash.
Slashes(path)   == {i \in 1 .. Len(path) : path[i] = "/"}
CutAt(path)     == IF Slashes(path) = {} THEN Len(path) + 1 ELSE Min(Slashes(path))
FirstName(path) == IF CutAt(path) = 1 THEN "" ELSE path[1]

\* The mutant does not skip the slash behind a component.
RemainderWithSlash(path) == SubSeq(path, CutAt(path), Len(path))
Remainder(path) == SubSeq(path, CutAt(path) + 1, Len(path))

lookup[node \in Int, filename \in Seq(STRING)] ==
  LET top  == filename # <<>> /\ filename[1] = "/"
      rest == IF top THEN Tail(filename) ELSE filename
      from == IF top \/ node = NULL THEN RootInode ELSE node
      dir  == InodeAt(from)
      hits == {i \in 0 .. dir.blocks - 1 : Candidate(dir, i).filename = FirstName(rest)}
  IN  IF rest = <<>> THEN from
      ELSE IF dir.type # TYPE_DIR \/ hits = {} THEN NULL
      ELSE lookup[Candidate(dir, Min(hits)).block, Remainder(rest)]
-----------------------------------------------------------------------------
(* readall, ls and getInodePath.                                           *)

\* The i-th item of an inode, as readall and ls find it.  The mutant indexes the
\* indirect block as lookup does.
ItemOfUnshifted(node, i) == IF i < NDirect THEN node.direct[i] ELSE ItemAt(node.indirect, i)
ItemOf(node, i) == IF i < NDirect THEN node.direct[i] ELSE ItemAt(node.indirect, i - NDirect)

\* The bytes readall stores in buf, for a file (it panics for a directory).
\* Every block is copied in full but the last one.
readall(node) ==
  [j \in 0 .. Min({node.size, node.blocks * BlockSize}) - 1 |->
     LET b == ItemOf(node, j \div BlockSize).block
     IN  IF b \in Block THEN image.data[b][j % BlockSize] ELSE StaleByte]

\* The names ls prints for a directory.
ls(node) == [i \in 1 .. node.blocks |-> ItemOf(node, i - 1).filename]

\* getInodePath: from an inode upwards until the root, whose name is "/".  The
\* second argument counts the directories that are left to pass, so that the
\* function is defined for an image whose directories form a circle, too.
PathUp[b \in Int, fuel \in Nat] ==
  IF fuel = 0 \/ InodeAt(b).filename = "/" THEN <<>>
  ELSE PathUp[lookup[b, <<"..">>], fuel - 1] \o <<"/", InodeAt(b).filename>>
getInodePath(b) == IF InodeAt(b).filename = "/" THEN <<"/">> ELSE PathUp[b, BlockNum]
=============================================================================
