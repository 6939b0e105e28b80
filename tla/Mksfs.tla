-------------------------------- MODULE Mksfs --------------------------------
(***************************************************************************)
(* mkfs/mksfs.c: building a SimpleFS image from a directory of the host.   *)
(* The program is sequential; a step is one entry of a directory, one      *)
(* block of a file, or the end of either.  readdir returns the entries in  *)
(* any order.                                                              *)
(*                                                                         *)
(* A byte of a file is named after the node and the offset it is read      *)
(* from.                                                                   *)
(*                                                                         *)
(* The inodes are local variables of walk and of main whose field indirect *)
(* is never set: it holds what was on the stack, that is what an earlier   *)
(* inode in the same place left there, or a value of Uninit (from before   *)
(* main, or left by readdir, stat and the other calls in between).         *)
(***************************************************************************)
EXTENDS SimpleFS, HostTree

CONSTANTS FreemapNum,   \* FREEMAP_NUM
          Word,         \* 2 ^ 32, the values of uint32
          Uninit,       \* the values the stack may hold but for inodes
          Trees,        \* the directories that may be packed
          PathDepth     \* bound: the components of the paths that are looked up

ASSUME MksfsAssumption ==
  /\ FreemapNum \in Nat \ {0}
  /\ FreemapNum + 2 <= BlockNum /\ BlockNum % 8 = 0
  /\ Word \in Nat /\ (NDirect + ItemsPerBlock) * BlockSize < Word
  /\ Uninit \subseteq 0 .. Word - 1 /\ Uninit # {}

\* What a directory on the host is: a finite tree, all of it below its root, in
\* which no directory has two entries of one name.
ASSUME TreeAssumption ==
  \A t \in Trees :
    /\ IsFiniteSet(DOMAIN t)
    /\ Root \in DOMAIN t /\ t[Root].kind = "dir" /\ t[Root].name = "/"
    /\ \A n \in DOMAIN t : t[n].size \in Nat
    /\ \A n \in DOMAIN t \ {Root} : /\ t[n].name \notin {".", ".."}
                                   /\ t[n].parent \in DOMAIN t /\ t[t[n].parent].kind = "dir"
    /\ \A m, n \in DOMAIN t \ {Root} : t[m].parent = t[n].parent /\ t[m].name = t[n].name => m = n
    /\ \A S \in SUBSET DOMAIN t :
         Root \in S /\ (\A n \in DOMAIN t \ {Root} : t[n].parent \in S => n \in S) => S = DOMAIN t

VARIABLES freemap,      \* freemap, one entry per block
          freenum,
          stack,        \* the calls of walk, the innermost last
          file,         \* the file that is being copied
          item,         \* nowItem, to be added to the innermost directory
          pc,
          where         \* history: the inode block of each node

buildVars == <<tree, freemap, freenum, stack, file, item, pc, where>>
vars == <<buildVars, image>>

Top == stack[Len(stack)]

\* What an uninitialised field indirect may hold.
Leftover == Uninit \cup {image.inode[b].indirect : b \in Block}

\* An Inode with type and name set.
NewInode(n, type, size, g) ==
  [StaleInode EXCEPT !.type = type, !.filename = tree[n].name, !.size = size, !.indirect = g]

\* The call walk(dirName, nowInode, num): the first two entries are the
\* directory itself and the one above it.
Walk(n, num, up, g) ==
  [dir |-> n, num |-> num, emptyIndex |-> 2, todo |-> Children(n),
   inode |-> [NewInode(n, TYPE_DIR, 0, g) EXCEPT
                !.direct[0] = [filename |-> ".", block |-> num],
                !.direct[1] = [filename |-> "..", block |-> up]]]

NoFile == [node |-> Root, num |-> 0, inode |-> StaleInode, left |-> 0, blockIndex |-> 0]
NoItem == [filename |-> "", block |-> 0]
ZeroInode == [StaleInode EXCEPT !.type = TYPE_FILE, !.filename = "",
                                !.direct = [i \in 0 .. NDirect - 1 |-> NoItem]]
EmptyImage ==
  [super   |-> [blocks |-> 0, unusedBlocks |-> 0, freemapBlocks |-> 0],
   freemap |-> [i \in 0 .. BlockNum \div 8 - 1 |-> 0],
   inode   |-> [b \in Block |-> ZeroInode],
   items   |-> [b \in Block |-> [k \in 0 .. ItemsPerBlock - 1 |-> NoItem]],
   data    |-> [b \in Block |-> [j \in 0 .. BlockSize - 1 |-> <<"", 0>>]]]

\* main, up to the call of walk.
Init ==
  /\ tree \in Trees
  /\ image = EmptyImage
  /\ freemap = [b \in Block |-> IF b <= FreemapNum + 1 THEN 1 ELSE 0]
  /\ freenum = BlockNum - (FreemapNum + 2)
  /\ \E g \in Uninit : stack = <<Walk(Root, FreemapNum + 1, FreemapNum + 1, g)>>
  /\ file = NoFile
  /\ item = NoItem
  /\ pc = "walk"
  /\ where = [n \in {Root} |-> FreemapNum + 1]
-----------------------------------------------------------------------------
(* Storing to the image.                                                   *)

\* copyInodeToBlock.
PutInode(im, b, inode) ==
  [im EXCEPT !.inode[b] = inode,
             !.items[b] = [k \in 0 .. ItemsPerBlock - 1 |-> StaleItem],
             !.data[b]  = [j \in 0 .. BlockSize - 1 |-> StaleByte]]

\* inaddr[k] = it.  A store behind the image is lost.
PutItem(im, b, k, it) ==
  LET c == b + k \div ItemsPerBlock
  IN  IF c \notin Block THEN im
      ELSE [im EXCEPT !.items[c][k % ItemsPerBlock] = it,
                      !.inode[c] = StaleInode,
                      !.data[c]  = [j \in 0 .. BlockSize - 1 |-> StaleByte]]

\* fread of the next size bytes of the file.
PutBytes(im, b, n, from, size) ==
  [im EXCEPT !.data[b]  = [j \in 0 .. BlockSize - 1 |->
                             IF j < size THEN <<n, from + j>> ELSE im.data[b][j]],
             !.inode[b] = StaleInode,
             !.items[b] = [k \in 0 .. ItemsPerBlock - 1 |-> StaleItem]]

\* getFreeBlock returns the first free block; there are enough for k calls.
Free           == {b \in Block : freemap[b] = 0}
Enough(k)      == Cardinality(Free) >= k
FreeBlock(k)   == CHOOSE b \in Free : Cardinality({c \in Free : c < b}) = k - 1

TakeBlocks(k)  == /\ freemap' = [b \in Block |-> IF \E j \in 1 .. k : b = FreeBlock(j)
                                                   THEN 1 ELSE freemap[b]]
                  /\ freenum' = freenum - k

\* InodeItems numbered blockIndex (of a file) or emptyIndex (of a directory)
\* go to direct or to the indirect block, which is allocated when the first one
\* is needed - as seen by the value of indirect.  The mutant does not look.
NeedsIndirectEachTime(inode, i) == i >= NDirect
NeedsIndirect(inode, i) == i >= NDirect /\ inode.indirect = 0

\* The inode with the item, and the image, if the indirect block is fresh.
WithItem(inode, i, it, fresh) ==
  IF i < NDirect THEN [inode EXCEPT !.direct[i] = it]
  ELSE IF NeedsIndirect(inode, i) THEN [inode EXCEPT !.indirect = fresh] ELSE inode

\* The mutant does not subtract the number of direct items.
StoreItemUnshifted(im, inode, i, it) ==
  IF i < NDirect THEN im ELSE PutItem(im, inode.indirect, i, it)
StoreItem(im, inode, i, it) ==
  IF i < NDirect THEN im ELSE PutItem(im, inode.indirect, i - NDirect, it)
-----------------------------------------------------------------------------
(* walk.                                                                   *)

\* readdir has returned entry n of the directory.
Readdir(n) ==
  /\ pc = "walk"
  /\ n \in Top.todo
Placed(n, b) == [m \in DOMAIN where \cup {n} |-> IF m = n THEN b ELSE where[m]]
Dropped(n) == [stack EXCEPT ![Len(stack)].todo = @ \ {n}]

\* Neither a directory nor a regular file.
SkipEntry(n) ==
  /\ Readdir(n)
  /\ tree[n].kind \notin {"dir", "reg"}
  /\ stack' = Dropped(n)
  /\ UNCHANGED <<tree, freemap, freenum, file, item, pc, where, image>>

\* The entry ".." of a subdirectory; the mutant gives it its own block.
UpperIsSelf(num) == num
Upper(num) == Top.num

EnterDir(n) ==
  /\ Readdir(n)
  /\ tree[n].kind = "dir"
  /\ Enough(1)
  /\ TakeBlocks(1)
  /\ \E g \in Leftover :
       stack' = Append(Dropped(n), Walk(n, FreeBlock(1), Upper(FreeBlock(1)), g))
  /\ where' = Placed(n, FreeBlock(1))
  /\ UNCHANGED <<tree, file, item, pc, image>>

\* The number of blocks of a file, in uint32 arithmetic.
BlocksOf(size) == ((size - 1) % Word) \div BlockSize + 1

StartFile(n) ==
  /\ Readdir(n)
  /\ tree[n].kind = "reg"
  /\ Enough(1)
  /\ TakeBlocks(1)
  /\ \E g \in Leftover :
       file' = [node |-> n, num |-> FreeBlock(1), left |-> tree[n].size, blockIndex |-> 0,
                inode |-> [NewInode(n, TYPE_FILE, tree[n].size, g) EXCEPT
                             !.blocks = BlocksOf(tree[n].size)]]
  /\ stack' = Dropped(n)
  /\ where' = Placed(n, FreeBlock(1))
  /\ pc' = "copy"
  /\ UNCHANGED <<tree, item, image>>

\* One pass of while(l).
Demand == IF NeedsIndirect(file.inode, file.blockIndex) THEN 2 ELSE 1
CopyBlock ==
  LET size  == Min({file.left, BlockSize})
      it    == [filename |-> "", block |-> FreeBlock(1)]
      inode == WithItem(file.inode, file.blockIndex, it, FreeBlock(Demand))
      from  == file.inode.size - file.left
  IN  /\ pc = "copy"
      /\ file.left > 0
      /\ Enough(Demand)
      /\ TakeBlocks(Demand)
      /\ image' = StoreItem(PutBytes(image, FreeBlock(1), file.node, from, size),
                            inode, file.blockIndex, it)
      /\ file' = [file EXCEPT !.left = @ - size, !.blockIndex = @ + 1, !.inode = inode]
      /\ UNCHANGED <<tree, stack, item, pc, where>>

CloseFile ==
  /\ pc = "copy"
  /\ file.left = 0
  /\ image' = PutInode(image, file.num, file.inode)
  /\ item' = [filename |-> file.inode.filename, block |-> file.num]
  /\ file' = NoFile
  /\ pc' = "add"
  /\ UNCHANGED <<tree, freemap, freenum, stack, where>>

\* The end of an iteration: the entry is added to the directory.
AddDemand == IF NeedsIndirect(Top.inode, Top.emptyIndex) THEN 1 ELSE 0
AddItem ==
  LET i     == Top.emptyIndex
      inode == WithItem(Top.inode, i, item, FreeBlock(AddDemand))
  IN  /\ pc = "add"
      /\ Enough(AddDemand)
      /\ TakeBlocks(AddDemand)
      /\ image' = StoreItem(image, inode, i, item)
      /\ stack' = [stack EXCEPT ![Len(stack)].inode = inode, ![Len(stack)].emptyIndex = i + 1]
      /\ item' = NoItem
      /\ pc' = "walk"
      /\ UNCHANGED <<tree, file, where>>

\* walk returns: the inode gets its number of entries.
Closed(frame) == [frame.inode EXCEPT !.blocks = frame.emptyIndex]

LeaveDir ==
  /\ pc = "walk"
  /\ Len(stack) > 1
  /\ Top.todo = {}
  /\ image' = PutInode(image, Top.num, Closed(Top))
  /\ item' = [filename |-> Top.inode.filename, block |-> Top.num]
  /\ stack' = SubSeq(stack, 1, Len(stack) - 1)
  /\ pc' = "add"
  /\ UNCHANGED <<tree, freemap, freenum, file, where>>

\* main after walk: super block, freemap (one bit per block) and root inode.
Weight == <<1, 2, 4, 8, 16, 32, 64, 128>>
MapByte(i) ==
  LET bit(j) == freemap[8 * i + j] * Weight[j + 1]
  IN  bit(0) + bit(1) + bit(2) + bit(3) + bit(4) + bit(5) + bit(6) + bit(7)
WriteImage ==
  /\ pc = "walk"
  /\ Len(stack) = 1
  /\ Top.todo = {}
  /\ image' = PutInode([image EXCEPT
                          !.super = [blocks |-> BlockNum, unusedBlocks |-> freenum,
                                     freemapBlocks |-> FreemapNum],
                          !.inode[0].type = BlockNum,
                          !.freemap = [i \in 0 .. BlockNum \div 8 - 1 |-> MapByte(i)]],
                       FreemapNum + 1, Closed(Top))
  /\ pc' = "done"
  /\ UNCHANGED <<tree, freemap, freenum, stack, file, item, where>>

\* getFreeBlock finds no block and the program exits without an image.
OutOfBlocks ==
  /\ \/ pc = "walk" /\ ~Enough(1) /\ \E n \in Top.todo : tree[n].kind \in {"dir", "reg"}
     \/ pc = "copy" /\ file.left > 0 /\ ~Enough(Demand)
     \/ pc = "add" /\ ~Enough(AddDemand)
  /\ pc' = "failed"
  /\ UNCHANGED <<tree, freemap, freenum, stack, file, item, where, image>>

Finished == pc \in {"done", "failed"} /\ UNCHANGED vars

Build ==
  \/ \E n \in DOMAIN tree : SkipEntry(n) \/ EnterDir(n) \/ StartFile(n)
  \/ CopyBlock \/ CloseFile \/ AddItem \/ LeaveDir \/ WriteImage \/ OutOfBlocks

Next == Build \/ Finished
Spec == Init /\ [][Next]_vars
-----------------------------------------------------------------------------
(* What the image has to be for its readers.                               *)

\* Types of the state: block numbers stay inside the image, and the two
\* counts of free blocks agree.
TypeOK ==
  /\ freemap \in [Block -> 0 .. 1]
  /\ freenum = Cardinality(Free)
  /\ DOMAIN where \subseteq DOMAIN tree
  /\ \A n \in DOMAIN where : where[n] \in Block
  /\ \A i \in DOMAIN stack : stack[i].num = where[stack[i].dir]
  /\ \A b \in Block, k \in 0 .. ItemsPerBlock - 1 : image.items[b][k].block \in Block
  /\ pc \in {"walk", "copy", "add", "done", "failed", "linked"}

InodeOf(n) == image.inode[where[n]]

\* The components as a path with single slashes.
Spelled(names) ==
  [i \in 1 .. 2 * Len(names) - 1 |-> IF i % 2 = 1 THEN names[(i + 1) \div 2] ELSE "/"]
Names == {tree[n].name : n \in DOMAIN tree \ {Root}} \cup {".", "..", "missing"}

NoLongDir == \A n \in Dirs : InodeOf(n).blocks <= NDirect

\* As long as no directory needs an indirect block, lookup finds in the image what
\* a path names on the host: relative and absolute paths, from every directory
\* and from the null pointer, through "." and "..", with and without a slash at
\* the end, and nothing for a name that is not there or a path that goes on
\* behind a file.
LookupIsResolve ==
  pc = "done" /\ NoLongDir =>
    \A names \in UNION {[1 .. k -> Names] : k \in 1 .. PathDepth}, n \in Dirs :
      LET path  == Spelled(names)
          At(m) == LET found == Resolve(m, path)
                   IN  IF found = Nowhere THEN NULL ELSE where[found]
      IN  /\ lookup[where[n], path] = At(n)
          /\ lookup[where[n], path \o <<"/">>] = At(n)
          /\ lookup[where[n], <<"/">> \o path] = At(Root)
          /\ lookup[NULL, path] = At(Root)

\* "在当前 Inode 所代表的文件夹中查找目标路径的 Inode" in fs.c: lookup finds in a
\* directory every entry it has.
LookupFindsEntries ==
  pc = "done" =>
    \A n \in Packed \ {Root} : lookup[where[tree[n].parent], <<tree[n].name>>] = where[n]

\* The path that pwd prints for a directory is its path on the host, and leads
\* back to it (as long as no directory needs an indirect block).
PathLeadsBack ==
  pc = "done" => \A n \in Dirs : LET path == getInodePath(where[n])
                                 IN  /\ path = PathOf(n)
                                     /\ NoLongDir => lookup[NULL, path] = where[n]

\* readall returns every file as it was on the host.
FilesReadBack ==
  pc = "done" =>
    \A n \in Files : /\ InodeOf(n).type = TYPE_FILE
                     /\ readall(InodeOf(n)) = [j \in 0 .. tree[n].size - 1 |-> <<n, j>>]

\* ls lists every entry of a directory once, and nothing else.
LsIsComplete ==
  pc = "done" =>
    \A n \in Dirs :
      LET list == ls(InodeOf(n))
      IN  /\ {list[i] : i \in DOMAIN list} = Listing(n)
          /\ Len(list) = Cardinality(Listing(n))

\* What each block is used for, as a reader follows the image.
Tables == {n \in Dirs : InodeOf(n).blocks > NDirect} \cup {n \in Files : tree[n].size > NDirect * BlockSize}
Claims ==
  {<<0, "super", Root, 0>>} \cup {<<b, "map", Root, b>> : b \in 1 .. FreemapNum}
  \cup {<<where[n], "inode", n, 0>> : n \in Packed}
  \cup {<<InodeOf(n).indirect, "items", n, 0>> : n \in Tables}
  \cup UNION {{<<ItemOf(InodeOf(n), i).block, "data", n, i>> :
                 i \in {j \div BlockSize : j \in 0 .. tree[n].size - 1}} : n \in Files}
MarkedUsed(b) == (image.freemap[b \div 8] \div Weight[(b % 8) + 1]) % 2 = 1

\* The state keeps its types while the image is built, and in the end no block
\* serves two purposes; the freemap in the image marks exactly the blocks that
\* are in use, and the super block counts the others.
BlocksAreOwnedOnce ==
  /\ TypeOK
  /\ pc = "done" =>
       /\ \A c, d \in Claims : c[1] = d[1] => c = d
       /\ \A b \in Block : MarkedUsed(b) <=> \E c \in Claims : c[1] = b
       /\ image.super.unusedBlocks = Cardinality({b \in Block : ~MarkedUsed(b)})
=============================================================================
