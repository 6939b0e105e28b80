------------------------------ MODULE Mapping ------------------------------
(***************************************************************************)
(* kernel/mapping.c and kernel/elf.c: the three-level page tables of the   *)
(* kernel and of the processes, and how an ELF file gets into memory.      *)
(*                                                                         *)
(* Addresses are byte addresses, pages have PageSize bytes and tables Fan  *)
(* entries.  One step is one level of findEntry or one page of a segment.  *)
(* A frame is both a table (entries) and a page of bytes (bytes); that no  *)
(* frame is used as both is a property.  Frames come from module           *)
(* FrameAllocator, by its contract: some managed frame that is not held.   *)
(* Nothing ever gives one back.                                            *)
(*                                                                         *)
(* Two history variables: spaces holds the address spaces that were        *)
(* finished, role tells what each frame was allocated for (0: free).       *)
(***************************************************************************)
EXTENDS Integers, Sequences

CONSTANTS Fan, PageSize,
          TextStart, RodataStart, DataStart, BssStart, KernelEnd, MemoryEnd,
                            \* physical pages of the kernel, and of the memory's end
          Devices,          \* physical pages of the interrupt controller and UART
          PageOffset,       \* KERNEL_PAGE_OFFSET
          StackStart, StackSize,
          Program,          \* the files that may be executed
          IsElf, Header     \* their magic numbers and program headers

Flag == {"V", "R", "W", "X", "U"}

ASSUME MappingAssumption ==
  /\ Fan \in Nat \ {0} /\ PageSize \in Nat \ {0}
  /\ \A n \in {TextStart, RodataStart, DataStart, BssStart, KernelEnd, MemoryEnd,
               PageOffset, StackStart, StackSize} : n \in Nat \ {0}
  /\ TextStart <= RodataStart /\ RodataStart <= DataStart /\ DataStart <= BssStart
  /\ BssStart <= KernelEnd /\ KernelEnd < MemoryEnd
  /\ MemoryEnd + PageOffset <= Fan * Fan * Fan
  /\ Devices \in Seq(0 .. TextStart - 1)
  /\ StackStart % PageSize = 0
  /\ StackStart + StackSize <= (PageOffset + TextStart) * PageSize
  /\ IsElf \in [Program -> BOOLEAN]
  /\ Header \in [Program -> Seq([load : BOOLEAN, vaddr : Nat \ {0}, filesz : Nat, memsz : Nat,
                                 flags : SUBSET {"R", "W", "X"}])]
  /\ "kernel" \notin Program

\* What the link of a user program guarantees: no empty segment, and all of them
\* at addresses that a page table can translate.
ASSUME LinkAssumption ==
  \A p \in Program : \A j \in DOMAIN Header[p] : Header[p][j].load =>
    Header[p][j].memsz > 0 /\ Header[p][j].vaddr + Header[p][j].memsz <= Fan * Fan * Fan * PageSize

VARIABLES pc,
          held,             \* the frames that are allocated
          role,             \* history: 1 .. 3 for a table of that level, 4 for a page
          entries, bytes,   \* what they contain
          prog, root,       \* the file being loaded (Kernel: none), its root table
          todo, last,       \* the segments still to be mapped; no more will follow
          seg, vpn, s, l,   \* locals of the three mapping functions
          table, level,     \* locals of findEntry
          satp,             \* the root of the active address space
          spaces            \* history: the finished address spaces

memVars  == <<held, role, entries, bytes>>
jobVars  == <<prog, root, todo, last>>
segVars  == <<seg, vpn, s, l>>
findVars == <<table, level>>
vars == <<pc, memVars, jobVars, segVars, findVars, satp, spaces>>

Kernel == "kernel"      \* the "program" of the address space mapKernel builds
Boot   == DataStart     \* bootpagetable of entry.asm

Idx     == 0 .. Fan - 1
Offset  == 0 .. PageSize - 1
Managed == KernelEnd + 1 .. MemoryEnd - 2
Vpn     == 0 .. Fan * Fan * Fan - 1

\* What a byte of a page contains: byte number i of the segment of program
\* header j of file p, or zero.
FileByte(p, j, i) == [prog |-> p, header |-> j, off |-> i]
Zero     == FileByte(Kernel, 0, 0)
ZeroPage == [o \in Offset |-> Zero]

\* Page table entries: 0, or a physical page with its flags.  One that only
\* has V points to the next table.
None              == [ppn |-> 0, flags |-> {}]
EmptyTable        == [i \in Idx |-> None]
Pointer(f)        == [ppn |-> f, flags |-> {"V"}]
Leaf(f, flags)    == [ppn |-> f, flags |-> flags \cup {"V"}]

\* The index of a page in the table of each level.
GetVpnLevels(v) == <<(v \div (Fan * Fan)) % Fan, (v \div Fan) % Fan, v % Fan>>
-----------------------------------------------------------------------------
(* The segments.  kind tells which of mapLinearSegment, mapFramedSegment   *)
(* and mapFramedAndCopy maps it.                                           *)

LinearSegment(from, to, flags) ==
  [kind |-> "linear", start |-> (from + PageOffset) * PageSize,
   end |-> (to + PageOffset) * PageSize, flags |-> flags, header |-> 0, length |-> 0]

\* newKernelMapping; the mutants leave out the memory behind the kernel, and
\* give the data segment to user mode.
KernelSegmentsOnly ==
  << LinearSegment(TextStart, RodataStart, {"R", "X"}),
     LinearSegment(RodataStart, DataStart, {"R"}),
     LinearSegment(DataStart, BssStart, {"R", "W"}),
     LinearSegment(BssStart, KernelEnd, {"R", "W"}) >>
KernelSegmentsForUser ==
  << LinearSegment(TextStart, RodataStart, {"R", "X"}),
     LinearSegment(RodataStart, DataStart, {"R"}),
     LinearSegment(DataStart, BssStart, {"R", "W", "U"}),
     LinearSegment(BssStart, KernelEnd, {"R", "W"}),
     LinearSegment(KernelEnd, MemoryEnd, {"R", "W"}) >>
KernelSegments ==
  << LinearSegment(TextStart, RodataStart, {"R", "X"}),
     LinearSegment(RodataStart, DataStart, {"R"}),
     LinearSegment(DataStart, BssStart, {"R", "W"}),
     LinearSegment(BssStart, KernelEnd, {"R", "W"}),
     LinearSegment(KernelEnd, MemoryEnd, {"R", "W"}) >>

\* mapExtInterruptArea
DeviceSegments ==
  [i \in 1 .. Len(Devices) |-> LinearSegment(Devices[i], Devices[i] + 1, {"R", "W"})]

\* convertElfFlags always adds U.
ConvertElfFlags(flags) == flags \cup {"U"}

\* One segment for each program header, which is skipped unless it is of type LOAD.
HeaderSegment(p, j) ==
  [kind |-> IF Header[p][j].load THEN "copy" ELSE "skip",
   start |-> Header[p][j].vaddr, end |-> Header[p][j].vaddr + Header[p][j].memsz,
   flags |-> ConvertElfFlags(Header[p][j].flags), header |-> j, length |-> Header[p][j].filesz]
HeaderSegments(p) == [j \in 1 .. Len(Header[p]) |-> HeaderSegment(p, j)]

StackSegment ==
  [kind |-> "framed", start |-> StackStart, end |-> StackStart + StackSize,
   flags |-> {"U", "R", "W"}, header |-> 0, length |-> 0]

\* The first page after a segment.
EndVpn(g) == (g.end - 1) \div PageSize + 1
-----------------------------------------------------------------------------
Depleted == Managed \subseteq held
Fresh    == CHOOSE f \in Managed : f \notin held

\* panic does not return.
Stop == pc' = "panic" /\ UNCHANGED <<memVars, jobVars, segVars, findVars, satp, spaces>>

\* initMemory has prepared the frames and calls mapKernel.
Init ==
  /\ pc = "mapKernel"
  /\ held = {} /\ role = [f \in Managed |-> 0]
  /\ entries = [f \in Managed |-> EmptyTable] /\ bytes = [f \in Managed |-> ZeroPage]
  /\ prog = Kernel /\ root = 0 /\ todo = <<>> /\ last = FALSE
  /\ seg = StackSegment /\ vpn = 0 /\ s = 0 /\ l = 0
  /\ table = 0 /\ level = 1
  /\ satp = Boot /\ spaces = {}

\* allocFrame clears the frame it returns.
AllocFrame(f, use) ==
  /\ ~Depleted /\ f = Fresh
  /\ held' = held \cup {f} /\ role' = [role EXCEPT ![f] = use]

\* newMapping, called by newKernelMapping
NewMapping(p) ==
  \E f \in Managed :
    /\ AllocFrame(f, 1)
    /\ entries' = [entries EXCEPT ![f] = EmptyTable]
    /\ bytes' = [bytes EXCEPT ![f] = ZeroPage]
    /\ prog' = p /\ root' = f
    /\ todo' = KernelSegments /\ last' = FALSE
    /\ pc' = "segment"
    /\ UNCHANGED <<segVars, findVars, satp, spaces>>

MapKernel == pc = "mapKernel" /\ NewMapping(Kernel)

\* The first half of newUserThread.
NewUserThread(p) ==
  /\ pc = "ready"
  /\ NewMapping(p) \/ (Depleted /\ Stop)

\* The kernel is mapped: on to the devices or to the file.
KernelMapped ==
  /\ pc = "segment" /\ todo = <<>> /\ ~last
  /\ \/ /\ prog = Kernel
        /\ todo' = DeviceSegments /\ last' = TRUE
        /\ UNCHANGED <<pc, memVars, prog, root, segVars, findVars, satp, spaces>>
     \/ /\ prog # Kernel /\ IsElf[prog]
        /\ todo' = Append(HeaderSegments(prog), StackSegment) /\ last' = TRUE
        /\ UNCHANGED <<pc, memVars, prog, root, segVars, findVars, satp, spaces>>
     \/ /\ prog # Kernel /\ ~IsElf[prog]
        /\ Stop

\* mapKernel activates its mapping.  newUserThread puts it in the new thread,
\* and switchContext activates it.
Finish ==
  /\ pc = "segment" /\ todo = <<>> /\ last
  /\ spaces' = spaces \cup {[prog |-> prog, root |-> root]}
  /\ satp' = IF prog = Kernel THEN root ELSE satp
  /\ pc' = "ready"
  /\ UNCHANGED <<memVars, jobVars, segVars, findVars>>

SwitchContext(space) ==
  /\ pc = "ready"
  /\ satp' = space.root
  /\ UNCHANGED <<pc, memVars, jobVars, segVars, findVars, spaces>>
-----------------------------------------------------------------------------
(* The loop over the pages of a segment.                                   *)

StartFind == table' = root /\ level' = 1

SkipSegment ==
  /\ pc = "segment" /\ todo # <<>> /\ Head(todo).kind = "skip"
  /\ todo' = Tail(todo)
  /\ UNCHANGED <<pc, memVars, prog, root, last, segVars, findVars, satp, spaces>>

StartSegment ==
  /\ pc = "segment" /\ todo # <<>> /\ Head(todo).kind # "skip"
  /\ seg' = Head(todo) /\ todo' = Tail(todo)
  /\ vpn' = Head(todo).start \div PageSize
  /\ s' = 0 /\ l' = Head(todo).length
  /\ StartFind
  /\ pc' = "page"
  /\ UNCHANGED <<memVars, prog, root, last, satp, spaces>>

EndSegment ==
  /\ pc = "page" /\ vpn >= EndVpn(seg)
  /\ pc' = "segment"
  /\ UNCHANGED <<memVars, jobVars, segVars, findVars, satp, spaces>>

Here == GetVpnLevels(vpn)[level]

\* findEntry creates a table where there is none.
NeedsTable == entries[table][Here] = None

FindEntry ==
  /\ pc = "page" /\ vpn < EndVpn(seg) /\ level < 3
  /\ \/ /\ ~NeedsTable
        /\ table' = entries[table][Here].ppn
        /\ UNCHANGED memVars
     \/ /\ NeedsTable
        /\ \E f \in Managed :
             /\ AllocFrame(f, level + 1)
             /\ entries' = [entries EXCEPT ![f] = EmptyTable, ![table][Here] = Pointer(f)]
             /\ bytes' = [bytes EXCEPT ![f] = ZeroPage]
             /\ table' = f
  /\ level' = level + 1
  /\ UNCHANGED <<pc, jobVars, segVars, satp, spaces>>

FindDepleted ==
  /\ pc = "page" /\ vpn < EndVpn(seg) /\ level < 3
  /\ NeedsTable /\ Depleted
  /\ Stop

\* The page is mapped already; the mutant does not look.
MappedNever   == FALSE
AlreadyMapped == entries[table][Here] # None

AtEntry == pc = "page" /\ vpn < EndVpn(seg) /\ level = 3

\* The next page of the segment.
NextPage ==
  /\ vpn' = vpn + 1
  /\ StartFind
  /\ UNCHANGED <<pc, jobVars, seg, satp, spaces>>

MapLinear ==
  /\ AtEntry /\ ~AlreadyMapped /\ seg.kind = "linear"
  /\ entries' = [entries EXCEPT ![table][Here] = Leaf(vpn - PageOffset, seg.flags)]
  /\ NextPage
  /\ UNCHANGED <<held, role, bytes, s, l>>

MapFramed ==
  /\ AtEntry /\ ~AlreadyMapped /\ seg.kind = "framed"
  /\ \E f \in Managed :
       /\ AllocFrame(f, 4)
       /\ entries' = [entries EXCEPT ![f] = EmptyTable, ![table][Here] = Leaf(f, seg.flags)]
       /\ bytes' = [bytes EXCEPT ![f] = ZeroPage]
  /\ NextPage
  /\ UNCHANGED <<s, l>>

\* What is left to copy after a page; the mutant does not stop at the end of
\* the file's part.
StillLeft == l
LeftAfter == IF l >= PageSize THEN l - PageSize ELSE 0

\* The copy goes to the start of the page.
MapFramedAndCopy ==
  /\ AtEntry /\ ~AlreadyMapped /\ seg.kind = "copy"
  /\ \E f \in Managed :
       /\ AllocFrame(f, 4)
       /\ entries' = [entries EXCEPT ![f] = EmptyTable, ![table][Here] = Leaf(f, seg.flags)]
       /\ bytes' = [bytes EXCEPT ![f] =
                      [o \in Offset |-> IF o < l THEN FileByte(prog, seg.header, s + o) ELSE Zero]]
  /\ s' = s + PageSize /\ l' = LeftAfter
  /\ NextPage

MapFails ==
  /\ AtEntry
  /\ AlreadyMapped \/ (seg.kind # "linear" /\ Depleted)
  /\ Stop

Stopped == pc = "panic" /\ UNCHANGED vars

Next ==
  \/ MapKernel \/ (\E p \in Program : NewUserThread(p))
  \/ KernelMapped \/ Finish \/ (\E space \in spaces : SwitchContext(space))
  \/ SkipSegment \/ StartSegment \/ EndSegment \/ FindEntry \/ FindDepleted
  \/ MapLinear \/ MapFramed \/ MapFramedAndCopy \/ MapFails
  \/ Stopped

Spec == Init /\ [][Next]_vars
-----------------------------------------------------------------------------
(* How the hart translates an address.                                     *)

IsPointer(e) == e # None /\ e.flags = {"V"}

\* The leaf the hart finds for page v below root table r, or None: a fault.
Walk(r, v) ==
  LET e1 == entries[r][v \div (Fan * Fan)]
      e2 == entries[e1.ppn][(v \div Fan) % Fan]
      e3 == entries[e2.ppn][v % Fan]
  IN  IF IsPointer(e1)
        THEN IF IsPointer(e2) THEN e3 ELSE None
        ELSE None

\* The pages that user mode can access.
UserMay(e) == "U" \in e.flags /\ e.flags \cap {"R", "W", "X"} # {}
UserPages(space) == {x \in {space} \X Vpn : UserMay(Walk(space.root, x[2]))}

\* The pages of a program and of its stack.
PagesOf(g) == {a \div PageSize : a \in g.start .. g.end - 1}
OwnPages(p) ==
  IF p = Kernel
    THEN {}
    ELSE (UNION {PagesOf(HeaderSegment(p, j)) : j \in {i \in DOMAIN Header[p] : Header[p][i].load}})
           \cup PagesOf(StackSegment)
-----------------------------------------------------------------------------
Entry == [ppn : 0 .. MemoryEnd - 1, flags : SUBSET Flag]
Byte  == [prog : Program \cup {Kernel}, header : Nat, off : Nat]
Segment == [kind : {"linear", "framed", "copy", "skip"}, start : Nat, end : Nat, flags : SUBSET Flag,
            header : Nat, length : Nat]

\* Types of the state: findEntry only ever follows entries to frames.
TypeOK ==
  /\ pc \in {"mapKernel", "ready", "segment", "page", "panic"}
  /\ held \subseteq Managed /\ role \in [Managed -> 0 .. 4]
  /\ entries \in [Managed -> [Idx -> Entry]] /\ bytes \in [Managed -> [Offset -> Byte]]
  /\ prog \in Program \cup {Kernel}
  /\ pc # "mapKernel" => root \in held
  /\ todo \in Seq(Segment) /\ last \in BOOLEAN
  /\ seg \in Segment /\ vpn \in Nat /\ s \in Nat /\ l \in Nat
  /\ level \in 1 .. 3
  /\ pc = "page" => table \in held
  /\ satp \in held \cup {Boot}
  /\ spaces \subseteq [prog : Program \cup {Kernel}, root : held]

\* The entries that own a frame: pointers to tables and user pages.
EntryAt(x) == entries[x[1]][x[2]]
Owners == {x \in held \X Idx : EntryAt(x) # None
                                /\ (IsPointer(EntryAt(x)) \/ "U" \in EntryAt(x).flags)}
Roots  == {space.root : space \in spaces} \cup ({root} \cap held)

\* The state keeps its types, and the tables form trees: findEntry, mapFramedSegment and mapFramedAndCopy
\* never let two entries, of one address space or of two, share a frame, and
\* never lose one.
FramesAreOwnedOnce ==
  LET owners == Owners
  IN  /\ TypeOK
      /\ {EntryAt(x).ppn : x \in owners} = held \ Roots
      /\ \A x, y \in owners : EntryAt(x).ppn = EntryAt(y).ppn => x = y

\* The kernel runs in whatever address space is active and reaches every frame
\* at its linear address: each address space, and the active one, maps the
\* whole memory there, for the kernel only.
LinearMapIntact ==
  \A r \in {space.root : space \in spaces} \cup {satp} : r # Boot =>
    \A p \in TextStart .. MemoryEnd - 1 :
      LET e == Walk(r, p + PageOffset)
      IN  e # None /\ e.ppn = p /\ "U" \notin e.flags /\ "R" \in e.flags
            /\ ("W" \in e.flags <=> p >= DataStart)

\* Isolation: in user mode a process reaches the pages of its program and its
\* stack and nothing else, and the frames behind them are no page tables and
\* are reached by no other process.
UserPagesArePrivate ==
  LET pages    == UNION {UserPages(space) : space \in spaces}
      Frame(x) == Walk(x[1].root, x[2]).ppn
  IN  /\ \A x \in pages : /\ x[2] \in OwnPages(x[1].prog)
                          /\ Frame(x) \in held /\ entries[Frame(x)] = EmptyTable
      /\ \A x, y \in pages : Frame(x) = Frame(y) => x = y

\* What a process finds at address a.
UserByte(r, a) == bytes[Walk(r, a \div PageSize).ppn][a % PageSize]

\* elf.c: the data of each LOAD segment is in memory at its address, what goes
\* beyond the file's part is empty, and so is the stack; loading another file
\* later changes nothing of it.
ImageLoaded ==
  \A space \in spaces : space.prog # Kernel =>
    /\ \A j \in 1 .. Len(Header[space.prog]) : Header[space.prog][j].load =>
         LET h == Header[space.prog][j]
         IN  \A i \in 0 .. h.memsz - 1 :
               LET e == Walk(space.root, (h.vaddr + i) \div PageSize)
               IN  /\ e # None /\ e.flags = h.flags \cup {"U", "V"}
                   /\ UserByte(space.root, h.vaddr + i) =
                        IF i < h.filesz THEN FileByte(space.prog, j, i) ELSE Zero
    /\ \A a \in StackStart .. StackStart + StackSize - 1 :
         /\ {"U", "W"} \subseteq Walk(space.root, a \div PageSize).flags
         /\ UserByte(space.root, a) = Zero
=============================================================================
