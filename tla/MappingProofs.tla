--------------------------- MODULE MappingProofs ---------------------------
(***************************************************************************)
(* What module Mapping promises, for every size of tables, pages, memory   *)
(* and kernel and for every set of programs.                               *)
(*                                                                         *)
(* The inductive invariant says that the frames form trees: the history    *)
(* variable role gives each frame its level, an entry that owns a frame    *)
(* leads one level down, and no two entries own the same frame.  On top of *)
(* that come, each with its own induction, the linear map, the pages of    *)
(* the users and the bytes in them.                                        *)
(***************************************************************************)
EXTENDS Mapping, TLAPS

Top(v)    == GetVpnLevels(v)[1]
Middle(v) == GetVpnLevels(v)[2]
Bottom(v) == GetVpnLevels(v)[3]

Building   == pc \in {"segment", "page"}
SpaceRoots == {space.root : space \in spaces}
Owns(t, i) == IsPointer(entries[t][i]) \/ "U" \in entries[t][i].flags

\* A frame is held when it has a role, and the root tables are those of the
\* address spaces.
RolesOK ==
  \A f \in Managed : (role[f] = 0 <=> f \notin held) /\ (role[f] = 1 <=> f \in Roots)

\* An entry leads from a table to one of the next level, or from a table of
\* the last level to a user's page or to the linear map.
EntryOK(t, e) ==
  \/ role[t] \in {1, 2} /\ IsPointer(e) /\ e.ppn \in Managed /\ role[e.ppn] = role[t] + 1
  \/ role[t] = 3 /\ "U" \in e.flags /\ e.ppn \in Managed /\ role[e.ppn] = 4
  \/ role[t] = 3 /\ "U" \notin e.flags /\ "R" \in e.flags
EntriesOK ==
  \A t \in Managed : \A i \in Idx : entries[t][i] # None => EntryOK(t, entries[t][i])

OwnedOnce ==
  \A t, u \in Managed : \A i, j \in Idx :
    Owns(t, i) /\ Owns(u, j) /\ entries[t][i].ppn = entries[u][j].ppn => t = u /\ i = j
AllOwned ==
  \A f \in Managed : role[f] \in 2 .. 4 =>
    \E t \in Managed : \E i \in Idx : Owns(t, i) /\ entries[t][i].ppn = f

\* findEntry is on its way down from the root.
FindOK ==
  pc = "page" =>
    /\ level = 1 => table = root
    /\ level = 2 => entries[root][Top(vpn)] = Pointer(table)
    /\ level = 3 => \E a \in Managed : /\ entries[root][Top(vpn)] = Pointer(a)
                                       /\ entries[a][Middle(vpn)] = Pointer(table)

\* The address space that is being built is not one of the finished ones.
JobOK ==
  /\ pc = "mapKernel" => held = {} /\ spaces = {}
  /\ Building => root \notin SpaceRoots
  /\ pc = "ready" => root \in SpaceRoots
  /\ satp \in SpaceRoots \cup {Boot}
  /\ \A a, b \in spaces : a.root = b.root => a = b

\* The segments of the address space of p.
LinearOK(g) ==
  /\ g.kind = "linear" /\ "R" \in g.flags /\ "U" \notin g.flags
  /\ PageOffset <= g.start \div PageSize /\ EndVpn(g) <= PageOffset + MemoryEnd
SegmentOf(p, g) ==
  \/ LinearOK(g)
  \/ g.kind = "skip"
  \/ p \in Program /\ g = StackSegment
  \/ p \in Program /\ \E j \in DOMAIN Header[p] : Header[p][j].load /\ g = HeaderSegment(p, j)
SegmentsOK ==
  /\ Building => \A k \in 1 .. Len(todo) : SegmentOf(prog, todo[k])
  /\ pc = "page" => /\ SegmentOf(prog, seg) /\ seg.kind # "skip"
                    /\ seg.start \div PageSize <= vpn

TreeInv ==
  /\ TypeOK /\ RolesOK /\ EntriesOK /\ OwnedOnce /\ AllOwned
  /\ FindOK /\ JobOK /\ SegmentsOK
-----------------------------------------------------------------------------
\* The linear map of root r has physical page p.
LinearAt(r, p) ==
  LET e == Walk(r, p + PageOffset)
  IN  e # None /\ e.ppn = p /\ "U" \notin e.flags /\ "R" \in e.flags
        /\ ("W" \in e.flags <=> p >= DataStart)

\* Segment g will map it.
Spans(g, v) == g.start \div PageSize <= v /\ v < EndVpn(g)
WillMap(g, p) ==
  /\ g.kind = "linear" /\ Spans(g, p + PageOffset)
  /\ "U" \notin g.flags /\ "R" \in g.flags /\ ("W" \in g.flags <=> p >= DataStart)

\* In the address space that is being built it is mapped, or yet to come.
Owed(p) ==
  \/ LinearAt(root, p)
  \/ \E k \in 1 .. Len(todo) : WillMap(todo[k], p)
  \/ pc = "page" /\ WillMap(seg, p) /\ vpn <= p + PageOffset

LinearInv ==
  \A p \in TextStart .. MemoryEnd - 1 :
    (\A r \in SpaceRoots : LinearAt(r, p)) /\ (Building => Owed(p))

\* User mode sees the program's own pages.
OwnInv ==
  \A v \in Vpn :
    /\ \A space \in spaces : UserMay(Walk(space.root, v)) => v \in OwnPages(space.prog)
    /\ Building => (UserMay(Walk(root, v)) => v \in OwnPages(prog))

\* The segments of user program p, and what is in page v of segment g.
Jobs(p) ==
  {HeaderSegment(p, j) : j \in {i \in DOMAIN Header[p] : Header[p][i].load}} \cup {StackSegment}
Before(g, v) == (v - g.start \div PageSize) * PageSize
Content(p, g, v) ==
  [o \in Offset |-> IF o < g.length - Before(g, v) THEN FileByte(p, g.header, Before(g, v) + o)
                                                   ELSE Zero]
PageAt(r, p, g, v) ==
  LET e == Walk(r, v)
  IN  e # None /\ e.flags = g.flags \cup {"V"} /\ bytes[e.ppn] = Content(p, g, v)

\* It is in memory, or yet to come.
Due(g, v) ==
  \/ PageAt(root, prog, g, v)
  \/ \E k \in 1 .. Len(todo) : todo[k] = g
  \/ pc = "page" /\ seg = g /\ vpn <= v

\* s and l are where mapFramedAndCopy is in the file.
CopyOK ==
  pc = "page" /\ seg.kind = "copy" =>
    /\ s = Before(seg, vpn)
    /\ l = IF seg.length >= s THEN seg.length - s ELSE 0

ImageInv ==
  /\ \A space \in spaces : space.prog # Kernel =>
       \A g \in Jobs(space.prog) : \A v \in Vpn :
         Spans(g, v) => PageAt(space.root, space.prog, g, v)
  /\ Building /\ last /\ prog # Kernel =>
       \A g \in Jobs(prog) : \A v \in Vpn : Spans(g, v) => Due(g, v)
  /\ CopyOK
-----------------------------------------------------------------------------
(* Facts about numbers, constants and segments.                            *)

\* Division by a positive number.
LEMMA DivFacts ==
  ASSUME NEW a \in Nat, NEW b \in Nat \ {0}
  PROVE  /\ a \div b \in Nat /\ a % b \in 0 .. b - 1
         /\ a = b * (a \div b) + (a % b)
  BY SMT

LEMMA DivLess ==
  ASSUME NEW a \in Nat, NEW b \in Nat \ {0}, NEW c \in Nat, a < b * c
  PROVE  a \div b < c
  BY SMT

LEMMA DivMono ==
  ASSUME NEW a \in Nat, NEW b \in Nat \ {0}, NEW c \in Nat, a <= c
  PROVE  a \div b <= c \div b
  BY SMT

LEMMA DivUnique ==
  ASSUME NEW a \in Nat, NEW b \in Nat \ {0}, NEW q \in Nat, b * q <= a, a < b * q + b
  PROVE  a \div b = q /\ a % b = a - b * q
<1>1. a \div b = q
  BY SMT
<1>2. a \in Nat /\ b \in Nat \ {0} /\ a % b \in Int /\ a = b * (a \div b) + (a % b)
  BY DivFacts
<1> QED
  BY <1>1, <1>2

LEMMA Constants ==
  /\ Fan \in Nat \ {0} /\ PageSize \in Nat \ {0}
  /\ TextStart \in Nat /\ RodataStart \in Nat /\ DataStart \in Nat /\ BssStart \in Nat
  /\ KernelEnd \in Nat /\ MemoryEnd \in Nat /\ PageOffset \in Nat \ {0}
  /\ StackStart \in Nat \ {0} /\ StackSize \in Nat \ {0}
  /\ TextStart <= RodataStart /\ RodataStart <= DataStart /\ DataStart <= BssStart
  /\ BssStart <= KernelEnd /\ KernelEnd < MemoryEnd
  /\ MemoryEnd + PageOffset <= Fan * Fan * Fan
  BY MappingAssumption

LEMMA Levels ==
  ASSUME NEW v \in Nat
  PROVE  Top(v) \in Idx /\ Middle(v) \in Idx /\ Bottom(v) \in Idx
<1>1. Fan * Fan \in Nat \ {0}
  BY Constants
<1>2. v \div (Fan * Fan) \in Nat /\ v \div Fan \in Nat
  BY <1>1, Constants, DivFacts
<1>3. \A n \in Nat : n % Fan \in 0 .. Fan - 1
  BY Constants, DivFacts
<1> QED
  BY <1>2, <1>3 DEF Top, Middle, Bottom, GetVpnLevels, Idx

\* The pages of a segment of the linear map.
LEMMA LinearPages ==
  ASSUME NEW from \in Nat, NEW to \in Nat, NEW flags \in SUBSET Flag
  PROVE  /\ LinearSegment(from, to, flags) \in Segment
         /\ LinearSegment(from, to, flags).start \div PageSize = from + PageOffset
         /\ EndVpn(LinearSegment(from, to, flags)) = to + PageOffset
<1> DEFINE g == LinearSegment(from, to, flags)
<1>1. g \in Segment /\ g.start = (from + PageOffset) * PageSize
                    /\ g.end = (to + PageOffset) * PageSize
  BY Constants DEF LinearSegment, Segment
<1>2. g.start \div PageSize = from + PageOffset
  <2>1. from + PageOffset \in Nat /\ g.start = PageSize * (from + PageOffset)
    BY <1>1, Constants, SMT
  <2> QED
    BY <2>1, Constants, DivUnique, SMT
<1>3. (g.end - 1) \div PageSize = to + PageOffset - 1
  <2>1. to + PageOffset - 1 \in Nat /\ g.end = PageSize * (to + PageOffset - 1) + PageSize
    BY <1>1, Constants, SMT
  <2> DEFINE a == g.end - 1
             q == to + PageOffset - 1
  <2>2. a \in Nat /\ PageSize * q <= a /\ a < PageSize * q + PageSize
    BY <2>1, Constants, SMT
  <2>3. q \in Nat
    BY <2>1
  <2> HIDE DEF a, q
  <2>4. a \div PageSize = q
    BY <2>2, <2>3, Constants, DivUnique
  <2> QED
    BY <2>4 DEF a, q
<1> QED
  BY <1>1, <1>2, <1>3, Constants DEF EndVpn

LEMMA KernelSegmentFacts ==
  /\ KernelSegments \in Seq(Segment)
  /\ \A p : \A k \in 1 .. Len(KernelSegments) : SegmentOf(p, KernelSegments[k])
<1>1. \A a, b \in Nat : \A flags \in SUBSET Flag :
        a <= b /\ b <= MemoryEnd /\ "R" \in flags /\ "U" \notin flags =>
          LinearSegment(a, b, flags) \in Segment /\ LinearOK(LinearSegment(a, b, flags))
  <2> SUFFICES ASSUME NEW a \in Nat, NEW b \in Nat, NEW flags \in SUBSET Flag,
                      a <= b, b <= MemoryEnd, "R" \in flags, "U" \notin flags
               PROVE  LinearSegment(a, b, flags) \in Segment
                      /\ LinearOK(LinearSegment(a, b, flags))
    OBVIOUS
  <2>1. /\ LinearSegment(a, b, flags) \in Segment
        /\ LinearSegment(a, b, flags).start \div PageSize = a + PageOffset
        /\ EndVpn(LinearSegment(a, b, flags)) = b + PageOffset
    BY LinearPages
  <2>2. LinearSegment(a, b, flags).kind = "linear" /\ LinearSegment(a, b, flags).flags = flags
    BY DEF LinearSegment
  <2> QED
    BY <2>1, <2>2, Constants DEF LinearOK
<1> DEFINE s1 == LinearSegment(TextStart, RodataStart, {"R", "X"})
           s2 == LinearSegment(RodataStart, DataStart, {"R"})
           s3 == LinearSegment(DataStart, BssStart, {"R", "W"})
           s4 == LinearSegment(BssStart, KernelEnd, {"R", "W"})
           s5 == LinearSegment(KernelEnd, MemoryEnd, {"R", "W"})
<1>2. /\ s1 \in Segment /\ LinearOK(s1)
      /\ s2 \in Segment /\ LinearOK(s2)
      /\ s3 \in Segment /\ LinearOK(s3)
      /\ s4 \in Segment /\ LinearOK(s4)
      /\ s5 \in Segment /\ LinearOK(s5)
  BY <1>1, Constants DEF Flag
<1>3. KernelSegments = <<s1, s2, s3, s4, s5>>
  BY DEF KernelSegments
<1> HIDE DEF s1, s2, s3, s4, s5
<1>4. \A k \in 1 .. Len(KernelSegments) : LinearOK(KernelSegments[k])
  BY <1>2, <1>3
<1> QED
  BY <1>2, <1>3, <1>4 DEF SegmentOf

LEMMA DeviceSegmentFacts ==
  /\ DeviceSegments \in Seq(Segment)
  /\ \A p : \A k \in 1 .. Len(DeviceSegments) : SegmentOf(p, DeviceSegments[k])
<1> DEFINE n == Len(Devices)
           Low == 0 .. TextStart - 1
<1>0. Devices \in Seq(Low)
  BY MappingAssumption
<1> HIDE DEF Low
<1>1. n \in Nat /\ \A k \in 1 .. n : Devices[k] \in Low
  BY <1>0
<1> USE DEF Low
<1>2. ASSUME NEW k \in 1 .. n
      PROVE  DeviceSegments[k] \in Segment /\ LinearOK(DeviceSegments[k])
  <2>1. DeviceSegments[k] = LinearSegment(Devices[k], Devices[k] + 1, {"R", "W"})
    BY DEF DeviceSegments
  <2> DEFINE g == LinearSegment(Devices[k], Devices[k] + 1, {"R", "W"})
  <2>2. Devices[k] \in Nat /\ Devices[k] + 1 \in Nat /\ Devices[k] + 1 <= MemoryEnd
    BY <1>1, Constants
  <2>3. g \in Segment /\ g.start \div PageSize = Devices[k] + PageOffset
                      /\ EndVpn(g) = Devices[k] + 1 + PageOffset
    BY <2>2, LinearPages DEF Flag
  <2>4. g.kind = "linear" /\ g.flags = {"R", "W"}
    BY DEF LinearSegment
  <2> QED
    BY <2>1, <2>2, <2>3, <2>4, Constants DEF LinearOK
<1>3. DeviceSegments = [k \in 1 .. n |-> DeviceSegments[k]]
  BY DEF DeviceSegments
<1>4. DeviceSegments \in Seq(Segment) /\ Len(DeviceSegments) = n
  BY <1>1, <1>2, <1>3
<1> QED
  BY <1>2, <1>4 DEF SegmentOf

LEMMA StackSegmentFacts ==
  /\ StackSegment \in Segment
  /\ StackSegment.kind = "framed" /\ StackSegment.flags = {"U", "R", "W"}
  BY Constants DEF StackSegment, Segment, Flag

LEMMA HeaderSegmentFacts ==
  ASSUME NEW p \in Program, NEW j \in DOMAIN Header[p]
  PROVE  /\ HeaderSegment(p, j) \in Segment
         /\ HeaderSegment(p, j).kind = IF Header[p][j].load THEN "copy" ELSE "skip"
         /\ "U" \in HeaderSegment(p, j).flags
<1> DEFINE H == [load : BOOLEAN, vaddr : Nat \ {0}, filesz : Nat, memsz : Nat,
                 flags : SUBSET {"R", "W", "X"}]
<1>1. Header[p] \in Seq(H)
  BY MappingAssumption
<1> HIDE DEF H
<1>2. Header[p][j] \in H /\ j \in Nat
  BY <1>1
<1> USE DEF H
<1> QED
  BY <1>2 DEF HeaderSegment, ConvertElfFlags, Segment, Flag

LEMMA UserSegmentFacts ==
  ASSUME NEW p \in Program
  PROVE  LET todos == Append(HeaderSegments(p), StackSegment)
         IN  /\ HeaderSegments(p) \in Seq(Segment) /\ Len(HeaderSegments(p)) = Len(Header[p])
             /\ todos \in Seq(Segment)
             /\ \A k \in 1 .. Len(todos) : SegmentOf(p, todos[k])
<1> DEFINE n == Len(Header[p])
           hs == HeaderSegments(p)
           todos == Append(hs, StackSegment)
<1>1. n \in Nat /\ DOMAIN Header[p] = 1 .. n
  BY MappingAssumption
<1>2. hs = [j \in 1 .. n |-> HeaderSegment(p, j)]
  BY DEF HeaderSegments
<1>3. \A j \in 1 .. n : hs[j] = HeaderSegment(p, j) /\ hs[j] \in Segment /\ SegmentOf(p, hs[j])
  BY <1>1, <1>2, HeaderSegmentFacts DEF SegmentOf
<1>4. hs = [j \in 1 .. n |-> hs[j]]
  BY <1>2
<1>5. hs \in Seq(Segment) /\ Len(hs) = n
  BY <1>1, <1>3, <1>4, SMTT(30)
<1>6. SegmentOf(p, StackSegment)
  BY DEF SegmentOf
<1> HIDE DEF hs
<1>7. todos \in Seq(Segment) /\ Len(todos) = n + 1 /\ todos[n + 1] = StackSegment
        /\ \A k \in 1 .. n : todos[k] = hs[k]
  BY <1>1, <1>5, StackSegmentFacts
<1>8. \A k \in 1 .. Len(todos) : SegmentOf(p, todos[k])
  BY <1>1, <1>3, <1>6, <1>7
<1> QED
  BY <1>5, <1>7, <1>8 DEF hs
-----------------------------------------------------------------------------
(* The tree.                                                               *)

\* How a step changes the memory: it gives frame f a role, clears it, writes an
\* entry of table t.
GivesRole(f, use) ==
  /\ f \notin held /\ held' = held \cup {f} /\ held' \subseteq Managed
  /\ role' \in [Managed -> 0 .. 4]
  /\ \A g \in Managed : role'[g] = IF g = f THEN use ELSE role[g]
ClearsAndWrites(f, t, i, e) == entries' = [entries EXCEPT ![f] = EmptyTable, ![t][i] = e]
Writes(t, i, e) ==
  /\ entries[t][i] = None /\ entries' \in [Managed -> [Idx -> Entry]]
  /\ \A u \in Managed : \A j \in Idx :
       entries'[u][j] = IF u = t /\ j = i THEN e ELSE entries[u][j]

LEMMA Alloc ==
  ASSUME NEW f \in Managed, NEW use \in 1 .. 4, TypeOK, AllocFrame(f, use)
  PROVE  GivesRole(f, use)
<1>1. \E g \in Managed : g \notin held
  BY DEF AllocFrame, Depleted
<1>2. Fresh \notin held
  BY <1>1 DEF Fresh
<1> QED
  BY <1>2 DEF AllocFrame, TypeOK, GivesRole

LEMMA EntryFacts ==
  /\ None \in Entry /\ ~IsPointer(None) /\ "U" \notin None.flags
  /\ \A f \in Managed : Pointer(f) \in Entry /\ IsPointer(Pointer(f)) /\ Pointer(f) # None
                        /\ Pointer(f).ppn = f
  /\ \A e \in Entry : IsPointer(e) => e = Pointer(e.ppn)
<1>1. \A f \in Managed : f \in 0 .. MemoryEnd - 1
  BY Constants DEF Managed
<1>2. Pointer(0) # None
  BY DEF Pointer, None
<1>3. None \in Entry /\ ~IsPointer(None) /\ "U" \notin None.flags
  BY Constants DEF None, Entry, IsPointer, Flag
<1>4. ASSUME NEW f \in Managed
      PROVE  Pointer(f) \in Entry /\ IsPointer(Pointer(f)) /\ Pointer(f) # None
             /\ Pointer(f).ppn = f
  BY <1>1, <1>4 DEF Pointer, None, Entry, IsPointer, Flag
<1>5. ASSUME NEW e \in Entry, IsPointer(e)
      PROVE  e = Pointer(e.ppn)
  BY <1>5 DEF Pointer, Entry, IsPointer
<1> QED
  BY <1>3, <1>4, <1>5

LEMMA LeafFacts ==
  ASSUME NEW p \in 0 .. MemoryEnd - 1, NEW flags \in SUBSET Flag, "R" \in flags \/ "U" \in flags
  PROVE  /\ Leaf(p, flags) \in Entry /\ ~IsPointer(Leaf(p, flags)) /\ Leaf(p, flags) # None
         /\ Leaf(p, flags).ppn = p /\ Leaf(p, flags).flags = flags \cup {"V"}
  BY DEF Leaf, Entry, IsPointer, None, Flag

\* A frame that is not held is an empty table, so clearing it changes nothing.
LEMMA FreeIsEmpty ==
  ASSUME TypeOK, RolesOK, EntriesOK, NEW f \in Managed, f \notin held
  PROVE  entries[f] = EmptyTable
<1>1. role[f] = 0
  BY DEF RolesOK
<1>2. \A i \in Idx : entries[f][i] = None
  BY <1>1 DEF EntriesOK, EntryOK
<1>3. entries[f] \in [Idx -> Entry]
  BY DEF TypeOK
<1> QED
  BY <1>2, <1>3 DEF EmptyTable

\* One entry is written, and perhaps a new frame cleared.
LEMMA Fill ==
  ASSUME TypeOK, RolesOK, EntriesOK, NEW f \in Managed, f \notin held,
         NEW t \in Managed, t # f, NEW i \in Idx, NEW e \in Entry,
         entries[t][i] = None, ClearsAndWrites(f, t, i, e)
  PROVE  Writes(t, i, e)
<1>1. entries[f] = EmptyTable
  BY FreeIsEmpty
<1>2. entries \in [Managed -> [Idx -> Entry]]
  BY DEF TypeOK
<1>3. entries' = [entries EXCEPT ![t][i] = e]
  <2>1. [entries EXCEPT ![f] = EmptyTable] = entries
    BY <1>1, <1>2
  <2> QED
    BY <2>1, <1>2 DEF ClearsAndWrites
<1> QED
  BY <1>2, <1>3 DEF Writes

\* A new frame is hung below an empty entry of a table.
LEMMA Hang ==
  ASSUME TypeOK, RolesOK, EntriesOK, OwnedOnce, AllOwned,
         NEW f \in Managed, NEW use \in 2 .. 4, NEW t \in Managed, NEW i \in Idx, NEW e \in Entry,
         GivesRole(f, use), Writes(t, i, e), role[t] + 1 = use, root \in held,
         e.ppn = f, e # None, (use < 4 /\ IsPointer(e)) \/ (use = 4 /\ "U" \in e.flags),
         UNCHANGED <<root, spaces>>
  PROVE  RolesOK' /\ EntriesOK' /\ OwnedOnce' /\ AllOwned'
<1> USE DEF GivesRole, Writes
<1>1. role[f] = 0 /\ t # f
  BY DEF RolesOK
<1>2. \A u \in Managed : role[u] \in 0 .. 4
  BY DEF TypeOK
<1>3. EntriesOK'
  <2> SUFFICES ASSUME NEW u \in Managed, NEW j \in Idx, entries'[u][j] # None
               PROVE  EntryOK(u, entries[u][j])'
    BY DEF EntriesOK
  <2>1. CASE u = t /\ j = i
    BY <2>1, <1>1, <1>2 DEF EntryOK, IsPointer
  <2>2. CASE ~(u = t /\ j = i)
    <3>1. entries'[u][j] = entries[u][j] /\ EntryOK(u, entries[u][j])
      BY <2>2 DEF EntriesOK
    <3>2. u # f
      BY <1>1, <3>1 DEF EntryOK
    <3>3. role'[u] = role[u]
      BY <3>2
    <3> QED
      BY <3>1, <3>3, <1>1, <1>2 DEF EntryOK, IsPointer
  <2> QED
    BY <2>1, <2>2
<1>4. \A u \in Managed : \A j \in Idx : Owns(u, j) => entries[u][j].ppn # f /\ ~(u = t /\ j = i)
  <2> SUFFICES ASSUME NEW u \in Managed, NEW j \in Idx, Owns(u, j)
               PROVE  entries[u][j].ppn # f /\ ~(u = t /\ j = i)
    OBVIOUS
  <2>1. entries[u][j] # None
    BY EntryFacts DEF Owns
  <2>2. EntryOK(u, entries[u][j])
    BY <2>1 DEF EntriesOK
  <2>3. entries[u][j].ppn \in Managed /\ role[entries[u][j].ppn] # 0
    BY <2>2, <1>2 DEF EntryOK, Owns, IsPointer
  <2> QED
    BY <2>1, <2>3, <1>1
<1>5. \A u \in Managed : \A j \in Idx : Owns(u, j)' <=> Owns(u, j) \/ (u = t /\ j = i)
  BY <1>4 DEF Owns, IsPointer
<1>6. OwnedOnce'
  BY <1>4, <1>5, SMTT(30) DEF OwnedOnce
<1>7. AllOwned'
  <2> SUFFICES ASSUME NEW g \in Managed, role'[g] \in 2 .. 4
               PROVE  \E u \in Managed : \E j \in Idx : Owns(u, j)' /\ entries'[u][j].ppn = g
    BY DEF AllOwned
  <2>1. CASE g = f
    BY <2>1, <1>5
  <2>2. CASE g # f
    <3>1. PICK u \in Managed : \E j \in Idx : Owns(u, j) /\ entries[u][j].ppn = g
      BY <2>2 DEF AllOwned
    <3>2. PICK j \in Idx : Owns(u, j) /\ entries[u][j].ppn = g
      BY <3>1
    <3>3. Owns(u, j)' /\ entries'[u][j].ppn = g
      BY <3>2, <1>4, <1>5
    <3> QED
      BY <3>3
  <2> QED
    BY <2>1, <2>2
<1>8. Roots' = Roots
  BY DEF Roots
<1>9. RolesOK'
  BY <1>1, <1>8 DEF RolesOK
<1> QED
  BY <1>3, <1>6, <1>7, <1>9

\* A page of the linear map owns nothing.
LEMMA Plug ==
  ASSUME TypeOK, RolesOK, EntriesOK, OwnedOnce, AllOwned,
         NEW t \in Managed, role[t] = 3, NEW i \in Idx, NEW e \in Entry,
         Writes(t, i, e), e # None, ~IsPointer(e), "U" \notin e.flags, "R" \in e.flags,
         UNCHANGED <<role, held, root, spaces>>
  PROVE  RolesOK' /\ EntriesOK' /\ OwnedOnce' /\ AllOwned'
<1> USE DEF Writes
<1>1. EntriesOK'
  BY DEF EntriesOK, EntryOK, IsPointer
<1>2. \A u \in Managed : \A j \in Idx :
        /\ Owns(u, j)' <=> Owns(u, j)
        /\ Owns(u, j) => entries'[u][j] = entries[u][j]
  BY EntryFacts DEF Owns, IsPointer
<1>3. OwnedOnce'
  BY <1>2 DEF OwnedOnce
<1>4. AllOwned'
  BY <1>2 DEF AllOwned
<1>5. RolesOK'
  BY DEF RolesOK, Roots
<1> QED
  BY <1>1, <1>3, <1>4, <1>5

\* Where findEntry is.
LEMMA Descent ==
  ASSUME TreeInv, pc = "page"
  PROVE  /\ root \in Managed /\ role[root] = 1 /\ root \in held
         /\ table \in Managed /\ table \in held /\ role[table] = level
         /\ vpn \in Nat /\ Here \in Idx
<1>1. root \in held /\ root \in Managed /\ table \in held /\ table \in Managed /\ vpn \in Nat
      /\ level \in {1, 2, 3}
  BY DEF TreeInv, TypeOK
<1>2. role[root] = 1
  BY <1>1 DEF TreeInv, RolesOK, Roots
<1>3. Here \in Idx
  BY <1>1, Levels DEF Here, Top, Middle, Bottom
<1>4. Top(vpn) \in Idx /\ Middle(vpn) \in Idx
  BY <1>1, Levels
<1>5. ASSUME NEW t \in Managed, NEW u \in Managed, NEW i \in Idx, entries[t][i] = Pointer(u),
             role[t] \in {1, 2}
      PROVE  role[u] = role[t] + 1
  <2>1. EntryOK(t, entries[t][i])
    BY <1>5, EntryFacts DEF TreeInv, EntriesOK
  <2> QED
    BY <2>1, <1>5, EntryFacts DEF EntryOK
<1>6. CASE level = 1
  BY <1>1, <1>2, <1>3, <1>6 DEF TreeInv, FindOK
<1>7. CASE level = 2
  <2>1. entries[root][Top(vpn)] = Pointer(table)
    BY <1>7 DEF TreeInv, FindOK
  <2> QED
    BY <2>1, <1>1, <1>2, <1>3, <1>4, <1>5, <1>7
<1>8. CASE level = 3
  <2>1. PICK a \in Managed : entries[root][Top(vpn)] = Pointer(a)
                             /\ entries[a][Middle(vpn)] = Pointer(table)
    BY <1>8 DEF TreeInv, FindOK
  <2>2. role[a] = 2
    BY <2>1, <1>1, <1>2, <1>4, <1>5
  <2>3. role[table] = 3
    BY <2>1, <2>2, <1>1, <1>4, <1>5
  <2> QED
    BY <2>3, <1>1, <1>2, <1>3, <1>8
<1> QED
  BY <1>1, <1>6, <1>7, <1>8

LEMMA InitTree == Init => TreeInv
<1> SUFFICES ASSUME Init PROVE TreeInv
  OBVIOUS
<1>1. TypeOK
  <2>1. EmptyTable \in [Idx -> Entry]
    BY EntryFacts DEF EmptyTable
  <2>2. ZeroPage \in [Offset -> Byte]
    BY DEF ZeroPage, Zero, FileByte, Byte
  <2>3. todo \in Seq(Segment)
    BY DEF Init
  <2>4. /\ held \subseteq Managed /\ role \in [Managed -> 0 .. 4]
        /\ entries \in [Managed -> [Idx -> Entry]] /\ bytes \in [Managed -> [Offset -> Byte]]
    BY <2>1, <2>2 DEF Init
  <2>5. seg \in Segment /\ vpn \in Nat /\ s \in Nat /\ l \in Nat /\ level \in 1 .. 3
    BY StackSegmentFacts DEF Init
  <2>6. spaces \subseteq [prog : Program \cup {Kernel}, root : held] /\ satp \in held \cup {Boot}
    BY DEF Init
  <2> QED
    BY <2>3, <2>4, <2>5, <2>6 DEF Init, TypeOK
<1>2. \A t \in Managed : \A i \in Idx : entries[t][i] = None /\ role[t] = 0
  BY DEF Init, EmptyTable
<1>3. EntriesOK /\ OwnedOnce /\ AllOwned
  <2>1. \A t \in Managed : \A i \in Idx : ~Owns(t, i)
    BY <1>2, EntryFacts DEF Owns
  <2>2. \A t \in Managed : role[t] \notin 2 .. 4
    BY DEF Init
  <2> QED
    BY <1>2, <2>1, <2>2 DEF EntriesOK, OwnedOnce, AllOwned
<1>4. RolesOK
  BY <1>2 DEF Init, RolesOK, Roots
<1> QED
  BY <1>1, <1>3, <1>4 DEF TreeInv, Init, FindOK, JobOK, SegmentsOK, SpaceRoots, Building

LEMMA SameTree ==
  ASSUME TreeInv, UNCHANGED memVars, Roots' = Roots
  PROVE  RolesOK' /\ EntriesOK' /\ OwnedOnce' /\ AllOwned'
<1>1. held' = held /\ role' = role /\ entries' = entries
  BY DEF memVars
<1>2. RolesOK'
  BY <1>1 DEF TreeInv, RolesOK
<1>3. EntriesOK'
  BY <1>1 DEF TreeInv, EntriesOK, EntryOK, IsPointer
<1>4. OwnedOnce'
  BY <1>1 DEF TreeInv, OwnedOnce, Owns, IsPointer
<1>5. AllOwned'
  BY <1>1 DEF TreeInv, AllOwned, Owns, IsPointer
<1> QED
  BY <1>2, <1>3, <1>4, <1>5

LEMMA StopTree ==
  ASSUME TreeInv, pc # "mapKernel", Stop
  PROVE  TreeInv'
<1>1. Roots' = Roots
  BY DEF Stop, Roots, memVars, jobVars
<1>2. RolesOK' /\ EntriesOK' /\ OwnedOnce' /\ AllOwned'
  BY <1>1, SameTree DEF Stop
<1>3. TypeOK'
  BY DEF TreeInv, Stop, TypeOK, memVars, jobVars, segVars, findVars
<1> QED
  BY <1>2, <1>3 DEF TreeInv, Stop, FindOK, JobOK, SegmentsOK, SpaceRoots, Building, memVars, jobVars

LEMMA NewMappingTree ==
  ASSUME TreeInv, pc \in {"mapKernel", "ready"}, NEW p \in Program \cup {Kernel}, NewMapping(p)
  PROVE  TreeInv' /\ entries' = entries
<1>0. PICK f \in Managed :
        /\ AllocFrame(f, 1)
        /\ entries' = [entries EXCEPT ![f] = EmptyTable]
        /\ bytes' = [bytes EXCEPT ![f] = ZeroPage]
        /\ prog' = p /\ root' = f
        /\ todo' = KernelSegments /\ last' = FALSE
        /\ pc' = "segment"
        /\ UNCHANGED <<segVars, findVars, satp, spaces>>
  BY DEF NewMapping
<1>1. GivesRole(f, 1)
  BY <1>0, Alloc DEF TreeInv
<1> USE DEF GivesRole
<1>2. entries' = entries
  <2>1. entries[f] = EmptyTable
    BY <1>1, FreeIsEmpty DEF TreeInv
  <2> QED
    BY <2>1, <1>0 DEF TreeInv, TypeOK
<1>3. SpaceRoots' = SpaceRoots /\ SpaceRoots \subseteq held
  BY <1>0 DEF SpaceRoots, TreeInv, TypeOK
<1>4. Roots' = SpaceRoots \cup {f}
  BY <1>0, <1>1, <1>3 DEF Roots, SpaceRoots
<1>5. Roots = SpaceRoots
  BY DEF TreeInv, JobOK, Roots, SpaceRoots
<1>6. TypeOK'
  <2>1. ZeroPage \in [Offset -> Byte]
    BY DEF ZeroPage, Zero, FileByte, Byte
  <2>2. bytes' \in [Managed -> [Offset -> Byte]]
    BY <2>1, <1>0 DEF TreeInv, TypeOK
  <2>3. root' \in held' /\ pc' # "page" /\ prog' \in Program \cup {Kernel} /\ last' \in BOOLEAN
    BY <1>0, <1>1
  <2>4. todo' \in Seq(Segment)
    BY <1>0, KernelSegmentFacts
  <2>5. satp' \in held' \cup {Boot}
    BY <1>0, <1>1 DEF TreeInv, TypeOK
  <2>6. spaces' \subseteq [prog : Program \cup {Kernel}, root : held']
    <3>1. spaces' = spaces /\ spaces \subseteq [prog : Program \cup {Kernel}, root : held]
      BY <1>0 DEF TreeInv, TypeOK
    <3> QED
      BY <3>1, <1>1
  <2> QED
    BY <2>2, <2>3, <2>4, <2>5, <2>6, <1>0, <1>1, <1>2 DEF TreeInv, TypeOK, segVars, findVars
<1>7. \A g \in Managed : role[g] \in 0 .. 4
  BY DEF TreeInv, TypeOK
<1>8. RolesOK'
  BY <1>1, <1>4, <1>5 DEF TreeInv, RolesOK
<1>9. role[f] = 0
  BY <1>1 DEF TreeInv, RolesOK
<1>10. EntriesOK'
  BY <1>1, <1>2, <1>7, <1>9 DEF TreeInv, EntriesOK, EntryOK, IsPointer
<1>11. OwnedOnce'
  BY <1>2 DEF TreeInv, OwnedOnce, Owns, IsPointer
<1>12. AllOwned'
  <2>1. \A t, i : Owns(t, i)' <=> Owns(t, i)
    BY <1>2 DEF Owns, IsPointer
  <2>2. \A g \in Managed : role'[g] \in 2 .. 4 => role[g] \in 2 .. 4
    BY <1>1
  <2> QED
    BY <1>2, <2>1, <2>2 DEF TreeInv, AllOwned
<1>13. JobOK'
  BY <1>0, <1>1, <1>3 DEF TreeInv, JobOK, Building
<1>14. SegmentsOK'
  BY <1>0, KernelSegmentFacts DEF SegmentsOK
<1> QED
  BY <1>0, <1>2, <1>6, <1>8, <1>10, <1>11, <1>12, <1>13, <1>14 DEF TreeInv, FindOK

LEMMA KernelMappedTree ==
  ASSUME TreeInv, KernelMapped
  PROVE  TreeInv'
<1>1. CASE Stop
  BY <1>1, StopTree DEF KernelMapped
<1>2. CASE ~Stop
  <2>1. /\ last' = TRUE /\ pc = "segment"
        /\ UNCHANGED <<pc, memVars, prog, root, segVars, findVars, satp, spaces>>
    BY <1>2 DEF KernelMapped
  <2>2. todo' \in Seq(Segment) /\ \A k \in 1 .. Len(todo') : SegmentOf(prog, todo'[k])
    <3>1. CASE prog = Kernel
      BY <3>1, <1>2, DeviceSegmentFacts DEF KernelMapped
    <3>2. CASE prog # Kernel
      <4>1. prog \in Program
        BY <3>2 DEF TreeInv, TypeOK
      <4>2. todo' = Append(HeaderSegments(prog), StackSegment)
        BY <3>2, <1>2 DEF KernelMapped
      <4> QED
        BY <4>1, <4>2, UserSegmentFacts
    <3> QED
      BY <3>1, <3>2
  <2>3. Roots' = Roots
    BY <2>1 DEF Roots, memVars
  <2>4. RolesOK' /\ EntriesOK' /\ OwnedOnce' /\ AllOwned'
    BY <2>1, <2>3, SameTree
  <2>5. TypeOK'
    BY <2>1, <2>2 DEF TreeInv, TypeOK, memVars, segVars, findVars
  <2>6. SegmentsOK'
    BY <2>1, <2>2 DEF SegmentsOK
  <2> QED
    BY <2>1, <2>4, <2>5, <2>6
    DEF TreeInv, FindOK, JobOK, SpaceRoots, Building, memVars
<1> QED
  BY <1>1, <1>2

LEMMA FinishTree ==
  ASSUME TreeInv, Finish
  PROVE  TreeInv'
<1>1. root \in held /\ root \notin SpaceRoots
  BY DEF TreeInv, TypeOK, JobOK, Building, Finish
<1> DEFINE new == [prog |-> prog, root |-> root]
<1>2. new \in [prog : Program \cup {Kernel}, root : held] /\ new.root = root
  BY <1>1 DEF TreeInv, TypeOK
<1>3. spaces' = spaces \cup {new}
  BY DEF Finish
<1> HIDE DEF new
<1>4. SpaceRoots' = SpaceRoots \cup {root}
  BY <1>2, <1>3 DEF SpaceRoots
<1>5. Roots' = Roots
  <2>1. Roots = SpaceRoots \cup {root}
    BY <1>1 DEF Roots, SpaceRoots
  <2>2. Roots' = SpaceRoots'  \cup {root}
    BY <1>1 DEF Roots, SpaceRoots, Finish, memVars, jobVars
  <2> QED
    BY <2>1, <2>2, <1>4
<1>6. RolesOK' /\ EntriesOK' /\ OwnedOnce' /\ AllOwned'
  BY <1>5, SameTree DEF Finish
<1>7. spaces' \subseteq [prog : Program \cup {Kernel}, root : held] /\ satp' \in held \cup {Boot}
  BY <1>1, <1>2, <1>3 DEF Finish, TreeInv, TypeOK
<1>8. TypeOK'
  BY <1>1, <1>7 DEF Finish, TreeInv, TypeOK, memVars, jobVars, segVars, findVars
<1>9. JobOK'
  <2>1. satp' \in SpaceRoots' \cup {Boot}
    BY <1>4 DEF Finish, TreeInv, JobOK
  <2>2. \A a, b \in spaces' : a.root = b.root => a = b
    BY <1>1, <1>2, <1>3 DEF TreeInv, JobOK, SpaceRoots
  <2>3. root' = root /\ pc' = "ready"
    BY DEF Finish, jobVars
  <2> QED
    BY <2>1, <2>2, <2>3, <1>4 DEF JobOK, Building
<1> QED
  BY <1>6, <1>8, <1>9 DEF TreeInv, Finish, FindOK, SegmentsOK, Building

LEMMA SwitchTree ==
  ASSUME TreeInv, NEW space \in spaces, SwitchContext(space)
  PROVE  TreeInv'
<1>1. space.root \in held /\ space.root \in SpaceRoots
  BY DEF TreeInv, TypeOK, SpaceRoots
<1>2. Roots' = Roots
  BY DEF SwitchContext, Roots, memVars, jobVars
<1>3. RolesOK' /\ EntriesOK' /\ OwnedOnce' /\ AllOwned'
  BY <1>2, SameTree DEF SwitchContext
<1>4. TypeOK'
  BY <1>1 DEF SwitchContext, TreeInv, TypeOK, memVars, jobVars, segVars, findVars
<1> QED
  BY <1>1, <1>3, <1>4
  DEF TreeInv, SwitchContext, FindOK, JobOK, SegmentsOK, SpaceRoots, Building, memVars, jobVars

\* The first of the segments is taken off.
LEMMA TakeOne ==
  ASSUME TreeInv, todo # <<>>
  PROVE  /\ Head(todo) = todo[1] /\ 1 \in 1 .. Len(todo) /\ Head(todo) \in Segment
         /\ Tail(todo) \in Seq(Segment) /\ Len(Tail(todo)) = Len(todo) - 1
         /\ Len(todo) \in Nat
         /\ \A k \in 1 .. Len(Tail(todo)) : Tail(todo)[k] = todo[k + 1] /\ k + 1 \in 1 .. Len(todo)
<1>1. todo \in Seq(Segment)
  BY DEF TreeInv, TypeOK
<1> QED
  BY <1>1

LEMMA SkipSegmentTree ==
  ASSUME TreeInv, SkipSegment
  PROVE  TreeInv'
<1>1. Roots' = Roots
  BY DEF SkipSegment, Roots, memVars
<1>2. RolesOK' /\ EntriesOK' /\ OwnedOnce' /\ AllOwned'
  BY <1>1, SameTree DEF SkipSegment
<1>3. todo' = Tail(todo) /\ todo' \in Seq(Segment)
  BY TakeOne DEF SkipSegment
<1>4. TypeOK'
  BY <1>3 DEF SkipSegment, TreeInv, TypeOK, memVars, segVars, findVars
<1>5. SegmentsOK'
  BY <1>3, TakeOne DEF SkipSegment, TreeInv, SegmentsOK, Building, SegmentOf
<1> QED
  BY <1>2, <1>4, <1>5 DEF TreeInv, SkipSegment, FindOK, JobOK, SpaceRoots, Building, memVars

LEMMA StartSegmentTree ==
  ASSUME TreeInv, StartSegment
  PROVE  TreeInv'
<1>1. Roots' = Roots
  BY DEF StartSegment, Roots, memVars
<1>2. RolesOK' /\ EntriesOK' /\ OwnedOnce' /\ AllOwned'
  BY <1>1, SameTree DEF StartSegment
<1>3. /\ todo' = Tail(todo) /\ todo' \in Seq(Segment) /\ seg' = Head(todo) /\ seg' \in Segment
      /\ vpn' = seg'.start \div PageSize /\ l' = seg'.length /\ s' = 0
  BY TakeOne DEF StartSegment
<1>4. vpn' \in Nat /\ l' \in Nat /\ s' \in Nat
  <2>1. seg'.start \in Nat /\ seg'.length \in Nat
    BY <1>3 DEF Segment
  <2> QED
    BY <2>1, <1>3, DivFacts, Constants
<1>5. root \in held /\ pc' = "page" /\ table' = root /\ level' = 1 /\ root' = root
  BY DEF StartSegment, StartFind, TreeInv, TypeOK
<1>6. TypeOK'
  BY <1>3, <1>4, <1>5 DEF StartSegment, TreeInv, TypeOK, memVars
<1>7. SegmentsOK'
  <2>1. \A k \in 1 .. Len(todo) : SegmentOf(prog, todo[k])
    BY DEF StartSegment, TreeInv, SegmentsOK, Building
  <2>2. prog' = prog /\ seg'.kind # "skip"
    BY DEF StartSegment
  <2>3. SegmentOf(prog, seg')
    BY <1>3, <2>1, TakeOne DEF StartSegment
  <2>4. \A k \in 1 .. Len(todo') : SegmentOf(prog, todo'[k])
    BY <1>3, <2>1, TakeOne DEF StartSegment
  <2>5. seg'.start \div PageSize <= vpn'
    BY <1>3, <1>4
  <2> QED
    BY <2>2, <2>3, <2>4, <2>5 DEF SegmentsOK
<1>8. FindOK' /\ JobOK'
  BY <1>5 DEF StartSegment, TreeInv, FindOK, JobOK, SpaceRoots, Building, memVars
<1> QED
  BY <1>2, <1>6, <1>7, <1>8 DEF TreeInv

LEMMA EndSegmentTree ==
  ASSUME TreeInv, EndSegment
  PROVE  TreeInv'
<1>1. Roots' = Roots
  BY DEF EndSegment, Roots, memVars, jobVars
<1>2. RolesOK' /\ EntriesOK' /\ OwnedOnce' /\ AllOwned'
  BY <1>1, SameTree DEF EndSegment
<1>3. TypeOK'
  BY DEF EndSegment, TreeInv, TypeOK, memVars, jobVars, segVars, findVars
<1> QED
  BY <1>2, <1>3
  DEF TreeInv, EndSegment, FindOK, JobOK, SegmentsOK, SpaceRoots, Building, memVars, jobVars

LEMMA FindEntryTree ==
  ASSUME TreeInv, FindEntry
  PROVE  /\ TreeInv'
         /\ \/ entries' = entries
            \/ /\ table \in Managed /\ Here \in Idx /\ role[table] \in {1, 2}
               /\ \E f \in Managed : f \notin held /\ Writes(table, Here, Pointer(f))
<1>1. /\ root \in Managed /\ role[root] = 1 /\ root \in held
      /\ table \in Managed /\ table \in held /\ role[table] = level
      /\ vpn \in Nat /\ Here \in Idx /\ pc = "page" /\ level \in {1, 2}
  BY Descent DEF FindEntry, TreeInv, TypeOK
<1>2. /\ level' = level + 1 /\ pc' = pc /\ prog' = prog /\ root' = root /\ todo' = todo
      /\ last' = last /\ seg' = seg /\ vpn' = vpn /\ s' = s /\ l' = l
      /\ satp' = satp /\ spaces' = spaces
  BY DEF FindEntry, jobVars, segVars
<1>3. SpaceRoots' = SpaceRoots /\ Here = IF level = 1 THEN Top(vpn) ELSE Middle(vpn)
  BY <1>1, <1>2 DEF SpaceRoots, Here, Top, Middle
<1>4. Top(vpn) \in Idx /\ Middle(vpn) \in Idx
  BY <1>1, Levels
<1>5. SegmentsOK'
  BY <1>2 DEF TreeInv, SegmentsOK, Building
<1>6. CASE ~NeedsTable
  <2>1. table' = entries[table][Here].ppn /\ UNCHANGED memVars
    BY <1>6 DEF FindEntry
  <2>2. EntryOK(table, entries[table][Here]) /\ entries[table][Here] \in Entry
    BY <1>1, <1>6 DEF NeedsTable, TreeInv, EntriesOK, TypeOK
  <2>3. entries[table][Here] = Pointer(table') /\ table' \in Managed /\ role[table'] = level + 1
    BY <1>1, <2>1, <2>2, EntryFacts DEF EntryOK
  <2>4. table' \in held
    BY <1>1, <2>3 DEF TreeInv, RolesOK
  <2>5. Roots' = Roots
    BY <1>2, <2>1 DEF Roots, memVars
  <2>6. RolesOK' /\ EntriesOK' /\ OwnedOnce' /\ AllOwned'
    BY <2>1, <2>5, SameTree
  <2>7. TypeOK'
    BY <1>1, <1>2, <2>1, <2>4 DEF TreeInv, TypeOK, memVars
  <2>8. FindOK'
    <3>1. entries' = entries
      BY <2>1 DEF memVars
    <3>2. CASE level = 1
      <4>1. entries[root][Top(vpn)] = Pointer(table') /\ level' = 2
        BY <3>2, <1>1, <1>2, <1>3, <2>3 DEF TreeInv, FindOK
      <4> QED
        BY <4>1, <3>1, <1>2 DEF FindOK
    <3>3. CASE level = 2
      <4>1. /\ entries[root][Top(vpn)] = Pointer(table)
            /\ entries[table][Middle(vpn)] = Pointer(table') /\ level' = 3
        BY <3>3, <1>1, <1>2, <1>3, <2>3 DEF TreeInv, FindOK
      <4> QED
        BY <4>1, <3>1, <1>1, <1>2 DEF FindOK
    <3> QED
      BY <3>2, <3>3, <1>1
  <2>9. JobOK'
    BY <1>2, <1>3, <2>1 DEF TreeInv, JobOK, Building, memVars
  <2> QED
    BY <1>5, <2>1, <2>6, <2>7, <2>8, <2>9 DEF TreeInv, memVars
<1>7. CASE NeedsTable
  <2>0. PICK f \in Managed :
          /\ AllocFrame(f, level + 1)
          /\ entries' = [entries EXCEPT ![f] = EmptyTable, ![table][Here] = Pointer(f)]
          /\ bytes' = [bytes EXCEPT ![f] = ZeroPage]
          /\ table' = f
    BY <1>7 DEF FindEntry
  <2>1. level + 1 \in 1 .. 4 /\ level + 1 \in 2 .. 4 /\ level + 1 < 4
    BY <1>1
  <2>2. GivesRole(f, level + 1)
    BY <2>0, <2>1, Alloc DEF TreeInv
  <2>3. f # table /\ f \notin held /\ held' = held \cup {f} /\ held' \subseteq Managed
                  /\ role' \in [Managed -> 0 .. 4]
    BY <2>2, <1>1 DEF GivesRole
  <2>4. Writes(table, Here, Pointer(f))
    <3>1. ClearsAndWrites(f, table, Here, Pointer(f))
      BY <2>0 DEF ClearsAndWrites
    <3>2. entries[table][Here] = None
      BY <1>7 DEF NeedsTable
    <3> QED
      BY <3>1, <3>2, <2>3, <1>1, Fill, EntryFacts DEF TreeInv
  <2>5. role[table] + 1 = level + 1
    BY <1>1
  <2>6. Pointer(f) \in Entry /\ IsPointer(Pointer(f)) /\ Pointer(f).ppn = f /\ Pointer(f) # None
    BY EntryFacts
  <2>7. RolesOK' /\ EntriesOK' /\ OwnedOnce' /\ AllOwned'
    BY <2>1, <2>2, <2>4, <2>5, <2>6, <1>1, <1>2, Hang DEF TreeInv
  <2>10. bytes' \in [Managed -> [Offset -> Byte]]
    <3>1. ZeroPage \in [Offset -> Byte]
      BY DEF ZeroPage, Zero, FileByte, Byte
    <3> QED
      BY <3>1, <2>0 DEF TreeInv, TypeOK
  <2>11. spaces' \subseteq [prog : Program \cup {Kernel}, root : held'] /\ satp' \in held' \cup {Boot}
    <3>1. spaces \subseteq [prog : Program \cup {Kernel}, root : held] /\ satp \in held \cup {Boot}
      BY DEF TreeInv, TypeOK
    <3> QED
      BY <3>1, <1>2, <2>3
  <2>12. TypeOK'
    <3>1. /\ root' \in held' /\ table' \in held' /\ level' \in 1 .. 3
          /\ entries' \in [Managed -> [Idx -> Entry]]
      BY <1>1, <1>2, <2>0, <2>3, <2>4 DEF Writes
    <3> QED
      BY <3>1, <1>1, <1>2, <2>3, <2>10, <2>11 DEF TreeInv, TypeOK
  <2>13. FindOK'
    <3>1. CASE level = 1
      <4>1. table = root /\ level' = 2 /\ Here = Top(vpn)
        BY <3>1, <1>1, <1>2, <1>3 DEF TreeInv, FindOK
      <4>2. entries'[root][Top(vpn)] = Pointer(f)
        BY <4>1, <1>1, <2>4 DEF Writes
      <4> QED
        BY <4>1, <4>2, <2>0, <1>2 DEF FindOK
    <3>2. CASE level = 2
      <4>1. entries[root][Top(vpn)] = Pointer(table) /\ level' = 3 /\ Here = Middle(vpn)
        BY <3>2, <1>1, <1>2, <1>3 DEF TreeInv, FindOK
      <4>2. root # table
        BY <3>2, <1>1
      <4>3. entries'[root][Top(vpn)] = Pointer(table) /\ entries'[table][Middle(vpn)] = Pointer(f)
        BY <4>1, <4>2, <1>1, <1>4, <2>4 DEF Writes
      <4> QED
        BY <4>1, <4>3, <2>0, <1>1, <1>2 DEF FindOK
    <3> QED
      BY <3>1, <3>2, <1>1
  <2>14. JobOK'
    BY <1>1, <1>2, <1>3 DEF TreeInv, JobOK, Building
  <2> QED
    BY <1>1, <1>5, <2>3, <2>4, <2>7, <2>12, <2>13, <2>14 DEF TreeInv
<1> QED
  BY <1>6, <1>7

\* What the three functions that map a page have in common.
LEMMA PageTree ==
  ASSUME TreeInv, AtEntry, NextPage, held \subseteq held', held' \subseteq Managed,
         role' \in [Managed -> 0 .. 4], entries' \in [Managed -> [Idx -> Entry]],
         bytes' \in [Managed -> [Offset -> Byte]], s' \in Nat, l' \in Nat,
         RolesOK', EntriesOK', OwnedOnce', AllOwned'
  PROVE  TreeInv'
<1>1. /\ vpn' = vpn + 1 /\ table' = root /\ level' = 1 /\ pc' = pc /\ prog' = prog
      /\ root' = root /\ todo' = todo /\ last' = last /\ seg' = seg /\ satp' = satp
      /\ spaces' = spaces /\ pc = "page"
  BY DEF AtEntry, NextPage, StartFind, jobVars
<1>2. root \in held /\ vpn \in Nat /\ vpn' \in Nat
  BY <1>1 DEF TreeInv, TypeOK
<1>3. spaces' \subseteq [prog : Program \cup {Kernel}, root : held'] /\ satp' \in held' \cup {Boot}
  <2>1. spaces \subseteq [prog : Program \cup {Kernel}, root : held] /\ satp \in held \cup {Boot}
    BY DEF TreeInv, TypeOK
  <2> QED
    BY <2>1, <1>1
<1>4. TypeOK'
  BY <1>1, <1>2, <1>3 DEF TreeInv, TypeOK
<1>5. FindOK' /\ JobOK'
  BY <1>1 DEF TreeInv, FindOK, JobOK, SpaceRoots, Building
<1>6. SegmentsOK'
  <2>1. seg.start \in Nat /\ seg.start \div PageSize \in Nat
    BY DivFacts, Constants DEF TreeInv, TypeOK, Segment
  <2>2. seg.start \div PageSize <= vpn + 1
    BY <1>1, <1>2, <2>1 DEF TreeInv, SegmentsOK
  <2> QED
    BY <1>1, <2>2 DEF TreeInv, SegmentsOK, Building
<1> QED
  BY <1>4, <1>5, <1>6 DEF TreeInv

LEMMA MapLinearTree ==
  ASSUME TreeInv, MapLinear
  PROVE  /\ TreeInv'
         /\ Leaf(vpn - PageOffset, seg.flags) \in Entry
         /\ Writes(table, Here, Leaf(vpn - PageOffset, seg.flags))
<1> DEFINE e == Leaf(vpn - PageOffset, seg.flags)
<1>1. /\ root \in Managed /\ role[root] = 1 /\ root \in held
      /\ table \in Managed /\ table \in held /\ role[table] = 3
      /\ vpn \in Nat /\ Here \in Idx /\ pc = "page"
  BY Descent DEF MapLinear, AtEntry
<1>2. LinearOK(seg) /\ seg \in Segment /\ seg.start \div PageSize <= vpn /\ vpn < EndVpn(seg)
  <2>1. SegmentOf(prog, seg) /\ seg.kind = "linear" /\ seg.start \div PageSize <= vpn
        /\ vpn < EndVpn(seg) /\ seg \in Segment
    BY <1>1 DEF MapLinear, AtEntry, TreeInv, TypeOK, SegmentsOK
  <2>2. seg # StackSegment
    BY <2>1, StackSegmentFacts
  <2>3. prog \in Program => \A j \in DOMAIN Header[prog] : seg # HeaderSegment(prog, j)
    BY <2>1, HeaderSegmentFacts
  <2> QED
    BY <2>1, <2>2, <2>3 DEF SegmentOf
<1>3. vpn - PageOffset \in 0 .. MemoryEnd - 1
  <2>1. seg.start \in Nat /\ seg.end \in Nat
    BY <1>2 DEF Segment
  <2>2. seg.start \div PageSize \in Nat /\ EndVpn(seg) \in Int
    BY <2>1, Constants DEF EndVpn
  <2> QED
    BY <1>1, <1>2, <2>2, Constants DEF LinearOK
<1>4. seg.flags \in SUBSET Flag /\ "R" \in seg.flags /\ "U" \notin seg.flags
  BY <1>2 DEF LinearOK, Segment
<1>5. e \in Entry /\ ~IsPointer(e) /\ e # None /\ e.flags = seg.flags \cup {"V"}
  BY <1>3, <1>4, LeafFacts
<1>6. "U" \notin e.flags /\ "R" \in e.flags
  BY <1>4, <1>5
<1> HIDE DEF e
<1>7. entries' = [entries EXCEPT ![table][Here] = e] /\ entries[table][Here] = None
  BY DEF MapLinear, AlreadyMapped, e
<1>8. Writes(table, Here, e)
  BY <1>1, <1>5, <1>7 DEF TreeInv, TypeOK, Writes
<1>9. held' = held /\ role' = role /\ bytes' = bytes /\ s' = s /\ l' = l
  BY DEF MapLinear
<1>10. UNCHANGED <<role, held, root, spaces>>
  BY <1>9 DEF MapLinear, NextPage, jobVars
<1>11. RolesOK' /\ EntriesOK' /\ OwnedOnce' /\ AllOwned'
  BY <1>1, <1>5, <1>6, <1>8, <1>10, Plug DEF TreeInv
<1>12. TreeInv'
  BY <1>8, <1>9, <1>11, PageTree DEF MapLinear, TreeInv, TypeOK, Writes
<1> QED
  BY <1>5, <1>8, <1>12 DEF e

\* A page of a user is allocated and mapped.
LEMMA UserPageTree ==
  ASSUME TreeInv, AtEntry, ~AlreadyMapped, seg.kind # "linear", NEW f \in Managed,
         AllocFrame(f, 4), NextPage,
         ClearsAndWrites(f, table, Here, Leaf(f, seg.flags)),
         bytes' \in [Managed -> [Offset -> Byte]], s' \in Nat, l' \in Nat
  PROVE  /\ TreeInv'
         /\ Leaf(f, seg.flags) \in Entry /\ GivesRole(f, 4)
         /\ Writes(table, Here, Leaf(f, seg.flags))
<1> DEFINE e == Leaf(f, seg.flags)
<1>1. /\ root \in Managed /\ role[root] = 1 /\ root \in held
      /\ table \in Managed /\ table \in held /\ role[table] = 3
      /\ vpn \in Nat /\ Here \in Idx /\ pc = "page"
  BY Descent DEF AtEntry
<1>2. GivesRole(f, 4)
  BY Alloc DEF TreeInv
<1>3. seg \in Segment /\ "U" \in seg.flags
  <2>1. SegmentOf(prog, seg) /\ seg.kind # "skip" /\ seg \in Segment
    BY <1>1 DEF TreeInv, TypeOK, SegmentsOK
  <2> QED
    BY <2>1, StackSegmentFacts, HeaderSegmentFacts DEF SegmentOf, LinearOK
<1>4. e \in Entry /\ e # None /\ e.ppn = f /\ "U" \in e.flags
  <2>1. f \in 0 .. MemoryEnd - 1 /\ seg.flags \in SUBSET Flag
    <3>1. f \in 0 .. MemoryEnd - 1
      BY Constants DEF Managed
    <3> QED
      BY <3>1, <1>3 DEF Segment
  <2> QED
    BY <1>3, <2>1, LeafFacts
<1> HIDE DEF e
<1>5. ClearsAndWrites(f, table, Here, e) /\ f \notin held /\ table # f
  BY <1>1, <1>2 DEF e, GivesRole
<1>6. Writes(table, Here, e)
  BY <1>1, <1>4, <1>5, Fill DEF TreeInv, AlreadyMapped
<1>7. UNCHANGED <<root, spaces>>
  BY DEF NextPage, jobVars
<1>8. 4 \in 2 .. 4 /\ role[table] + 1 = 4
  BY <1>1
<1>9. RolesOK' /\ EntriesOK' /\ OwnedOnce' /\ AllOwned'
  BY <1>1, <1>2, <1>4, <1>6, <1>7, <1>8, Hang DEF TreeInv
<1>10. TreeInv'
  BY <1>2, <1>6, <1>9, PageTree DEF GivesRole, Writes
<1> QED
  BY <1>2, <1>4, <1>6, <1>10 DEF e

LEMMA MapFramedTree ==
  ASSUME TreeInv, MapFramed
  PROVE  /\ TreeInv'
         /\ \E f \in Managed : /\ Leaf(f, seg.flags) \in Entry /\ GivesRole(f, 4)
                               /\ Writes(table, Here, Leaf(f, seg.flags))
                               /\ bytes' = [bytes EXCEPT ![f] = ZeroPage]
<1>1. PICK f \in Managed :
        /\ AllocFrame(f, 4)
        /\ entries' = [entries EXCEPT ![f] = EmptyTable, ![table][Here] = Leaf(f, seg.flags)]
        /\ bytes' = [bytes EXCEPT ![f] = ZeroPage]
  BY DEF MapFramed
<1>2. ClearsAndWrites(f, table, Here, Leaf(f, seg.flags))
  BY <1>1 DEF ClearsAndWrites
<1>3. bytes' \in [Managed -> [Offset -> Byte]]
  <2>1. ZeroPage \in [Offset -> Byte]
    BY DEF ZeroPage, Zero, FileByte, Byte
  <2> QED
    BY <1>1, <2>1 DEF TreeInv, TypeOK
<1>4. s' \in Nat /\ l' \in Nat
  BY DEF MapFramed, TreeInv, TypeOK
<1>5. AtEntry /\ ~AlreadyMapped /\ seg.kind # "linear" /\ NextPage
  BY DEF MapFramed
<1> QED
  BY <1>1, <1>2, <1>3, <1>4, <1>5, UserPageTree

LEMMA MapFramedAndCopyTree ==
  ASSUME TreeInv, MapFramedAndCopy
  PROVE  /\ TreeInv'
         /\ \E f \in Managed : /\ Leaf(f, seg.flags) \in Entry /\ GivesRole(f, 4)
                               /\ Writes(table, Here, Leaf(f, seg.flags))
                               /\ bytes' = [bytes EXCEPT ![f] =
                                    [o \in Offset |-> IF o < l THEN FileByte(prog, seg.header, s + o)
                                                               ELSE Zero]]
<1> DEFINE page == [o \in Offset |-> IF o < l THEN FileByte(prog, seg.header, s + o) ELSE Zero]
<1>1. PICK f \in Managed :
        /\ AllocFrame(f, 4)
        /\ entries' = [entries EXCEPT ![f] = EmptyTable, ![table][Here] = Leaf(f, seg.flags)]
        /\ bytes' = [bytes EXCEPT ![f] = page]
  BY DEF MapFramedAndCopy
<1>2. ClearsAndWrites(f, table, Here, Leaf(f, seg.flags))
  BY <1>1 DEF ClearsAndWrites
<1>3. bytes' \in [Managed -> [Offset -> Byte]]
  <2>1. page \in [Offset -> Byte]
    <3>1. prog \in Program \cup {Kernel} /\ seg.header \in Nat /\ s \in Nat
      BY DEF TreeInv, TypeOK, Segment
    <3>2. \A o \in Offset : s + o \in Nat
      BY <3>1, Constants DEF Offset
    <3> QED
      BY <3>1, <3>2 DEF Zero, FileByte, Byte
  <2> HIDE DEF page
  <2> QED
    BY <1>1, <2>1 DEF TreeInv, TypeOK
<1>4. s' \in Nat /\ l' \in Nat
  BY Constants DEF MapFramedAndCopy, LeftAfter, TreeInv, TypeOK
<1>5. AtEntry /\ ~AlreadyMapped /\ seg.kind # "linear" /\ NextPage
  BY DEF MapFramedAndCopy
<1> QED
  BY <1>1, <1>2, <1>3, <1>4, <1>5, UserPageTree

LEMMA StepTree == TreeInv /\ [Next]_vars => TreeInv'
<1> SUFFICES ASSUME TreeInv, [Next]_vars PROVE TreeInv'
  OBVIOUS
<1>1. CASE UNCHANGED vars
  <2>1. UNCHANGED <<pc, memVars, jobVars, segVars, findVars, satp, spaces>>
    BY <1>1 DEF vars
  <2>2. Roots' = Roots
    BY <2>1 DEF Roots, memVars, jobVars
  <2>3. RolesOK' /\ EntriesOK' /\ OwnedOnce' /\ AllOwned'
    BY <2>1, <2>2, SameTree
  <2>4. TypeOK'
    BY <2>1 DEF TreeInv, TypeOK, memVars, jobVars, segVars, findVars
  <2> QED
    BY <2>1, <2>3, <2>4
    DEF TreeInv, FindOK, JobOK, SegmentsOK, SpaceRoots, Building, memVars, jobVars, segVars, findVars
<1>2. CASE MapKernel
  BY <1>2, NewMappingTree DEF MapKernel
<1>3. ASSUME NEW p \in Program, NewUserThread(p)
      PROVE  TreeInv'
  BY <1>3, NewMappingTree, StopTree DEF NewUserThread
<1>4. CASE KernelMapped
  BY <1>4, KernelMappedTree
<1>5. CASE Finish
  BY <1>5, FinishTree
<1>6. ASSUME NEW space \in spaces, SwitchContext(space)
      PROVE  TreeInv'
  BY <1>6, SwitchTree
<1>7. CASE SkipSegment
  BY <1>7, SkipSegmentTree
<1>8. CASE StartSegment
  BY <1>8, StartSegmentTree
<1>9. CASE EndSegment
  BY <1>9, EndSegmentTree
<1>10. CASE FindEntry
  BY <1>10, FindEntryTree
<1>11. CASE FindDepleted
  BY <1>11, StopTree DEF FindDepleted
<1>12. CASE MapLinear
  BY <1>12, MapLinearTree
<1>13. CASE MapFramed
  BY <1>13, MapFramedTree
<1>14. CASE MapFramedAndCopy
  BY <1>14, MapFramedAndCopyTree
<1>15. CASE MapFails
  BY <1>15, StopTree DEF MapFails, AtEntry
<1>16. CASE Stopped
  BY <1>1, <1>16 DEF Stopped
<1> QED
  BY <1>1, <1>2, <1>3, <1>4, <1>5, <1>6, <1>7, <1>8, <1>9, <1>10, <1>11, <1>12, <1>13, <1>14,
     <1>15, <1>16 DEF Next

LEMMA TreeInvariant == Spec => []TreeInv
  BY InitTree, StepTree, PTL DEF Spec

LEMMA TreeOwnsOnce == TreeInv => FramesAreOwnedOnce
<1> SUFFICES ASSUME TreeInv PROVE FramesAreOwnedOnce
  OBVIOUS
<1>1. TypeOK
  BY DEF TreeInv
<1>2. \A t \in Managed : \A i \in Idx :
        Owns(t, i) => /\ t \in held /\ entries[t][i] # None
                      /\ entries[t][i].ppn \in held /\ entries[t][i].ppn \notin Roots
  <2> SUFFICES ASSUME NEW t \in Managed, NEW i \in Idx, Owns(t, i)
               PROVE  /\ t \in held /\ entries[t][i] # None
                      /\ entries[t][i].ppn \in held /\ entries[t][i].ppn \notin Roots
    OBVIOUS
  <2>1. entries[t][i] # None
    BY EntryFacts DEF Owns
  <2>2. EntryOK(t, entries[t][i])
    BY <2>1 DEF TreeInv, EntriesOK
  <2>3. /\ role[t] # 0 /\ entries[t][i].ppn \in Managed
        /\ role[entries[t][i].ppn] \notin {0, 1}
    BY <2>2 DEF EntryOK, Owns, IsPointer
  <2> QED
    BY <2>1, <2>3 DEF TreeInv, RolesOK
<1>3. \A x : x \in Owners <=> \E t \in Managed : \E i \in Idx : x = <<t, i>> /\ Owns(t, i)
  <2>1. ASSUME NEW x \in Owners
        PROVE  \E t \in Managed : \E i \in Idx : x = <<t, i>> /\ Owns(t, i)
    <3>1. x \in held \X Idx /\ (IsPointer(EntryAt(x)) \/ "U" \in EntryAt(x).flags)
      BY DEF Owners
    <3>2. x = <<x[1], x[2]>> /\ x[1] \in Managed /\ x[2] \in Idx
      BY <3>1, <1>1 DEF TypeOK
    <3> QED
      BY <3>1, <3>2 DEF Owns, EntryAt
  <2>2. ASSUME NEW t \in Managed, NEW i \in Idx, Owns(t, i)
        PROVE  <<t, i>> \in Owners
    <3>1. <<t, i>> \in held \X Idx /\ EntryAt(<<t, i>>) # None
      BY <1>2, <2>2 DEF EntryAt
    <3> QED
      BY <3>1, <2>2 DEF Owners, Owns, EntryAt
  <2> QED
    BY <2>1, <2>2
<1>4. \A t, i : EntryAt(<<t, i>>) = entries[t][i]
  BY DEF EntryAt
<1>5. {EntryAt(x).ppn : x \in Owners} = held \ Roots
  <2>1. ASSUME NEW x \in Owners
        PROVE  EntryAt(x).ppn \in held \ Roots
    BY <1>2, <1>3, <1>4
  <2>2. ASSUME NEW f \in held \ Roots
        PROVE  \E x \in Owners : EntryAt(x).ppn = f
    <3>1. f \in Managed /\ role[f] \in 2 .. 4
      BY <1>1 DEF TreeInv, TypeOK, RolesOK
    <3>2. PICK t \in Managed : \E i \in Idx : Owns(t, i) /\ entries[t][i].ppn = f
      BY <3>1 DEF TreeInv, AllOwned
    <3>3. PICK i \in Idx : Owns(t, i) /\ entries[t][i].ppn = f
      BY <3>2
    <3> QED
      BY <3>3, <1>3, <1>4
  <2> QED
    BY <2>1, <2>2
<1>6. \A x, y \in Owners : EntryAt(x).ppn = EntryAt(y).ppn => x = y
  <2> SUFFICES ASSUME NEW x \in Owners, NEW y \in Owners, EntryAt(x).ppn = EntryAt(y).ppn
               PROVE  x = y
    OBVIOUS
  <2>1. PICK t \in Managed : \E i \in Idx : x = <<t, i>> /\ Owns(t, i)
    BY <1>3
  <2>2. PICK i \in Idx : x = <<t, i>> /\ Owns(t, i)
    BY <2>1
  <2>3. PICK u \in Managed : \E j \in Idx : y = <<u, j>> /\ Owns(u, j)
    BY <1>3
  <2>4. PICK j \in Idx : y = <<u, j>> /\ Owns(u, j)
    BY <2>3
  <2>5. entries[t][i].ppn = entries[u][j].ppn
    BY <2>2, <2>4, <1>4
  <2>6. t = u /\ i = j
    BY <2>2, <2>4, <2>5 DEF TreeInv, OwnedOnce
  <2> QED
    BY <2>2, <2>4, <2>6
<1> QED
  BY <1>1, <1>5, <1>6 DEF FramesAreOwnedOnce

\* The page tables of all address spaces form trees: whatever is mapped, no
\* two entries share a frame that findEntry, mapFramedSegment or
\* mapFramedAndCopy allocated, and none is lost.
THEOREM FramesStayOwned == Spec => []FramesAreOwnedOnce
  BY TreeInvariant, TreeOwnsOnce, PTL
-----------------------------------------------------------------------------
(* Translation.                                                            *)

LEMMA VpnLevels ==
  ASSUME NEW v \in Vpn
  PROVE  /\ v \in Nat
         /\ Top(v) = v \div (Fan * Fan) /\ Middle(v) = (v \div Fan) % Fan /\ Bottom(v) = v % Fan
<1>1. v \in Nat /\ Fan * Fan \in Nat \ {0} /\ v < Fan * Fan * Fan /\ Fan \in Nat
  BY Constants DEF Vpn
<1>2. v \div (Fan * Fan) < Fan /\ v \div (Fan * Fan) \in Nat
  BY <1>1, DivLess, DivFacts
<1>3. \A n \in Nat : n < Fan => n % Fan = n
  BY Constants
<1> QED
  BY <1>1, <1>2, <1>3 DEF Top, Middle, Bottom, GetVpnLevels

\* A page is determined by its three indices.
LEMMA LevelsInjective ==
  ASSUME NEW v \in Vpn, NEW w \in Vpn,
         Top(v) = Top(w), Middle(v) = Middle(w), Bottom(v) = Bottom(w)
  PROVE  v = w
<1>1. ASSUME NEW n \in Nat
      PROVE  (n \div Fan) \div Fan = n \div (Fan * Fan)
  <2> DEFINE a == n \div Fan
             q == a \div Fan
  <2>1. Fan \in Nat \ {0} /\ a \in Nat /\ q \in Nat
        /\ n % Fan \in 0 .. Fan - 1 /\ n = Fan * a + (n % Fan)
        /\ a % Fan \in 0 .. Fan - 1 /\ a = Fan * q + (a % Fan)
    BY Constants, DivFacts
  <2> DEFINE x == n % Fan
             y == a % Fan
  <2>2. x \in 0 .. Fan - 1 /\ y \in 0 .. Fan - 1 /\ n = Fan * a + x /\ a = Fan * q + y
    BY <2>1
  <2> HIDE DEF a, q, x, y
  <2>3. n = (Fan * Fan) * q + (Fan * y + x)
    BY <2>1, <2>2
  <2>4. Fan * y + x >= 0 /\ Fan * y + x < Fan * Fan
    <3>1. Fan * y <= Fan * (Fan - 1)
      BY <2>1, <2>2
    <3> QED
      BY <2>1, <2>2, <3>1
  <2>5. Fan * Fan \in Nat \ {0} /\ (Fan * Fan) * q <= n /\ n < (Fan * Fan) * q + Fan * Fan
    BY <2>1, <2>2, <2>3, <2>4
  <2>6. n \div (Fan * Fan) = q
    BY <2>1, <2>5, DivUnique
  <2> QED
    BY <2>6 DEF q, a
<1>2. ASSUME NEW n \in Vpn
      PROVE  n = Fan * (Fan * Top(n) + Middle(n)) + Bottom(n)
  <2>1. n \in Nat /\ Fan \in Nat \ {0} /\ n \div Fan \in Nat
    BY VpnLevels, Constants, DivFacts
  <2>2. n = Fan * (n \div Fan) + (n % Fan)
    BY <2>1, DivFacts
  <2>3. n \div Fan = Fan * ((n \div Fan) \div Fan) + ((n \div Fan) % Fan)
    BY <2>1, DivFacts
  <2> QED
    BY <2>1, <2>2, <2>3, <1>1, VpnLevels
<1> QED
  BY <1>2

\* Walk, in given tables.
WalkIn(E, r, v) ==
  LET e1 == E[r][v \div (Fan * Fan)]
      e2 == E[e1.ppn][(v \div Fan) % Fan]
      e3 == E[e2.ppn][v % Fan]
  IN  IF IsPointer(e1)
        THEN IF IsPointer(e2) THEN e3 ELSE None
        ELSE None

LEMMA WalkIsWalkIn ==
  ASSUME NEW r, NEW v
  PROVE  Walk(r, v) = WalkIn(entries, r, v) /\ Walk(r, v)' = WalkIn(entries', r, v)
  BY DEF Walk, WalkIn

LEMMA WalkDown ==
  ASSUME NEW E, NEW r \in Managed, NEW v \in Vpn,
         NEW a \in Managed, NEW b \in Managed,
         E[r][Top(v)] = Pointer(a), E[a][Middle(v)] = Pointer(b)
  PROVE  WalkIn(E, r, v) = E[b][Bottom(v)]
<1>1. /\ IsPointer(Pointer(a)) /\ Pointer(a).ppn = a
      /\ IsPointer(Pointer(b)) /\ Pointer(b).ppn = b
  BY EntryFacts
<1>2. v \div (Fan * Fan) = Top(v) /\ (v \div Fan) % Fan = Middle(v) /\ v % Fan = Bottom(v)
  BY VpnLevels
<1> QED
  BY <1>1, <1>2 DEF WalkIn

LEMMA WalkBack ==
  ASSUME NEW E, NEW r \in Managed, NEW v \in Vpn, WalkIn(E, r, v) # None
  PROVE  LET a == E[r][Top(v)].ppn
             b == E[a][Middle(v)].ppn
         IN  /\ IsPointer(E[r][Top(v)]) /\ IsPointer(E[a][Middle(v)])
             /\ WalkIn(E, r, v) = E[b][Bottom(v)]
  BY VpnLevels DEF WalkIn

\* The tables that lead to the leaf of page v.
Path(r, v, a, b) ==
  /\ a \in Managed /\ b \in Managed /\ role[a] = 2 /\ role[b] = 3
  /\ entries[r][Top(v)] = Pointer(a) /\ entries[a][Middle(v)] = Pointer(b)

\* Below a table of level 1 or 2 there are tables.
LEMMA Below ==
  ASSUME TreeInv, NEW t \in Managed, NEW i \in Idx, role[t] \in {1, 2}, entries[t][i] # None
  PROVE  /\ entries[t][i].ppn \in Managed /\ role[entries[t][i].ppn] = role[t] + 1
         /\ entries[t][i] = Pointer(entries[t][i].ppn)
<1>1. EntryOK(t, entries[t][i]) /\ entries[t][i] \in Entry
  BY DEF TreeInv, EntriesOK, TypeOK
<1> QED
  BY <1>1, EntryFacts DEF EntryOK

LEMMA WalkPath ==
  ASSUME TreeInv, NEW r \in Managed, role[r] = 1, NEW v \in Vpn, Walk(r, v) # None
  PROVE  \E a, b \in Managed : Path(r, v, a, b) /\ Walk(r, v) = entries[b][Bottom(v)]
<1> DEFINE a == entries[r][Top(v)].ppn
           b == entries[a][Middle(v)].ppn
<1>1. /\ IsPointer(entries[r][Top(v)]) /\ IsPointer(entries[a][Middle(v)])
      /\ Walk(r, v) = entries[b][Bottom(v)]
  BY WalkBack, WalkIsWalkIn
<1>2. Top(v) \in Idx /\ Middle(v) \in Idx
  BY VpnLevels, Levels
<1>3. a \in Managed /\ role[a] = 2 /\ entries[r][Top(v)] = Pointer(a)
  <2>1. entries[r][Top(v)] # None /\ role[r] \in {1, 2}
    BY <1>1, EntryFacts
  <2> QED
    BY <1>2, <2>1, Below
<1> HIDE DEF a
<1>4. b \in Managed /\ role[b] = 3 /\ entries[a][Middle(v)] = Pointer(b)
  BY <1>1, <1>2, <1>3, Below DEF IsPointer
<1> QED
  BY <1>1, <1>3, <1>4 DEF Path

\* Two pages that end in the same entry are the same page.
LEMMA PathInjective ==
  ASSUME TreeInv, NEW r \in Managed, NEW q \in Managed, NEW v \in Nat, NEW w \in Nat,
         NEW a, NEW c, NEW t,
         Path(r, v, a, t), Path(q, w, c, t)
  PROVE  r = q /\ Top(v) = Top(w) /\ Middle(v) = Middle(w)
<1>1. Top(v) \in Idx /\ Middle(v) \in Idx /\ Top(w) \in Idx /\ Middle(w) \in Idx
  BY Levels
<1>2. Owns(a, Middle(v)) /\ Owns(c, Middle(w)) /\ Owns(r, Top(v)) /\ Owns(q, Top(w))
  BY EntryFacts DEF Owns, Path
<1>3. a = c /\ Middle(v) = Middle(w)
  BY <1>1, <1>2, EntryFacts DEF TreeInv, OwnedOnce, Path
<1>4. r = q /\ Top(v) = Top(w)
  BY <1>1, <1>2, <1>3, EntryFacts DEF TreeInv, OwnedOnce, Path
<1> QED
  BY <1>3, <1>4

\* The path that findEntry has taken.
LEMMA FoundPath ==
  ASSUME TreeInv, AtEntry
  PROVE  /\ Here = Bottom(vpn) /\ Here \in Idx /\ vpn \in Nat
         /\ root \in Managed /\ role[root] = 1 /\ table \in Managed /\ role[table] = 3
         /\ \E a \in Managed : Path(root, vpn, a, table)
<1>1. /\ root \in Managed /\ role[root] = 1 /\ root \in held
      /\ table \in Managed /\ table \in held /\ role[table] = 3
      /\ vpn \in Nat /\ Here \in Idx /\ pc = "page" /\ level = 3
  BY Descent DEF AtEntry
<1>2. Here = Bottom(vpn)
  BY <1>1 DEF Here, Bottom
<1>3. PICK a \in Managed : entries[root][Top(vpn)] = Pointer(a)
                           /\ entries[a][Middle(vpn)] = Pointer(table)
  BY <1>1 DEF TreeInv, FindOK
<1>4. Top(vpn) \in Idx
  BY <1>1, Levels
<1>5. role[a] = 2
  BY <1>1, <1>3, <1>4, Below, EntryFacts
<1> QED
  BY <1>1, <1>2, <1>3, <1>5 DEF Path

\* Filling an empty entry leaves every translation as it is.
LEMMA WalkKept ==
  ASSUME TreeInv, NEW t \in Managed, NEW i \in Idx, NEW e, Writes(t, i, e),
         NEW r \in Managed, role[r] = 1, NEW v \in Vpn, Walk(r, v) # None
  PROVE  Walk(r, v)' = Walk(r, v)
<1>1. PICK a, b \in Managed : Path(r, v, a, b) /\ Walk(r, v) = entries[b][Bottom(v)]
  BY WalkPath
<1>2. \A u \in Managed : \A j \in Idx : entries[u][j] # None => entries'[u][j] = entries[u][j]
  BY DEF Writes
<1>3. Top(v) \in Idx /\ Middle(v) \in Idx /\ Bottom(v) \in Idx
  BY VpnLevels, Levels
<1>4. /\ entries'[r][Top(v)] = Pointer(a) /\ entries'[a][Middle(v)] = Pointer(b)
      /\ entries'[b][Bottom(v)] = entries[b][Bottom(v)]
  BY <1>1, <1>2, <1>3, EntryFacts DEF Path
<1> QED
  BY <1>1, <1>4, WalkDown, WalkIsWalkIn

\* A new table adds none.
LEMMA WalkTable ==
  ASSUME TreeInv, NEW t \in Managed, NEW i \in Idx, role[t] \in {1, 2},
         NEW f \in Managed, f \notin held, Writes(t, i, Pointer(f)),
         NEW r \in Managed, role[r] = 1, NEW v \in Vpn, Walk(r, v)' # None
  PROVE  Walk(r, v)' = Walk(r, v)
<1> DEFINE a == entries'[r][Top(v)].ppn
           b == entries'[a][Middle(v)].ppn
<1>1. /\ IsPointer(entries'[r][Top(v)]) /\ IsPointer(entries'[a][Middle(v)])
      /\ Walk(r, v)' = entries'[b][Bottom(v)]
  BY WalkBack, WalkIsWalkIn
<1>2. Top(v) \in Idx /\ Middle(v) \in Idx /\ Bottom(v) \in Idx
  BY VpnLevels, Levels
<1>3. t # f /\ \A j \in Idx : entries'[f][j] = None
  <2>1. entries[f] = EmptyTable /\ role[f] = 0
    BY FreeIsEmpty DEF TreeInv, RolesOK
  <2> QED
    BY <2>1 DEF Writes, EmptyTable
<1>4. ~(r = t /\ Top(v) = i)
  <2> SUFFICES ASSUME r = t, Top(v) = i PROVE FALSE
    OBVIOUS
  <2>1. a = f
    BY <1>2, EntryFacts DEF Writes
  <2> QED
    BY <2>1, <1>1, <1>2, <1>3, EntryFacts
<1>5. entries'[r][Top(v)] = entries[r][Top(v)] /\ entries[r][Top(v)] # None
  BY <1>1, <1>2, <1>4 DEF Writes, IsPointer
<1>6. a \in Managed /\ role[a] = 2 /\ entries[r][Top(v)] = Pointer(a)
  BY <1>2, <1>5, Below
<1> HIDE DEF a
<1>7. ~(a = t /\ Middle(v) = i)
  <2> SUFFICES ASSUME a = t, Middle(v) = i PROVE FALSE
    OBVIOUS
  <2>1. b = f
    BY <1>2, EntryFacts DEF Writes
  <2> QED
    BY <2>1, <1>1, <1>2, <1>3
<1>8. entries'[a][Middle(v)] = entries[a][Middle(v)] /\ entries[a][Middle(v)] # None
  BY <1>1, <1>2, <1>6, <1>7 DEF Writes, IsPointer
<1>9. b \in Managed /\ role[b] = 3 /\ entries[a][Middle(v)] = Pointer(b)
  BY <1>2, <1>6, <1>8, Below
<1> HIDE DEF b
<1>10. entries'[b][Bottom(v)] = entries[b][Bottom(v)]
  BY <1>2, <1>9 DEF Writes
<1>11. Walk(r, v) = entries[b][Bottom(v)]
  BY <1>6, <1>9, WalkDown, WalkIsWalkIn
<1> QED
  BY <1>1, <1>10, <1>11 DEF b

\* A new page adds its own.
LEMMA WalkLeaf ==
  ASSUME TreeInv, NEW t \in Managed, NEW i \in Idx, role[t] = 3, NEW e, Writes(t, i, e),
         NEW r \in Managed, role[r] = 1, NEW v \in Vpn, Walk(r, v)' # None
  PROVE  \/ Walk(r, v)' = Walk(r, v)
         \/ /\ Walk(r, v)' = e /\ Bottom(v) = i
            /\ \E a \in Managed : Path(r, v, a, t)
<1> DEFINE a == entries'[r][Top(v)].ppn
           b == entries'[a][Middle(v)].ppn
<1>1. /\ IsPointer(entries'[r][Top(v)]) /\ IsPointer(entries'[a][Middle(v)])
      /\ Walk(r, v)' = entries'[b][Bottom(v)]
  BY WalkBack, WalkIsWalkIn
<1>2. Top(v) \in Idx /\ Middle(v) \in Idx /\ Bottom(v) \in Idx
  BY VpnLevels, Levels
<1>3. entries'[r][Top(v)] = entries[r][Top(v)] /\ entries[r][Top(v)] # None
  <2>1. r # t
    OBVIOUS
  <2>2. entries'[r][Top(v)] = entries[r][Top(v)]
    BY <1>2, <2>1 DEF Writes
  <2>3. entries'[r][Top(v)] # None
    BY <1>1, EntryFacts
  <2> QED
    BY <2>2, <2>3
<1>4. a \in Managed /\ role[a] = 2 /\ entries[r][Top(v)] = Pointer(a)
  BY <1>2, <1>3, Below
<1> HIDE DEF a
<1>5. entries'[a][Middle(v)] = entries[a][Middle(v)] /\ entries[a][Middle(v)] # None
  BY <1>1, <1>2, <1>4 DEF Writes, IsPointer
<1>6. b \in Managed /\ role[b] = 3 /\ entries[a][Middle(v)] = Pointer(b)
  BY <1>2, <1>4, <1>5, Below
<1> HIDE DEF b
<1>7. Path(r, v, a, b)
  BY <1>4, <1>6 DEF Path
<1>8. Walk(r, v) = entries[b][Bottom(v)]
  BY <1>4, <1>6, WalkDown, WalkIsWalkIn
<1>9. CASE b = t /\ Bottom(v) = i
  BY <1>1, <1>2, <1>4, <1>7, <1>9 DEF Writes, b
<1>10. CASE ~(b = t /\ Bottom(v) = i)
  <2>1. entries'[b][Bottom(v)] = entries[b][Bottom(v)]
    BY <1>2, <1>6, <1>10 DEF Writes
  <2> QED
    BY <2>1, <1>1, <1>8 DEF b
<1> QED
  BY <1>9, <1>10

\* How the steps change the tables.
LEMMA MemoryStep ==
  ASSUME TreeInv, [Next]_vars
  PROVE  \/ entries' = entries
         \/ /\ table \in Managed /\ Here \in Idx /\ role[table] \in {1, 2}
            /\ \E f \in Managed : f \notin held /\ Writes(table, Here, Pointer(f))
         \/ MapLinear /\ Writes(table, Here, Leaf(vpn - PageOffset, seg.flags))
         \/ /\ MapFramed \/ MapFramedAndCopy
            /\ \E f \in Managed : GivesRole(f, 4) /\ Writes(table, Here, Leaf(f, seg.flags))
<1>1. CASE UNCHANGED memVars
  BY <1>1 DEF memVars
<1>2. ASSUME NEW p \in Program \cup {Kernel}, NewMapping(p), pc \in {"mapKernel", "ready"}
      PROVE  entries' = entries
  BY <1>2, NewMappingTree
<1>3. CASE FindEntry
  BY <1>3, FindEntryTree
<1>4. CASE MapLinear
  BY <1>4, MapLinearTree
<1>5. CASE MapFramed
  BY <1>5, MapFramedTree
<1>6. CASE MapFramedAndCopy
  BY <1>6, MapFramedAndCopyTree
<1> QED
  BY <1>1, <1>2, <1>3, <1>4, <1>5, <1>6
  DEF Next, MapKernel, NewUserThread, KernelMapped, Finish, SwitchContext, SkipSegment,
      StartSegment, EndSegment, FindDepleted, MapFails, Stop, Stopped, vars

LEMMA RootFacts ==
  ASSUME TreeInv
  PROVE  /\ \A r \in SpaceRoots : r \in Managed /\ role[r] = 1
         /\ pc # "mapKernel" => root \in Managed /\ role[root] = 1
<1>1. SpaceRoots \subseteq held /\ held \subseteq Managed /\ (pc # "mapKernel" => root \in held)
  BY DEF TreeInv, TypeOK, SpaceRoots
<1>2. SpaceRoots \subseteq Roots /\ (pc # "mapKernel" => root \in Roots)
  BY <1>1 DEF SpaceRoots, Roots
<1> QED
  BY <1>1, <1>2 DEF TreeInv, RolesOK

\* No step takes a translation away or changes it.
LEMMA TranslationsStay ==
  ASSUME TreeInv, [Next]_vars, NEW r \in Managed, role[r] = 1, NEW v \in Vpn, Walk(r, v) # None
  PROVE  Walk(r, v)' = Walk(r, v)
<1>1. CASE entries' = entries
  BY <1>1, WalkIsWalkIn
<1>2. CASE \E t \in Managed : \E i \in Idx : \E e : Writes(t, i, e)
  BY <1>2, WalkKept
<1>3. AtEntry => table \in Managed /\ Here \in Idx
  BY FoundPath
<1> QED
  BY <1>1, <1>2, <1>3, MemoryStep DEF MapLinear, MapFramed, MapFramedAndCopy

\* The page that was just mapped.
LEMMA WalkWritten ==
  ASSUME TreeInv, AtEntry, NEW e, Writes(table, Here, e),
         NEW r \in Managed, NEW v \in Vpn, r = root, v = vpn
  PROVE  Walk(r, v)' = e
<1>1. PICK a \in Managed : Path(root, vpn, a, table)
  BY FoundPath
<1>2. Here = Bottom(vpn) /\ Here \in Idx /\ table \in Managed /\ vpn \in Nat
  BY FoundPath
<1>3. Top(vpn) \in Idx /\ Middle(vpn) \in Idx
  BY <1>2, Levels
<1>4. /\ entries'[r][Top(v)] = Pointer(a) /\ entries'[a][Middle(v)] = Pointer(table)
      /\ entries'[table][Bottom(v)] = e
  BY <1>1, <1>2, <1>3, EntryFacts DEF Writes, Path
<1>5. WalkIn(entries', r, v) = e
  BY <1>1, <1>2, <1>4, WalkDown
<1> QED
  BY <1>5, WalkIsWalkIn
-----------------------------------------------------------------------------
(* The linear map.                                                         *)

LEMMA LinearVpn ==
  ASSUME NEW p \in TextStart .. MemoryEnd - 1
  PROVE  p \in Nat /\ p + PageOffset \in Nat /\ p + PageOffset \in Vpn
  BY Constants DEF Vpn

LEMMA LinearStays ==
  ASSUME TreeInv, [Next]_vars, NEW p \in TextStart .. MemoryEnd - 1,
         NEW r \in Managed, role[r] = 1, LinearAt(r, p)
  PROVE  LinearAt(r, p)'
<1>1. Walk(r, p + PageOffset) # None
  BY DEF LinearAt
<1>2. Walk(r, p + PageOffset)' = Walk(r, p + PageOffset)
  BY <1>1, LinearVpn, TranslationsStay
<1> QED
  BY <1>2 DEF LinearAt

\* The segments of newKernelMapping leave out no page.
LEMMA KernelIsMapped ==
  ASSUME NEW p \in TextStart .. MemoryEnd - 1
  PROVE  \E k \in 1 .. Len(KernelSegments) : WillMap(KernelSegments[k], p)
<1>1. ASSUME NEW a \in Nat, NEW b \in Nat, NEW flags \in SUBSET Flag, a <= p, p < b,
             "R" \in flags, "U" \notin flags, "W" \in flags <=> p >= DataStart
      PROVE  WillMap(LinearSegment(a, b, flags), p)
  <2>1. /\ LinearSegment(a, b, flags).start \div PageSize = a + PageOffset
        /\ EndVpn(LinearSegment(a, b, flags)) = b + PageOffset
    BY LinearPages
  <2>2. LinearSegment(a, b, flags).kind = "linear" /\ LinearSegment(a, b, flags).flags = flags
    BY DEF LinearSegment
  <2>3. Spans(LinearSegment(a, b, flags), p + PageOffset)
    BY <1>1, <2>1, Constants DEF Spans
  <2> QED
    BY <1>1, <2>2, <2>3 DEF WillMap
<1> DEFINE s1 == LinearSegment(TextStart, RodataStart, {"R", "X"})
           s2 == LinearSegment(RodataStart, DataStart, {"R"})
           s3 == LinearSegment(DataStart, BssStart, {"R", "W"})
           s4 == LinearSegment(BssStart, KernelEnd, {"R", "W"})
           s5 == LinearSegment(KernelEnd, MemoryEnd, {"R", "W"})
<1>2. \/ WillMap(s1, p) \/ WillMap(s2, p) \/ WillMap(s3, p) \/ WillMap(s4, p) \/ WillMap(s5, p)
  <2>1. /\ {"R", "X"} \in SUBSET Flag /\ {"R"} \in SUBSET Flag /\ {"R", "W"} \in SUBSET Flag
        /\ "W" \notin {"R", "X"} /\ "W" \notin {"R"} /\ "U" \notin {"R", "X"}
        /\ "U" \notin {"R"} /\ "U" \notin {"R", "W"}
    BY DEF Flag
  <2>2. CASE p < RodataStart
    BY <1>1, <2>1, <2>2, Constants
  <2>3. CASE RodataStart <= p /\ p < DataStart
    BY <1>1, <2>1, <2>3, Constants
  <2>4. CASE DataStart <= p /\ p < BssStart
    BY <1>1, <2>1, <2>4, Constants
  <2>5. CASE BssStart <= p /\ p < KernelEnd
    BY <1>1, <2>1, <2>5, Constants
  <2>6. CASE KernelEnd <= p
    BY <1>1, <2>1, <2>6, Constants
  <2> QED
    BY <2>2, <2>3, <2>4, <2>5, <2>6, Constants
<1>3. KernelSegments = <<s1, s2, s3, s4, s5>>
  BY DEF KernelSegments
<1> HIDE DEF s1, s2, s3, s4, s5
<1>4. /\ Len(KernelSegments) = 5 /\ KernelSegments[1] = s1 /\ KernelSegments[2] = s2
      /\ KernelSegments[3] = s3 /\ KernelSegments[4] = s4 /\ KernelSegments[5] = s5
  BY <1>3
<1> QED
  BY <1>2, <1>4

LEMMA NothingOwed ==
  ASSUME NEW p, Owed(p), pc = "segment", todo = <<>>
  PROVE  LinearAt(root, p)
  BY DEF Owed

LEMMA MapLinearOwed ==
  ASSUME TreeInv, NEW p \in TextStart .. MemoryEnd - 1, MapLinear, Owed(p)
  PROVE  Owed(p)'
<1>1. /\ root' = root /\ todo' = todo /\ seg' = seg /\ pc' = pc /\ vpn' = vpn + 1
      /\ pc = "page" /\ vpn \in Nat
  BY DEF MapLinear, AtEntry, NextPage, jobVars, TreeInv, TypeOK
<1>2. [Next]_vars /\ root \in Managed /\ role[root] = 1
  BY RootFacts, <1>1 DEF Next
<1>3. CASE LinearAt(root, p)
  <2>1. PICK r \in Managed : r = root
    BY <1>2
  <2>2. LinearAt(r, p)'
    BY <2>1, <1>2, <1>3, LinearStays
  <2>3. LinearAt(root, p)'
    BY <2>1, <2>2, <1>1 DEF LinearAt, Walk
  <2> QED
    BY <2>3 DEF Owed
<1>4. CASE \E k \in 1 .. Len(todo) : WillMap(todo[k], p)
  BY <1>1, <1>4 DEF Owed, WillMap, Spans, EndVpn
<1>5. CASE WillMap(seg, p) /\ vpn <= p + PageOffset /\ vpn # p + PageOffset
  <2>1. vpn' <= p + PageOffset
    BY <1>1, <1>5, LinearVpn
  <2> QED
    BY <2>1, <1>1, <1>5 DEF Owed, WillMap, Spans, EndVpn
<1>6. CASE WillMap(seg, p) /\ vpn = p + PageOffset
  <2> DEFINE e == Leaf(vpn - PageOffset, seg.flags)
  <2>1. Writes(table, Here, e) /\ AtEntry
    BY MapLinearTree DEF MapLinear
  <2>2. vpn - PageOffset = p /\ p \in 0 .. MemoryEnd - 1
    BY <1>6, LinearVpn, Constants
  <2>3. seg.flags \in SUBSET Flag /\ "R" \in seg.flags
    BY <1>6 DEF WillMap, TreeInv, TypeOK, Segment
  <2>4. e # None /\ e.ppn = p /\ e.flags = seg.flags \cup {"V"}
    BY <2>2, <2>3, LeafFacts
  <2> HIDE DEF e
  <2>5. PICK r \in Managed, v \in Vpn : r = root /\ v = vpn
    BY <1>2, <1>6, LinearVpn
  <2>6. Walk(r, v)' = e
    BY <2>1, <2>5, WalkWritten
  <2>7. LinearAt(r, p)'
    <3>1. v = p + PageOffset
      BY <1>6, <2>5
    <3> QED
      BY <3>1, <2>4, <2>6, <1>6 DEF LinearAt, WillMap
  <2>8. LinearAt(root, p)'
    BY <2>5, <2>7, <1>1 DEF LinearAt, Walk
  <2> QED
    BY <2>8 DEF Owed
<1> QED
  BY <1>3, <1>4, <1>5, <1>6 DEF Owed

\* Taking up the next segment.
LEMMA TakeOwed ==
  ASSUME TreeInv, NEW p, Owed(p), pc = "segment", todo # <<>>, todo' = Tail(todo),
         root' = root, entries' = entries,
         Head(todo).kind # "linear" \/ (pc' = "page" /\ seg' = Head(todo)
                                          /\ vpn' = Head(todo).start \div PageSize)
  PROVE  Owed(p)'
<1>1. CASE LinearAt(root, p)
  BY <1>1 DEF Owed, LinearAt, Walk
<1>2. ASSUME NEW k \in 1 .. Len(todo), k # 1, WillMap(todo[k], p)
      PROVE  Owed(p)'
  <2>1. k - 1 \in 1 .. Len(todo') /\ todo'[k - 1] = todo[k]
    BY <1>2, TakeOne
  <2>2. WillMap(todo'[k - 1], p)
    BY <1>2, <2>1
  <2>3. \E j \in 1 .. Len(todo') : WillMap(todo'[j], p)
    BY <2>1, <2>2
  <2> QED
    BY <2>3 DEF Owed, WillMap, Spans, EndVpn
<1>3. CASE WillMap(todo[1], p)
  <2>1. pc' = "page" /\ seg' = todo[1] /\ vpn' = todo[1].start \div PageSize
    BY <1>3, TakeOne DEF WillMap
  <2>2. WillMap(seg, p)' /\ vpn' <= p + PageOffset
    BY <1>3, <2>1 DEF WillMap, Spans, EndVpn
  <2> QED
    BY <2>1, <2>2 DEF Owed
<1> QED
  BY <1>1, <1>2, <1>3 DEF Owed

LEMMA StepOwed ==
  ASSUME TreeInv, [Next]_vars, NEW p \in TextStart .. MemoryEnd - 1,
         Building => Owed(p), Building'
  PROVE  Owed(p)'
<1>1. CASE UNCHANGED vars
  BY <1>1 DEF vars, memVars, jobVars, segVars, Building, Owed, LinearAt, Walk, WillMap, Spans, EndVpn
<1>2. ASSUME NEW q \in Program \cup {Kernel}, NewMapping(q)
      PROVE  Owed(p)'
  <2>1. todo' = KernelSegments
    BY <1>2 DEF NewMapping
  <2> QED
    BY <2>1, KernelIsMapped DEF Owed, WillMap, Spans, EndVpn
<1>3. CASE KernelMapped /\ ~Stop
  <2>1. LinearAt(root, p)
    BY <1>3, NothingOwed DEF KernelMapped, Building
  <2>2. root' = root /\ entries' = entries
    BY <1>3 DEF KernelMapped, memVars
  <2> QED
    BY <2>1, <2>2 DEF Owed, LinearAt, Walk
<1>4. CASE SkipSegment
  BY <1>4, TakeOwed DEF SkipSegment, Building, memVars
<1>5. CASE StartSegment
  BY <1>5, TakeOwed DEF StartSegment, Building, memVars
<1>6. CASE EndSegment
  <2>1. Owed(p) /\ vpn >= EndVpn(seg)
    BY <1>6 DEF EndSegment, Building
  <2>2. vpn \in Nat /\ p + PageOffset \in Nat /\ EndVpn(seg) \in Int
    <3>1. seg.end \in Nat
      BY DEF TreeInv, TypeOK, Segment
    <3> QED
      BY <3>1, LinearVpn, Constants DEF TreeInv, TypeOK, EndVpn
  <2>3. LinearAt(root, p) \/ \E k \in 1 .. Len(todo) : WillMap(todo[k], p)
    BY <2>1, <2>2 DEF Owed, WillMap, Spans
  <2>4. root' = root /\ entries' = entries /\ todo' = todo
    BY <1>6 DEF EndSegment, memVars, jobVars
  <2> QED
    BY <2>3, <2>4 DEF Owed, LinearAt, Walk, WillMap, Spans, EndVpn
<1>7. ASSUME FindEntry \/ MapFramed \/ MapFramedAndCopy
      PROVE  Owed(p)'
  <2>1. /\ Owed(p) /\ root' = root /\ todo' = todo /\ seg' = seg /\ pc' = pc /\ pc = "page"
        /\ FindEntry => vpn' = vpn
        /\ ~FindEntry => seg.kind # "linear"
    BY <1>7 DEF FindEntry, MapFramed, MapFramedAndCopy, AtEntry, NextPage, jobVars, segVars, Building
  <2>2. root \in Managed /\ role[root] = 1
    BY <2>1, RootFacts
  <2>3. CASE LinearAt(root, p)
    <3>1. PICK r \in Managed : r = root
      BY <2>2
    <3>2. LinearAt(r, p)'
      BY <3>1, <2>2, <2>3, LinearStays
    <3>3. LinearAt(root, p)'
      BY <3>1, <3>2, <2>1 DEF LinearAt, Walk
    <3> QED
      BY <3>3 DEF Owed
  <2>4. CASE ~LinearAt(root, p)
    BY <2>1, <2>4 DEF Owed, WillMap, Spans, EndVpn
  <2> QED
    BY <2>3, <2>4
<1>8. CASE MapLinear
  <2>1. Owed(p)
    BY <1>8 DEF MapLinear, AtEntry, Building
  <2> QED
    BY <1>8, <2>1, MapLinearOwed
<1>9. CASE pc' \notin {"segment", "page"}
  BY <1>9 DEF Building
<1> QED
  BY <1>1, <1>2, <1>3, <1>4, <1>5, <1>6, <1>7, <1>8, <1>9
  DEF Next, MapKernel, NewUserThread, KernelMapped, Finish, SwitchContext, FindDepleted,
      MapFails, Stop, Stopped

LEMMA StepLinear == TreeInv /\ LinearInv /\ [Next]_vars => LinearInv'
<1> SUFFICES ASSUME TreeInv, LinearInv, [Next]_vars, NEW p \in TextStart .. MemoryEnd - 1
             PROVE  (\A r \in SpaceRoots' : LinearAt(r, p)') /\ (Building' => Owed(p)')
  BY DEF LinearInv
<1>1. Building => Owed(p)
  BY DEF LinearInv
<1>2. ASSUME NEW r \in SpaceRoots'
      PROVE  r \in Managed /\ role[r] = 1 /\ LinearAt(r, p)
  <2>1. CASE r \in SpaceRoots
    BY <2>1, RootFacts DEF LinearInv
  <2>2. CASE r \notin SpaceRoots
    <3>1. Finish /\ r = root
      <4>1. spaces' # spaces
        BY <2>2 DEF SpaceRoots
      <4>2. Finish
        BY <4>1
        DEF Next, MapKernel, NewUserThread, NewMapping, KernelMapped, SwitchContext, SkipSegment,
            StartSegment, EndSegment, FindEntry, FindDepleted, MapLinear, MapFramed,
            MapFramedAndCopy, MapFails, NextPage, Stop, Stopped, vars
      <4>3. spaces' = spaces \cup {[prog |-> prog, root |-> root]}
        BY <4>2 DEF Finish
      <4> QED
        BY <4>2, <4>3, <2>2 DEF SpaceRoots
    <3>2. LinearAt(root, p)
      BY <3>1, <1>1, NothingOwed DEF Finish, Building
    <3> QED
      BY <3>1, <3>2, RootFacts DEF Finish
  <2> QED
    BY <2>1, <2>2
<1> QED
  BY <1>1, <1>2, StepOwed, LinearStays

LEMMA LinearInvariant == Spec => [](TreeInv /\ LinearInv)
<1>1. Init => LinearInv
  BY DEF Init, LinearInv, SpaceRoots, Building
<1> QED
  BY <1>1, InitTree, StepTree, StepLinear, PTL DEF Spec

\* Whatever is loaded, and whichever address space is active, the kernel
\* reaches every page of the memory at its linear address.
THEOREM LinearMapStays == Spec => []LinearMapIntact
<1>1. TreeInv /\ LinearInv => LinearMapIntact
  <2> SUFFICES ASSUME TreeInv, LinearInv PROVE LinearMapIntact
    OBVIOUS
  <2>1. \A r \in SpaceRoots \cup {satp} : r # Boot => r \in SpaceRoots
    BY DEF TreeInv, JobOK
  <2>2. \A r \in SpaceRoots : \A p \in TextStart .. MemoryEnd - 1 : LinearAt(r, p)
    BY DEF LinearInv
  <2> QED
    BY <2>1, <2>2 DEF LinearMapIntact, LinearAt, SpaceRoots
<1> QED
  BY <1>1, LinearInvariant, PTL
-----------------------------------------------------------------------------
(* The pages of the users.                                                 *)

LEMMA HeaderTypes ==
  ASSUME NEW p \in Program, NEW j \in DOMAIN Header[p]
  PROVE  /\ Header[p][j].load \in BOOLEAN /\ Header[p][j].vaddr \in Nat \ {0}
         /\ Header[p][j].filesz \in Nat /\ Header[p][j].memsz \in Nat
         /\ Header[p][j].flags \in SUBSET {"R", "W", "X"}
<1> DEFINE H == [load : BOOLEAN, vaddr : Nat \ {0}, filesz : Nat, memsz : Nat,
                 flags : SUBSET {"R", "W", "X"}]
<1>1. Header[p] \in Seq(H)
  BY MappingAssumption
<1> HIDE DEF H
<1>2. Header[p][j] \in H
  BY <1>1
<1> QED
  BY <1>2 DEF H

\* The pages from the first to the last byte of a segment.
LEMMA PagesOfSegment ==
  ASSUME NEW g, g.start \in Nat, g.end \in Nat, g.start < g.end,
         NEW n \in Nat, g.end <= n * PageSize,
         NEW v \in Nat, Spans(g, v)
  PROVE  v \in PagesOf(g) /\ v < n
<1>1. PageSize \in Nat \ {0} /\ g.end - 1 \in Nat
  BY Constants
<1>2. g.start \div PageSize <= v /\ v <= (g.end - 1) \div PageSize
  BY <1>1 DEF Spans, EndVpn
<1>3. v < n
  <2>1. g.end - 1 < PageSize * n
    BY <1>1
  <2>2. (g.end - 1) \div PageSize < n /\ (g.end - 1) \div PageSize \in Nat
    BY <1>1, <2>1, DivLess, DivFacts
  <2> QED
    BY <1>2, <2>2
<1>4. \E a \in g.start .. g.end - 1 : a \div PageSize = v
  <2>1. CASE g.start <= PageSize * v
    <3> DEFINE a == PageSize * v
               q == (g.end - 1) \div PageSize
    <3>1. q \in Nat /\ PageSize * q <= g.end - 1
      <4>1. /\ q \in Nat /\ (g.end - 1) % PageSize \in 0 .. PageSize - 1
            /\ g.end - 1 = PageSize * q + ((g.end - 1) % PageSize)
        BY <1>1, DivFacts
      <4> QED
        BY <4>1, <1>1
    <3> HIDE DEF q
    <3>2. PageSize * v <= PageSize * q
      BY <1>1, <1>2, <3>1 DEF q
    <3>3. a \in Nat /\ a <= g.end - 1
      BY <3>1, <3>2, <1>1
    <3>4. a \div PageSize = v
      BY <3>3, <1>1, DivUnique
    <3> QED
      BY <3>3, <3>4, <2>1
  <2>2. CASE PageSize * v < g.start
    <3> DEFINE q == g.start \div PageSize
    <3>1. /\ q \in Nat /\ g.start % PageSize \in 0 .. PageSize - 1
          /\ g.start = PageSize * q + (g.start % PageSize)
      BY <1>1, DivFacts
    <3> HIDE DEF q
    <3>2. q <= v
      BY <1>2 DEF q
    <3>3. v <= q
      <4> SUFFICES ASSUME q + 1 <= v PROVE FALSE
        BY <3>1
      <4>1. PageSize * (q + 1) <= PageSize * v
        BY <1>1, <3>1
      <4>2. PageSize * (q + 1) = PageSize * q + PageSize
        BY <1>1, <3>1
      <4> QED
        BY <4>1, <4>2, <2>2, <3>1, <1>1
    <3>4. g.start \div PageSize = v
      BY <3>1, <3>2, <3>3 DEF q
    <3> QED
      BY <3>4, <1>1
  <2> QED
    BY <2>1, <2>2, <1>1
<1> QED
  BY <1>3, <1>4 DEF PagesOf

\* Which segments are not linear.
LEMMA UserSegment ==
  ASSUME NEW p, NEW g, SegmentOf(p, g), g.kind \notin {"linear", "skip"}
  PROVE  /\ p \in Program
         /\ g = StackSegment \/ \E j \in DOMAIN Header[p] : Header[p][j].load /\ g = HeaderSegment(p, j)
  BY DEF SegmentOf, LinearOK

LEMMA UserSegmentPages ==
  ASSUME NEW p, NEW g, SegmentOf(p, g), g.kind \notin {"linear", "skip"},
         NEW v \in Nat, Spans(g, v)
  PROVE  v \in OwnPages(p) /\ v \in Vpn
<1> DEFINE n == Fan * Fan * Fan
<1>1. p \in Program /\ p # Kernel
  BY UserSegment, MappingAssumption DEF Kernel
<1>2. n \in Nat /\ \A m \in Nat : m < n => m \in Vpn
  BY Constants DEF Vpn
<1>3. CASE g = StackSegment
  <2>1. /\ g.start = StackStart /\ g.end = StackStart + StackSize
        /\ g.end <= (PageOffset + TextStart) * PageSize
    BY <1>3, MappingAssumption DEF StackSegment
  <2> DEFINE m == PageOffset + TextStart
  <2>2. m \in Nat /\ m <= n /\ g.start \in Nat /\ g.end \in Nat /\ g.start < g.end
        /\ g.end <= m * PageSize
    BY <2>1, Constants
  <2> HIDE DEF m, n
  <2>3. v \in PagesOf(g) /\ v < m
    BY <2>2, PagesOfSegment
  <2>4. v \in OwnPages(p)
    BY <1>1, <1>3, <2>3 DEF OwnPages
  <2>5. v < n
    BY <1>2, <2>2, <2>3
  <2> QED
    BY <1>2, <2>4, <2>5
<1>4. CASE \E j \in DOMAIN Header[p] : Header[p][j].load /\ g = HeaderSegment(p, j)
  <2>1. PICK j \in DOMAIN Header[p] : Header[p][j].load /\ g = HeaderSegment(p, j)
    BY <1>4
  <2>2. g.start = Header[p][j].vaddr /\ g.end = Header[p][j].vaddr + Header[p][j].memsz
    BY <2>1 DEF HeaderSegment
  <2>3. /\ Header[p][j].memsz > 0
        /\ Header[p][j].vaddr + Header[p][j].memsz <= n * PageSize
    BY <1>1, <2>1, LinkAssumption
  <2>4. Header[p][j].vaddr \in Nat /\ Header[p][j].memsz \in Nat
    BY <1>1, HeaderTypes
  <2> HIDE DEF n
  <2>5. g.start \in Nat /\ g.end \in Nat /\ g.start < g.end /\ g.end <= n * PageSize
    BY <2>2, <2>3, <2>4
  <2>6. v \in PagesOf(g) /\ v < n
    BY <1>2, <2>5, PagesOfSegment
  <2> QED
    BY <1>1, <1>2, <2>1, <2>6 DEF OwnPages
<1> QED
  BY <1>3, <1>4, UserSegment

\* The translations that a step adds: one, of the page being mapped.
LEMMA NewTranslation ==
  ASSUME TreeInv, [Next]_vars, NEW r \in Managed, role[r] = 1, NEW v \in Vpn, Walk(r, v)' # None
  PROVE  \/ Walk(r, v)' = Walk(r, v)
         \/ "U" \notin Walk(r, v)'.flags
         \/ /\ MapFramed \/ MapFramedAndCopy
            /\ r = root /\ v = vpn /\ v \in OwnPages(prog)
            /\ \E f \in Managed : GivesRole(f, 4) /\ Walk(r, v)' = Leaf(f, seg.flags)
<1>1. CASE entries' = entries
  BY <1>1, WalkIsWalkIn
<1>2. CASE /\ table \in Managed /\ Here \in Idx /\ role[table] \in {1, 2}
           /\ \E f \in Managed : f \notin held /\ Writes(table, Here, Pointer(f))
  BY <1>2, WalkTable
<1>3. CASE MapLinear /\ Writes(table, Here, Leaf(vpn - PageOffset, seg.flags))
  <2>1. AtEntry /\ SegmentOf(prog, seg) /\ seg.kind = "linear"
    BY <1>3 DEF MapLinear, AtEntry, TreeInv, SegmentsOK
  <2>2. table \in Managed /\ Here \in Idx /\ role[table] = 3
    BY <2>1, FoundPath
  <2>3. Walk(r, v)' = Walk(r, v) \/ Walk(r, v)' = Leaf(vpn - PageOffset, seg.flags)
    BY <1>3, <2>2, WalkLeaf
  <2>4. "U" \notin Leaf(vpn - PageOffset, seg.flags).flags
    <3>1. seg # StackSegment
      BY <2>1, StackSegmentFacts
    <3>2. prog \in Program => \A j \in DOMAIN Header[prog] : seg # HeaderSegment(prog, j)
      BY <2>1, HeaderSegmentFacts
    <3>3. LinearOK(seg)
      BY <2>1, <3>1, <3>2 DEF SegmentOf
    <3> QED
      BY <3>3 DEF LinearOK, Leaf
  <2> QED
    BY <2>3, <2>4
<1>4. CASE /\ MapFramed \/ MapFramedAndCopy
           /\ \E f \in Managed : GivesRole(f, 4) /\ Writes(table, Here, Leaf(f, seg.flags))
  <2>1. AtEntry /\ SegmentOf(prog, seg) /\ seg.kind \notin {"linear", "skip"} /\ Spans(seg, vpn)
    BY <1>4 DEF MapFramed, MapFramedAndCopy, AtEntry, TreeInv, SegmentsOK, Spans
  <2>2. /\ table \in Managed /\ Here \in Idx /\ role[table] = 3 /\ Here = Bottom(vpn)
        /\ vpn \in Nat /\ root \in Managed
    BY <2>1, FoundPath
  <2>3. vpn \in Vpn /\ vpn \in OwnPages(prog)
    BY <2>1, <2>2, UserSegmentPages
  <2>4. PICK f \in Managed : GivesRole(f, 4) /\ Writes(table, Here, Leaf(f, seg.flags))
    BY <1>4
  <2>5. CASE Walk(r, v)' = Leaf(f, seg.flags) /\ Bottom(v) = Here
             /\ \E a \in Managed : Path(r, v, a, table)
    <3>1. PICK a \in Managed : Path(r, v, a, table)
      BY <2>5
    <3>2. PICK c \in Managed : Path(root, vpn, c, table)
      BY <2>1, FoundPath
    <3>3. v \in Nat
      BY VpnLevels
    <3>4. r = root /\ Top(v) = Top(vpn) /\ Middle(v) = Middle(vpn)
      BY <2>2, <3>1, <3>2, <3>3, PathInjective
    <3>5. v = vpn
      BY <2>2, <2>3, <2>5, <3>4, LevelsInjective
    <3> QED
      BY <1>4, <2>3, <2>4, <2>5, <3>4, <3>5
  <2> QED
    BY <2>2, <2>4, <2>5, WalkLeaf
<1> QED
  BY <1>1, <1>2, <1>3, <1>4, MemoryStep

LEMMA OwnStep == TreeInv /\ OwnInv /\ [Next]_vars => OwnInv'
<1> SUFFICES ASSUME TreeInv, OwnInv, [Next]_vars, NEW v \in Vpn
             PROVE  /\ \A space \in spaces' :
                         UserMay(Walk(space.root, v)') => v \in OwnPages(space.prog)
                    /\ Building' => (UserMay(Walk(root, v))' => v \in OwnPages(prog'))
  BY DEF OwnInv, UserMay, Walk, OwnPages
<1>1. ~UserMay(None)
  BY DEF UserMay, None
<1>2. ASSUME NEW r \in Managed, role[r] = 1, NEW p, UserMay(Walk(r, v)) => v \in OwnPages(p),
             r = root => p = prog, UserMay(Walk(r, v)')
      PROVE  v \in OwnPages(p)
  <2>1. Walk(r, v)' # None /\ "U" \in Walk(r, v)'.flags
    BY <1>1, <1>2 DEF UserMay
  <2>2. Walk(r, v)' = Walk(r, v) \/ (r = root /\ v \in OwnPages(prog))
    BY <1>2, <2>1, NewTranslation
  <2> QED
    BY <1>2, <2>2
<1>3. ASSUME NEW space \in spaces', UserMay(Walk(space.root, v)')
      PROVE  v \in OwnPages(space.prog)
  <2>1. CASE space \in spaces
    <3>1. space.root \in SpaceRoots
      BY <2>1 DEF SpaceRoots
    <3>2. space.root \in Managed /\ role[space.root] = 1
      BY <3>1, RootFacts
    <3>3. UserMay(Walk(space.root, v)) => v \in OwnPages(space.prog)
      BY <2>1 DEF OwnInv
    <3>4. Walk(space.root, v)' = Walk(space.root, v) \/ "U" \notin Walk(space.root, v)'.flags
      <4>1. CASE MapFramed \/ MapFramedAndCopy
        <5>1. root \notin SpaceRoots
          BY <4>1 DEF MapFramed, MapFramedAndCopy, AtEntry, TreeInv, JobOK, Building
        <5> QED
          BY <1>1, <1>3, <3>1, <3>2, <5>1, NewTranslation DEF UserMay
      <4>2. CASE ~(MapFramed \/ MapFramedAndCopy)
        BY <1>1, <1>3, <3>2, <4>2, NewTranslation
      <4> QED
        BY <4>1, <4>2
    <3> QED
      BY <1>3, <3>3, <3>4 DEF UserMay
  <2>2. CASE space \notin spaces
    <3>1. Finish
      BY <2>2
      DEF Next, MapKernel, NewUserThread, NewMapping, KernelMapped, SwitchContext, SkipSegment,
          StartSegment, EndSegment, FindEntry, FindDepleted, MapLinear, MapFramed,
          MapFramedAndCopy, MapFails, NextPage, Stop, Stopped, vars
    <3>2. space = [prog |-> prog, root |-> root] /\ Building
      BY <2>2, <3>1 DEF Finish, Building
    <3>3. space.root = root /\ space.prog = prog
      BY <3>2
    <3>4. root \in Managed /\ role[root] = 1
      BY <3>2, RootFacts DEF Building
    <3>5. UserMay(Walk(root, v)) => v \in OwnPages(prog)
      BY <3>2 DEF OwnInv
    <3>6. entries' = entries
      BY <3>1 DEF Finish, memVars
    <3>7. Walk(space.root, v)' = Walk(root, v)
      BY <3>3, <3>6 DEF Walk
    <3> QED
      BY <1>3, <3>3, <3>5, <3>7
  <2> QED
    BY <2>1, <2>2
<1>4. ASSUME Building', UserMay(Walk(root, v))'
      PROVE  v \in OwnPages(prog')
  <2>1. CASE Building
    <3>1. root' = root /\ prog' = prog
      BY <1>4, <2>1
      DEF Building, Next, MapKernel, NewUserThread, KernelMapped, Finish, SwitchContext,
          SkipSegment, StartSegment, EndSegment, FindEntry, FindDepleted, MapLinear, MapFramed,
          MapFramedAndCopy, MapFails, NextPage, Stop, Stopped, vars, jobVars
    <3>2. root \in Managed /\ role[root] = 1
      BY <2>1, RootFacts DEF Building
    <3>3. PICK r \in Managed : r = root
      BY <3>2
    <3>4. UserMay(Walk(r, v)')
      BY <1>4, <3>1, <3>3 DEF Walk, UserMay
    <3>5. UserMay(Walk(r, v)) => v \in OwnPages(prog)
      BY <2>1, <3>3 DEF OwnInv
    <3> QED
      BY <1>2, <3>1, <3>2, <3>3, <3>4, <3>5
  <2>2. CASE ~Building
    <3>1. PICK q \in Program \cup {Kernel} : NewMapping(q) /\ pc \in {"mapKernel", "ready"}
      BY <1>4, <2>2
      DEF Building, Next, MapKernel, NewUserThread, KernelMapped, Finish, SwitchContext,
          SkipSegment, StartSegment, EndSegment, FindEntry, FindDepleted, MapLinear, MapFramed,
          MapFramedAndCopy, MapFails, AtEntry, Stop, Stopped, vars
    <3>2. PICK f \in Managed : AllocFrame(f, 1) /\ root' = f
      BY <3>1 DEF NewMapping
    <3>3. f \notin held
      BY <3>2, Alloc DEF TreeInv, GivesRole
    <3>4. entries[f] = EmptyTable /\ entries' = entries
      BY <3>1, <3>3, NewMappingTree, FreeIsEmpty DEF TreeInv
    <3>5. Walk(f, v)' = None
      <4>1. Top(v) \in Idx
        BY VpnLevels, Levels
      <4>2. entries'[f][Top(v)] = None
        BY <3>4, <4>1 DEF EmptyTable
      <4> QED
        BY <4>2, WalkBack, WalkIsWalkIn, EntryFacts
    <3>6. UserMay(Walk(f, v)')
      BY <1>4, <3>2 DEF Walk, UserMay
    <3> QED
      BY <3>5, <3>6, <1>1
  <2> QED
    BY <2>1, <2>2
<1> QED
  BY <1>3, <1>4

LEMMA OwnInvariant == Spec => [](TreeInv /\ OwnInv)
<1>1. Init => OwnInv
  BY DEF Init, OwnInv, Building
<1> QED
  BY <1>1, InitTree, StepTree, OwnStep, PTL DEF Spec

\* The entry behind a page of a user owns its frame.
LEMMA UserLeaf ==
  ASSUME TreeInv, NEW r \in Managed, role[r] = 1, NEW v \in Vpn, "U" \in Walk(r, v).flags
  PROVE  /\ Walk(r, v).ppn \in held /\ role[Walk(r, v).ppn] = 4
         /\ entries[Walk(r, v).ppn] = EmptyTable
         /\ \E a, b \in Managed : /\ Path(r, v, a, b) /\ Walk(r, v) = entries[b][Bottom(v)]
                                  /\ Owns(b, Bottom(v))
<1>1. Walk(r, v) # None
  BY DEF None
<1>2. PICK a, b \in Managed : Path(r, v, a, b) /\ Walk(r, v) = entries[b][Bottom(v)]
  BY <1>1, WalkPath
<1>3. Bottom(v) \in Idx
  BY VpnLevels, Levels
<1>4. EntryOK(b, Walk(r, v)) /\ role[b] = 3
  BY <1>1, <1>2, <1>3 DEF TreeInv, EntriesOK, Path
<1>5. Walk(r, v).ppn \in Managed /\ role[Walk(r, v).ppn] = 4
  BY <1>4 DEF EntryOK
<1>6. Walk(r, v).ppn \in held
  BY <1>5 DEF TreeInv, RolesOK
<1>7. \A f \in Managed : role[f] = 4 => entries[f] = EmptyTable
  <2> SUFFICES ASSUME NEW f \in Managed, role[f] = 4 PROVE entries[f] = EmptyTable
    OBVIOUS
  <2>1. \A i \in Idx : entries[f][i] = None
    BY DEF TreeInv, EntriesOK, EntryOK
  <2>2. entries[f] \in [Idx -> Entry]
    BY DEF TreeInv, TypeOK
  <2> QED
    BY <2>1, <2>2 DEF EmptyTable
<1>8. Owns(b, Bottom(v))
  BY <1>2 DEF Owns
<1> QED
  BY <1>2, <1>5, <1>6, <1>7, <1>8

LEMMA OneFrameOnePage ==
  ASSUME TreeInv, NEW r \in Managed, NEW q \in Managed, role[r] = 1, role[q] = 1,
         NEW v \in Vpn, NEW w \in Vpn, "U" \in Walk(r, v).flags, "U" \in Walk(q, w).flags,
         Walk(r, v).ppn = Walk(q, w).ppn
  PROVE  r = q /\ v = w
<1>1. PICK a, b \in Managed : /\ Path(r, v, a, b) /\ Walk(r, v) = entries[b][Bottom(v)]
                              /\ Owns(b, Bottom(v))
  BY UserLeaf
<1>2. PICK c, d \in Managed : /\ Path(q, w, c, d) /\ Walk(q, w) = entries[d][Bottom(w)]
                              /\ Owns(d, Bottom(w))
  BY UserLeaf
<1>3. v \in Nat /\ w \in Nat /\ Bottom(v) \in Idx /\ Bottom(w) \in Idx
  BY VpnLevels, Levels
<1>4. b = d /\ Bottom(v) = Bottom(w)
  BY <1>1, <1>2, <1>3 DEF TreeInv, OwnedOnce
<1>5. r = q /\ Top(v) = Top(w) /\ Middle(v) = Middle(w)
  BY <1>1, <1>2, <1>3, <1>4, PathInjective
<1> QED
  BY <1>4, <1>5, LevelsInjective

\* Isolation: a process reaches its own pages, in frames that are not page
\* tables and that no other process and no other page of its own reaches.
THEOREM UserPagesStayPrivate == Spec => []UserPagesArePrivate
<1>1. TreeInv /\ OwnInv => UserPagesArePrivate
  <2> SUFFICES ASSUME TreeInv, OwnInv PROVE UserPagesArePrivate
    OBVIOUS
  <2> DEFINE pages == UNION {UserPages(space) : space \in spaces}
  <2>1. ASSUME NEW x \in pages
        PROVE  /\ x = <<x[1], x[2]>> /\ x[1] \in spaces /\ x[2] \in Vpn
               /\ x[1].root \in Managed /\ role[x[1].root] = 1
               /\ UserMay(Walk(x[1].root, x[2])) /\ "U" \in Walk(x[1].root, x[2]).flags
    <3>1. PICK space \in spaces : x \in UserPages(space)
      OBVIOUS
    <3>2. x \in {space} \X Vpn /\ UserMay(Walk(space.root, x[2]))
      BY <3>1 DEF UserPages
    <3>3. x = <<x[1], x[2]>> /\ x[1] = space /\ x[2] \in Vpn
      BY <3>2
    <3>4. space.root \in Managed /\ role[space.root] = 1
      BY RootFacts DEF SpaceRoots
    <3> QED
      BY <3>2, <3>3, <3>4 DEF UserMay
  <2> HIDE DEF pages
  <2>2. ASSUME NEW x \in pages
        PROVE  /\ x[2] \in OwnPages(x[1].prog) /\ Walk(x[1].root, x[2]).ppn \in held
               /\ entries[Walk(x[1].root, x[2]).ppn] = EmptyTable
    BY <2>1, UserLeaf DEF OwnInv
  <2>3. ASSUME NEW x \in pages, NEW y \in pages,
               Walk(x[1].root, x[2]).ppn = Walk(y[1].root, y[2]).ppn
        PROVE  x = y
    <3>1. x[1].root = y[1].root /\ x[2] = y[2]
      BY <2>1, <2>3, OneFrameOnePage
    <3>2. x[1] = y[1]
      BY <2>1, <3>1 DEF TreeInv, JobOK
    <3> QED
      BY <2>1, <3>1, <3>2
  <2> QED
    BY <2>2, <2>3 DEF UserPagesArePrivate, pages
<1> QED
  BY <1>1, OwnInvariant, PTL
-----------------------------------------------------------------------------
(* The bytes.                                                              *)

\* What a held frame contains is never overwritten.
LEMMA BytesStay ==
  ASSUME TreeInv, [Next]_vars, NEW f \in held
  PROVE  bytes'[f] = bytes[f]
<1>1. bytes \in [Managed -> [Offset -> Byte]] /\ held \subseteq Managed
  BY DEF TreeInv, TypeOK
<1>2. ASSUME NEW use \in 1 .. 4, NEW g \in Managed, NEW page,
             AllocFrame(g, use), bytes' = [bytes EXCEPT ![g] = page]
      PROVE  bytes'[f] = bytes[f]
  <2>1. g # f
    BY <1>2, Alloc DEF TreeInv, GivesRole
  <2> QED
    BY <1>1, <1>2, <2>1
<1>0. 1 \in 1 .. 4 /\ 4 \in 1 .. 4
  OBVIOUS
<1>3. CASE bytes' = bytes
  BY <1>3
<1>4. ASSUME NEW p, NewMapping(p)
      PROVE  bytes'[f] = bytes[f]
  <2>1. PICK g \in Managed : AllocFrame(g, 1) /\ bytes' = [bytes EXCEPT ![g] = ZeroPage]
    BY <1>4 DEF NewMapping
  <2> QED
    BY <1>0, <1>2, <2>1
<1>5. CASE FindEntry
  <2>1. CASE ~NeedsTable
    BY <1>3, <1>5, <2>1 DEF FindEntry, memVars
  <2>2. CASE NeedsTable
    <3>1. PICK g \in Managed : AllocFrame(g, level + 1) /\ bytes' = [bytes EXCEPT ![g] = ZeroPage]
      BY <1>5, <2>2 DEF FindEntry
    <3>2. level + 1 \in 1 .. 4
      BY DEF TreeInv, TypeOK
    <3> QED
      BY <1>2, <3>1, <3>2
  <2> QED
    BY <2>1, <2>2
<1>6. CASE MapFramed
  <2>1. PICK g \in Managed : AllocFrame(g, 4) /\ bytes' = [bytes EXCEPT ![g] = ZeroPage]
    BY <1>6 DEF MapFramed
  <2> QED
    BY <1>0, <1>2, <2>1
<1>7. CASE MapFramedAndCopy
  <2> DEFINE page == [o \in Offset |-> IF o < l THEN FileByte(prog, seg.header, s + o) ELSE Zero]
  <2>1. PICK g \in Managed : AllocFrame(g, 4) /\ bytes' = [bytes EXCEPT ![g] = page]
    BY <1>7 DEF MapFramedAndCopy
  <2> HIDE DEF page
  <2> QED
    BY <1>0, <1>2, <2>1
<1> QED
  BY <1>3, <1>4, <1>5, <1>6, <1>7
  DEF Next, MapKernel, NewUserThread, KernelMapped, Finish, SwitchContext, SkipSegment,
      StartSegment, EndSegment, FindDepleted, MapLinear, MapFails, Stop, Stopped, vars, memVars

LEMMA JobFacts ==
  ASSUME NEW p \in Program, NEW g \in Jobs(p)
  PROVE  /\ g \in Segment /\ SegmentOf(p, g) /\ "U" \in g.flags
         /\ g.kind = "framed" => g = StackSegment
         /\ g.kind \in {"framed", "copy"}
<1>1. CASE g = StackSegment
  BY <1>1, StackSegmentFacts DEF SegmentOf
<1>2. CASE \E j \in DOMAIN Header[p] : Header[p][j].load /\ g = HeaderSegment(p, j)
  BY <1>2, HeaderSegmentFacts DEF SegmentOf
<1> QED
  BY <1>1, <1>2 DEF Jobs

LEMMA PageStays ==
  ASSUME TreeInv, [Next]_vars, NEW r \in Managed, role[r] = 1, NEW v \in Vpn,
         NEW p, NEW g, "U" \in g.flags, PageAt(r, p, g, v)
  PROVE  PageAt(r, p, g, v)'
<1>1. Walk(r, v) # None /\ "U" \in Walk(r, v).flags
  BY DEF PageAt
<1>2. Walk(r, v)' = Walk(r, v)
  BY <1>1, TranslationsStay
<1>3. Walk(r, v).ppn \in held
  BY <1>1, UserLeaf
<1>4. bytes'[Walk(r, v).ppn] = bytes[Walk(r, v).ppn]
  BY <1>3, BytesStay
<1> QED
  BY <1>2, <1>4 DEF PageAt

LEMMA NothingDue ==
  ASSUME NEW g, NEW v, Due(g, v), pc = "segment", todo = <<>>
  PROVE  PageAt(root, prog, g, v)
  BY DEF Due

LEMMA StepCopy ==
  ASSUME TreeInv, [Next]_vars, CopyOK
  PROVE  CopyOK'
<1>1. CASE UNCHANGED <<pc, seg, vpn, s, l>>
  BY <1>1 DEF CopyOK, Before
<1>2. CASE pc' # "page"
  BY <1>2 DEF CopyOK
<1>3. CASE StartSegment
  <2>1. seg' \in Segment /\ vpn' = seg'.start \div PageSize /\ s' = 0 /\ l' = seg'.length
    BY <1>3, TakeOne DEF StartSegment
  <2>2. vpn' \in Nat /\ seg'.length \in Nat
    BY <2>1, DivFacts, Constants DEF Segment
  <2>3. Before(seg, vpn)' = 0
    BY <2>1, <2>2, Constants DEF Before
  <2> QED
    BY <2>1, <2>2, <2>3 DEF CopyOK
<1>4. CASE MapLinear \/ MapFramed
  BY <1>4 DEF MapLinear, MapFramed, NextPage, CopyOK
<1>5. CASE MapFramedAndCopy
  <2>1. /\ seg' = seg /\ vpn' = vpn + 1 /\ s' = s + PageSize /\ l' = LeftAfter
        /\ s = Before(seg, vpn) /\ l = IF seg.length >= s THEN seg.length - s ELSE 0
    BY <1>5 DEF MapFramedAndCopy, NextPage, AtEntry, CopyOK
  <2>2. vpn \in Nat /\ seg.start \div PageSize \in Nat /\ seg.length \in Nat /\ s \in Nat
    BY DivFacts, Constants DEF TreeInv, TypeOK, Segment
  <2>3. Before(seg, vpn)' = Before(seg, vpn) + PageSize
    <3> DEFINE q == seg.start \div PageSize
    <3>1. Before(seg, vpn) = (vpn - q) * PageSize
      BY DEF Before
    <3>2. Before(seg, vpn)' = ((vpn + 1) - q) * PageSize
      BY <2>1 DEF Before
    <3> HIDE DEF q
    <3>3. q \in Nat
      BY <2>2 DEF q
    <3> QED
      BY <3>1, <3>2, <3>3, <2>2, Constants
  <2>4. l' = IF seg.length >= s + PageSize THEN seg.length - (s + PageSize) ELSE 0
    BY <2>1, <2>2, Constants DEF LeftAfter
  <2> QED
    BY <2>1, <2>3, <2>4 DEF CopyOK
<1> QED
  BY <1>1, <1>2, <1>3, <1>4, <1>5
  DEF Next, MapKernel, NewUserThread, NewMapping, KernelMapped, Finish, SwitchContext,
      SkipSegment, EndSegment, FindEntry, FindDepleted, MapFails, Stop, Stopped, vars, segVars

\* The page that mapFramedSegment or mapFramedAndCopy has just filled.
LEMMA PageWritten ==
  ASSUME TreeInv, CopyOK, MapFramed \/ MapFramedAndCopy, vpn \in Vpn,
         NEW r \in Managed, NEW v \in Vpn, r = root, v = vpn, NEW p \in Program, p = prog,
         NEW g \in Jobs(p), g = seg
  PROVE  PageAt(r, p, g, v)'
<1>1. /\ g \in Segment /\ "U" \in g.flags /\ (g.kind = "framed" => g = StackSegment)
  BY JobFacts
<1>2. AtEntry /\ vpn \in Nat /\ s \in Nat /\ g.start \div PageSize <= vpn
      /\ g.length \in Nat /\ g.start \in Nat
  BY <1>1 DEF MapFramed, MapFramedAndCopy, AtEntry, TreeInv, TypeOK, SegmentsOK, Segment
<1>3. Before(g, v) \in Nat
  <2>1. g.start \div PageSize \in Nat /\ v \in Nat
    BY <1>2, DivFacts, Constants
  <2> QED
    BY <1>2, <2>1, Constants DEF Before
<1>4. ASSUME NEW f \in Managed, NEW page, Leaf(f, seg.flags) \in Entry, GivesRole(f, 4),
             Writes(table, Here, Leaf(f, seg.flags)), bytes' = [bytes EXCEPT ![f] = page],
             page = Content(p, g, v)
      PROVE  PageAt(r, p, g, v)'
  <2>1. Walk(r, v)' = Leaf(f, g.flags)
    BY <1>2, <1>4, WalkWritten
  <2>2. bytes'[f] = Content(p, g, v)
    BY <1>4 DEF TreeInv, TypeOK
  <2>3. Leaf(f, g.flags) # None /\ Leaf(f, g.flags).ppn = f
        /\ Leaf(f, g.flags).flags = g.flags \cup {"V"}
    BY DEF Leaf, None
  <2> QED
    BY <2>1, <2>2, <2>3 DEF PageAt
<1>5. CASE MapFramed
  <2>1. g = StackSegment /\ g.length = 0
    BY <1>1, <1>5 DEF MapFramed, StackSegment
  <2>2. ZeroPage = Content(p, g, v)
    <3>1. \A o \in Offset : ~(o < g.length - Before(g, v))
      BY <1>3, <2>1, Constants DEF Offset
    <3> QED
      BY <3>1 DEF ZeroPage, Content
  <2>3. PICK f \in Managed : /\ Leaf(f, seg.flags) \in Entry /\ GivesRole(f, 4)
                             /\ Writes(table, Here, Leaf(f, seg.flags))
                             /\ bytes' = [bytes EXCEPT ![f] = ZeroPage]
    BY <1>5, MapFramedTree
  <2> QED
    BY <1>4, <2>2, <2>3
<1>6. CASE MapFramedAndCopy
  <2> DEFINE page == [o \in Offset |-> IF o < l THEN FileByte(prog, seg.header, s + o) ELSE Zero]
  <2>1. s = Before(g, v) /\ l = IF g.length >= s THEN g.length - s ELSE 0
    BY <1>2, <1>6 DEF CopyOK, AtEntry, MapFramedAndCopy
  <2>2. page = Content(p, g, v)
    <3>1. \A o \in Offset : o < l <=> o < g.length - Before(g, v)
      BY <1>2, <1>3, <2>1, Constants DEF Offset
    <3> QED
      BY <3>1, <2>1 DEF Content
  <2>3. PICK f \in Managed : /\ Leaf(f, seg.flags) \in Entry /\ GivesRole(f, 4)
                             /\ Writes(table, Here, Leaf(f, seg.flags))
                             /\ bytes' = [bytes EXCEPT ![f] = page]
    BY <1>6, MapFramedAndCopyTree
  <2> HIDE DEF page
  <2> QED
    BY <1>4, <2>2, <2>3
<1> QED
  BY <1>5, <1>6

LEMMA TakeDue ==
  ASSUME TreeInv, NEW g, NEW v \in Nat, Spans(g, v), Due(g, v), pc = "segment", todo # <<>>,
         todo' = Tail(todo), UNCHANGED <<root, prog, entries, bytes>>,
         Head(todo) # g \/ (pc' = "page" /\ seg' = Head(todo)
                              /\ vpn' = Head(todo).start \div PageSize)
  PROVE  Due(g, v)'
<1>1. CASE PageAt(root, prog, g, v)
  BY <1>1 DEF Due, PageAt, Walk
<1>2. ASSUME NEW k \in 1 .. Len(todo), k # 1, todo[k] = g
      PROVE  Due(g, v)'
  <2>1. k - 1 \in 1 .. Len(todo') /\ todo'[k - 1] = g
    BY <1>2, TakeOne
  <2> QED
    BY <2>1 DEF Due
<1>3. CASE todo[1] = g
  BY <1>3, TakeOne DEF Due, Spans
<1> QED
  BY <1>1, <1>2, <1>3 DEF Due

LEMMA StepDue ==
  ASSUME TreeInv, [Next]_vars, CopyOK, NEW p \in Program, p = prog', NEW g \in Jobs(p),
         NEW v \in Vpn, Spans(g, v), Building', last',
         Building /\ last /\ prog # Kernel => Due(g, v)
  PROVE  Due(g, v)'
<1>1. v \in Nat /\ p # Kernel /\ "U" \in g.flags /\ g.kind \in {"framed", "copy"}
  BY VpnLevels, JobFacts, MappingAssumption DEF Kernel
<1>2. CASE UNCHANGED vars
  BY <1>1, <1>2 DEF vars, memVars, jobVars, segVars, Building, Due, PageAt, Walk
<1>3. CASE KernelMapped /\ ~Stop
  <2>1. prog = p /\ todo' = Append(HeaderSegments(p), StackSegment)
    BY <1>1, <1>3 DEF KernelMapped
  <2>2. HeaderSegments(p) \in Seq(Segment) /\ Len(HeaderSegments(p)) = Len(Header[p])
    BY UserSegmentFacts
  <2> DEFINE n == Len(HeaderSegments(p))
  <2>3. /\ n \in Nat /\ Len(todo') = n + 1 /\ todo'[n + 1] = StackSegment
        /\ \A k \in 1 .. n : todo'[k] = HeaderSegments(p)[k]
    BY <2>1, <2>2, StackSegmentFacts
  <2>4. CASE g = StackSegment
    <3>1. n + 1 \in 1 .. Len(todo') /\ todo'[n + 1] = g
      BY <2>3, <2>4
    <3> QED
      BY <3>1 DEF Due
  <2>5. CASE \E j \in DOMAIN Header[p] : g = HeaderSegment(p, j)
    <3>1. PICK j \in DOMAIN Header[p] : g = HeaderSegment(p, j)
      BY <2>5
    <3>2. j \in 1 .. n
      BY <2>2, MappingAssumption
    <3>3. HeaderSegments(p)[j] = g
      BY <2>2, <3>1, <3>2 DEF HeaderSegments
    <3>4. j \in 1 .. Len(todo') /\ todo'[j] = g
      BY <2>3, <3>2, <3>3
    <3> QED
      BY <3>4 DEF Due
  <2> QED
    BY <2>4, <2>5 DEF Jobs
<1>4. CASE SkipSegment
  BY <1>1, <1>4, TakeDue DEF SkipSegment, Building, memVars
<1>5. CASE StartSegment
  BY <1>1, <1>5, TakeDue DEF StartSegment, Building, memVars
<1>6. CASE EndSegment
  <2>1. /\ Due(g, v) /\ vpn >= EndVpn(seg)
        /\ root' = root /\ prog' = prog /\ entries' = entries /\ bytes' = bytes /\ todo' = todo
    BY <1>1, <1>6 DEF EndSegment, Building, memVars, jobVars
  <2>2. vpn \in Nat /\ EndVpn(seg) \in Int
    <3>1. seg.end \in Nat
      BY DEF TreeInv, TypeOK, Segment
    <3> QED
      BY <3>1, Constants DEF TreeInv, TypeOK, EndVpn
  <2>3. PageAt(root, prog, g, v) \/ \E k \in 1 .. Len(todo) : todo[k] = g
    BY <1>1, <2>1, <2>2 DEF Due, Spans
  <2> QED
    BY <2>1, <2>3 DEF Due, PageAt, Walk
<1>7. ASSUME FindEntry \/ MapLinear \/ MapFramed \/ MapFramedAndCopy
      PROVE  Due(g, v)'
  <2>1. /\ root' = root /\ prog' = prog /\ todo' = todo /\ seg' = seg /\ pc' = pc /\ last' = last
        /\ pc = "page"
        /\ FindEntry => vpn' = vpn
        /\ ~FindEntry => vpn' = vpn + 1 /\ AtEntry
        /\ MapLinear => seg.kind = "linear"
    BY <1>7 DEF FindEntry, MapLinear, MapFramed, MapFramedAndCopy, AtEntry, NextPage, jobVars, segVars
  <2>2. Due(g, v) /\ vpn \in Nat
    BY <1>1, <2>1 DEF Building, TreeInv, TypeOK
  <2>3. PICK r \in Managed : r = root /\ role[r] = 1
    BY <2>1, RootFacts
  <2>4. PageAt(r, p, g, v)' => Due(g, v)'
    BY <2>1, <2>3 DEF Due, PageAt, Walk
  <2>5. CASE PageAt(root, prog, g, v)
    BY <1>1, <2>1, <2>3, <2>4, <2>5, PageStays
  <2>6. CASE \E k \in 1 .. Len(todo) : todo[k] = g
    BY <2>1, <2>6 DEF Due
  <2>7. CASE seg = g /\ vpn <= v /\ (vpn # v \/ FindEntry)
    <3>1. vpn' <= v
      BY <1>1, <2>1, <2>2, <2>7
    <3> QED
      BY <3>1, <2>1, <2>7 DEF Due
  <2>8. CASE seg = g /\ vpn = v /\ ~FindEntry
    <3>1. MapFramed \/ MapFramedAndCopy
      BY <1>1, <1>7, <2>1, <2>8
    <3>2. PageAt(r, p, g, v)'
      BY <3>1, <2>1, <2>3, <2>8, PageWritten
    <3> QED
      BY <3>2, <2>4
  <2> QED
    BY <2>2, <2>5, <2>6, <2>7, <2>8 DEF Due
<1>8. CASE pc' \notin {"segment", "page"} \/ ~last'
  BY <1>8 DEF Building
<1> QED
  BY <1>2, <1>3, <1>4, <1>5, <1>6, <1>7, <1>8
  DEF Next, MapKernel, NewUserThread, NewMapping, KernelMapped, Finish, SwitchContext,
      FindDepleted, MapFails, Stop, Stopped

LEMMA StepImage == TreeInv /\ ImageInv /\ [Next]_vars => ImageInv'
<1> SUFFICES ASSUME TreeInv, ImageInv, [Next]_vars PROVE ImageInv'
  OBVIOUS
<1>1. CopyOK /\ CopyOK'
  BY StepCopy DEF ImageInv
<1>2. ASSUME Building', last', prog' # Kernel, NEW g \in Jobs(prog'), NEW v \in Vpn, Spans(g, v)
      PROVE  Due(g, v)'
  <2>1. prog' \in Program
    BY <1>2, StepTree DEF TreeInv, TypeOK
  <2>2. Building /\ last => prog' = prog
    BY <1>2
    DEF Building, Next, MapKernel, NewUserThread, KernelMapped, Finish, SwitchContext,
        SkipSegment, StartSegment, EndSegment, FindEntry, FindDepleted, MapLinear, MapFramed,
        MapFramedAndCopy, MapFails, NextPage, Stop, Stopped, vars, jobVars
  <2>3. Building /\ last /\ prog # Kernel => Due(g, v)
    BY <1>2, <2>2 DEF ImageInv
  <2>4. PICK p \in Program : p = prog'
    BY <2>1
  <2> QED
    BY <1>1, <1>2, <2>3, <2>4, StepDue
<1>3. ASSUME NEW space \in spaces', space.prog # Kernel, NEW g \in Jobs(space.prog),
             NEW v \in Vpn, Spans(g, v)
      PROVE  PageAt(space.root, space.prog, g, v)'
  <2>1. space.prog \in Program
    BY <1>3, StepTree DEF TreeInv, TypeOK
  <2>2. "U" \in g.flags
    BY <1>3, <2>1, JobFacts
  <2>3. /\ space.root \in Managed /\ role[space.root] = 1
        /\ PageAt(space.root, space.prog, g, v)
    <3>1. CASE space \in spaces
      <4>1. space.root \in SpaceRoots
        BY <3>1 DEF SpaceRoots
      <4> QED
        BY <1>3, <3>1, <4>1, RootFacts DEF ImageInv
    <3>2. CASE space \notin spaces
      <4>1. Finish
        BY <3>2
        DEF Next, MapKernel, NewUserThread, NewMapping, KernelMapped, SwitchContext, SkipSegment,
            StartSegment, EndSegment, FindEntry, FindDepleted, MapLinear, MapFramed,
            MapFramedAndCopy, MapFails, NextPage, Stop, Stopped, vars
      <4>2. space = [prog |-> prog, root |-> root]
        BY <3>2, <4>1 DEF Finish
      <4>3. space.root = root /\ space.prog = prog
        BY <4>2
      <4>4. Due(g, v)
        BY <1>3, <4>1, <4>3 DEF ImageInv, Finish, Building
      <4>5. PageAt(root, prog, g, v)
        BY <4>1, <4>4, NothingDue DEF Finish
      <4> QED
        BY <4>1, <4>3, <4>5, RootFacts DEF Finish
    <3> QED
      BY <3>1, <3>2
  <2>4. PICK r \in Managed : r = space.root
    BY <2>3
  <2>5. PageAt(r, space.prog, g, v)'
    BY <2>2, <2>3, <2>4, PageStays
  <2> QED
    BY <2>4, <2>5
<1> QED
  BY <1>1, <1>2, <1>3 DEF ImageInv, Jobs, Spans

LEMMA ImageInvariant == Spec => [](TreeInv /\ ImageInv)
<1>1. Init => ImageInv
  BY DEF Init, ImageInv, CopyOK, Building
<1> QED
  BY <1>1, InitTree, StepTree, StepImage, PTL DEF Spec

\* A segment with data of the file begins with a page.  mapFramedAndCopy copies
\* to the start of a page, wherever in it the segment begins.
DataIsAligned ==
  \A p \in Program : \A j \in DOMAIN Header[p] :
    Header[p][j].load /\ Header[p][j].filesz > 0 => Header[p][j].vaddr % PageSize = 0

\* The page of an address.
LEMMA AddressPage ==
  ASSUME NEW p \in Program, NEW g \in Jobs(p), NEW a \in g.start .. g.end - 1,
         g.start \in Nat, g.end \in Nat
  PROVE  /\ a \in Nat /\ a \div PageSize \in Vpn /\ Spans(g, a \div PageSize)
         /\ a % PageSize \in Offset
         /\ a = PageSize * (a \div PageSize) + (a % PageSize)
         /\ g.start \div PageSize <= a \div PageSize
<1>1. a \in Nat /\ g.start <= a /\ a <= g.end - 1 /\ g.end - 1 \in Nat
      /\ PageSize \in Nat \ {0}
  BY Constants
<1>2. /\ a \div PageSize \in Nat /\ a % PageSize \in Offset
      /\ a = PageSize * (a \div PageSize) + (a % PageSize)
  BY <1>1, DivFacts DEF Offset
<1>3. g.start \div PageSize <= a \div PageSize /\ a \div PageSize <= (g.end - 1) \div PageSize
  BY <1>1, DivMono
<1>4. Spans(g, a \div PageSize)
  BY <1>1, <1>2, <1>3 DEF Spans, EndVpn
<1>5. SegmentOf(p, g) /\ g.kind \notin {"linear", "skip"}
  BY JobFacts
<1>6. a \div PageSize \in Vpn
  BY <1>2, <1>4, <1>5, UserSegmentPages
<1> QED
  BY <1>1, <1>2, <1>3, <1>4, <1>6

LEMMA SegmentIsLoaded ==
  ASSUME TreeInv, ImageInv, DataIsAligned, NEW space \in spaces, space.prog # Kernel,
         NEW j \in DOMAIN Header[space.prog], Header[space.prog][j].load,
         NEW i \in 0 .. Header[space.prog][j].memsz - 1
  PROVE  LET h == Header[space.prog][j]
             e == Walk(space.root, (h.vaddr + i) \div PageSize)
         IN  /\ e # None /\ e.flags = h.flags \cup {"U", "V"}
             /\ UserByte(space.root, h.vaddr + i) =
                  IF i < h.filesz THEN FileByte(space.prog, j, i) ELSE Zero
<1> DEFINE p == space.prog
           h == Header[p][j]
           g == HeaderSegment(p, j)
           a == h.vaddr + i
           v == a \div PageSize
           o == a % PageSize
           e == Walk(space.root, v)
<1>1. p \in Program /\ g \in Jobs(p)
  BY DEF TreeInv, TypeOK, Jobs
<1>2. h.vaddr \in Nat /\ h.filesz \in Nat /\ h.memsz \in Nat
  BY <1>1, HeaderTypes
<1>3. /\ g.start = h.vaddr /\ g.end = h.vaddr + h.memsz /\ g.flags = h.flags \cup {"U"}
      /\ g.header = j /\ g.length = h.filesz
  BY DEF HeaderSegment, ConvertElfFlags
<1>4. a \in g.start .. g.end - 1 /\ g.start \in Nat /\ g.end \in Nat
  BY <1>2, <1>3
<1> HIDE DEF g, a
<1>5. /\ a \in Nat /\ v \in Vpn /\ Spans(g, v) /\ o \in Offset
      /\ a = PageSize * v + o /\ g.start \div PageSize <= v
  BY <1>1, <1>4, AddressPage
<1>6. PageAt(space.root, p, g, v)
  BY <1>1, <1>5 DEF ImageInv
<1> DEFINE q == g.start \div PageSize
           d == Before(g, v)
<1>7. v \in Nat /\ q \in Nat /\ PageSize \in Nat \ {0} /\ q <= v /\ d = (v - q) * PageSize
  BY <1>4, <1>5, VpnLevels, DivFacts, Constants DEF Before
<1>8. UserByte(space.root, a) = IF o < g.length - d THEN FileByte(p, g.header, d + o) ELSE Zero
  <2>1. UserByte(space.root, a) = bytes[e.ppn][o] /\ bytes[e.ppn] = Content(p, g, v)
    BY <1>6 DEF UserByte, PageAt
  <2> QED
    BY <2>1, <1>5 DEF Content
<1>9. o \in Nat
  BY <1>5, Constants DEF Offset
<1>10. a = h.vaddr + i /\ i \in Nat
  BY <1>2 DEF a
<1>11. UserByte(space.root, a) = IF i < h.filesz THEN FileByte(p, j, i) ELSE Zero
  <2>1. CASE h.filesz = 0
    <3>1. d \in Nat
      BY <1>7
    <3>2. ~(o < g.length - d) /\ ~(i < h.filesz)
      BY <1>3, <1>9, <1>10, <2>1, <3>1
    <3> QED
      BY <1>8, <3>2
  <2>2. CASE h.filesz > 0
    <3>1. h.vaddr % PageSize = 0
      BY <1>1, <2>2 DEF DataIsAligned
    <3>2. h.vaddr = PageSize * q
      <4>1. h.vaddr = PageSize * (h.vaddr \div PageSize) + (h.vaddr % PageSize)
        BY <1>2, <1>7, DivFacts
      <4>2. h.vaddr \div PageSize = q
        BY <1>3
      <4> QED
        BY <4>1, <4>2, <3>1, <1>7
    <3> HIDE DEF q, d, o, v
    <3>3. PageSize * v = PageSize * q + d
      BY <1>7
    <3>4. d \in Nat
      BY <1>7
    <3>5. d + o = i
      <4>1. PageSize * q \in Nat /\ PageSize * v \in Nat
        BY <1>7
      <4> QED
        BY <4>1, <1>5, <1>9, <1>10, <3>2, <3>3, <3>4
    <3>6. o < g.length - d <=> i < h.filesz
      BY <3>4, <3>5, <1>2, <1>3, <1>9, <1>10
    <3> QED
      BY <1>3, <1>8, <3>5, <3>6
  <2> QED
    BY <2>1, <2>2, <1>2
<1>12. e # None /\ e.flags = h.flags \cup {"U", "V"}
  BY <1>3, <1>6 DEF PageAt
<1> QED
  BY <1>11, <1>12 DEF a

LEMMA StackIsEmpty ==
  ASSUME TreeInv, ImageInv, NEW space \in spaces, space.prog # Kernel,
         NEW a \in StackStart .. StackStart + StackSize - 1
  PROVE  /\ {"U", "W"} \subseteq Walk(space.root, a \div PageSize).flags
         /\ UserByte(space.root, a) = Zero
<1> DEFINE p == space.prog
           g == StackSegment
           v == a \div PageSize
           o == a % PageSize
<1>1. p \in Program /\ g \in Jobs(p)
  BY DEF TreeInv, TypeOK, Jobs
<1>2. /\ g.start = StackStart /\ g.end = StackStart + StackSize /\ g.flags = {"U", "R", "W"}
      /\ g.length = 0
  BY DEF StackSegment
<1>3. a \in g.start .. g.end - 1 /\ g.start \in Nat /\ g.end \in Nat
  BY <1>2, Constants
<1> HIDE DEF g
<1>4. v \in Vpn /\ Spans(g, v) /\ o \in Offset /\ g.start \div PageSize <= v
  BY <1>1, <1>3, AddressPage
<1>5. PageAt(space.root, p, g, v)
  BY <1>1, <1>4 DEF ImageInv
<1>6. Before(g, v) \in Nat
  <2>1. v \in Nat /\ g.start \div PageSize \in Nat
    BY <1>3, <1>4, VpnLevels, DivFacts, Constants
  <2> QED
    BY <2>1, <1>4, Constants DEF Before
<1>7. ~(o < g.length - Before(g, v))
  BY <1>2, <1>4, <1>6, Constants DEF Offset
<1>8. UserByte(space.root, a) = Zero
  <2>1. /\ UserByte(space.root, a) = bytes[Walk(space.root, v).ppn][o]
        /\ bytes[Walk(space.root, v).ppn] = Content(p, g, v)
    BY <1>5 DEF UserByte, PageAt
  <2> QED
    BY <2>1, <1>4, <1>7 DEF Content
<1> QED
  BY <1>2, <1>5, <1>8 DEF PageAt

\* For every set of programs whose data begin with a page, the file's data are
\* in memory where its headers say, followed by zeroes, and the stack is empty.
THEOREM ImageIsLoaded ==
  ASSUME DataIsAligned
  PROVE  Spec => []ImageLoaded
<1>1. TreeInv /\ ImageInv => ImageLoaded
  <2> SUFFICES ASSUME TreeInv, ImageInv PROVE ImageLoaded
    OBVIOUS
  <2>1. \A space \in spaces : space.prog # Kernel =>
          DOMAIN Header[space.prog] = 1 .. Len(Header[space.prog])
    BY MappingAssumption, SMTT(30) DEF TreeInv, TypeOK
  <2> QED
    BY <2>1, SegmentIsLoaded, StackIsEmpty DEF ImageLoaded
<1> QED
  BY <1>1, ImageInvariant, PTL
=============================================================================
