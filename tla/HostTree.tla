------------------------------ MODULE HostTree ------------------------------
(***************************************************************************)
(* The directory that mksfs packs, and what paths mean in it.  Nodes are   *)
(* mapped to records [name, kind, parent, size]; kind is "dir", "reg" or   *)
(* something else that mksfs leaves out.  A path is the sequence of its    *)
(* names and slashes.                                                      *)
(***************************************************************************)
EXTENDS Integers, SequencesExt

CONSTANTS Root          \* the node of rootfs

VARIABLES tree          \* the directory on the host

Dirs        == {n \in DOMAIN tree : tree[n].kind = "dir"}
Files       == {n \in DOMAIN tree : tree[n].kind = "reg"}
Packed      == Dirs \cup Files
Children(n) == {m \in DOMAIN tree \ {Root} : tree[m].parent = n}

IsAbsolute(path) == path # <<>> /\ path[1] = "/"
Nowhere == "nowhere"

\* One component of a path.
Step(n, c) ==
  IF n = Nowhere \/ n \notin Dirs THEN Nowhere
  ELSE IF c = "."  THEN n
  ELSE IF c = ".." THEN IF n = Root THEN Root ELSE tree[n].parent
  ELSE LET named == {m \in Children(n) \cap Packed : tree[m].name = c}
       IN  IF named = {} THEN Nowhere ELSE CHOOSE m \in named : TRUE

\* Component by component from a directory, or from the root for an absolute
\* path.  Two slashes in a row are outside of this definition.
Resolve(n, path) ==
  FoldLeft(Step, IF IsAbsolute(path) THEN Root ELSE n, SelectSeq(path, LAMBDA c : c # "/"))

\* The names in a directory, and the absolute path of a directory.
Listing(n) == {tree[m].name : m \in Children(n) \cap Packed} \cup {".", ".."}
PathBelow[n \in DOMAIN tree] ==
  IF n = Root THEN <<>> ELSE PathBelow[tree[n].parent] \o <<"/", tree[n].name>>
PathOf(n) == IF n = Root THEN <<"/">> ELSE PathBelow[n]
=============================================================================
