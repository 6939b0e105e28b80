---------------------------- MODULE MCFileTable ----------------------------
(***************************************************************************)
(* Directories of the host and paths for the runs of Mksfs and FileTable.  *)
(***************************************************************************)
EXTENDS FileTable

Dir(name, parent)       == [name |-> name, kind |-> "dir", parent |-> parent, size |-> 0]
Reg(name, parent, size) == [name |-> name, kind |-> "reg", parent |-> parent, size |-> size]
Link(name, parent)      == [name |-> name, kind |-> "other", parent |-> parent, size |-> 0]
RootNode == "root" :> Dir("/", "root")

\* Directories with a shell in its place and elsewhere.
WithShell == RootNode @@ "bin" :> Dir("bin", "root") @@ "sh" :> Reg("sh", "bin", 3)
             @@ "doc" :> Dir("doc", "bin") @@ "txt" :> Reg("sh", "doc", 3)
NoShell   == RootNode @@ "sh" :> Reg("sh", "root", 3)

\* Nested directories, the same name at several levels, an empty directory, a
\* symbolic link, and files that end within, at and just behind a block.
Nested == RootNode @@ "b" :> Dir("b", "root") @@ "a" :> Reg("a", "root", 3)
          @@ "ba" :> Reg("a", "b", 2) @@ "bb" :> Dir("b", "b") @@ "l" :> Link("l", "root")
          @@ "bbc" :> Dir("c", "bb")
Flat == RootNode @@ "a" :> Reg("a", "root", 4) @@ "b" :> Reg("b", "root", 1)

\* Directories that need one block more than there is: for data or the last
\* inode (Huge), or for the indirect block of the root (Tight).
Huge  == RootNode @@ "a" :> Reg("a", "root", 8) @@ "c" :> Dir("c", "root") @@ "d" :> Reg("d", "c", 8)
         @@ "e" :> Dir("e", "c") @@ "f" :> Reg("f", "e", 8) @@ "g" :> Dir("g", "e")
         @@ "h" :> Reg("h", "g", 4) @@ "i" :> Dir("i", "g")
Tight == RootNode @@ "a" :> Reg("a", "root", 8) @@ "b" :> Reg("b", "root", 7) @@ "c" :> Dir("c", "root")
         @@ "d" :> Reg("d", "c", 8) @@ "e" :> Reg("e", "c", 8)

\* One file that needs an indirect block, or fills it, or one such directory; an
\* empty file.
OneLongFile == RootNode @@ "a" :> Reg("a", "root", 9) @@ "b" :> Dir("b", "root") @@ "ba" :> Reg("a", "b", 1)
FullFile == RootNode @@ "a" :> Reg("a", "root", 14) @@ "b" :> Reg("b", "root", 2)
LongDir  == RootNode @@ "a" :> Reg("a", "root", 2) @@ "b" :> Dir("b", "root") @@ "c" :> Reg("c", "root", 1)
            @@ "d" :> Dir("d", "root") @@ "e" :> Reg("e", "root", 3)
LongSub  == RootNode @@ "s" :> Dir("s", "root") @@ "a" :> Reg("a", "s", 2) @@ "b" :> Dir("b", "s")
            @@ "c" :> Reg("c", "s", 1) @@ "d" :> Reg("d", "s", 0)

\* Two files that need an indirect block each.
TwoLongFiles == RootNode @@ "a" :> Reg("a", "root", 9) @@ "b" :> Reg("b", "root", 10)

AllTrees == {WithShell, NoShell, Nested, Flat, Huge, Tight, OneLongFile, FullFile, LongDir, LongSub}
LongDirs == {LongDir}
LongFiles == {TwoLongFiles}

SomePaths == {<<>>, <<"..">>, <<"/", "bin">>, <<"doc", "/", ".">>, <<"sh">>}
=============================================================================
