----------------------------- MODULE MCMapping -----------------------------
(***************************************************************************)
(* Small address spaces for Mapping: 512 pages of two bytes.  As in        *)
(* consts.h the user stack is at the linear address of physical page 0,    *)
(* where there is no memory.                                               *)
(***************************************************************************)
EXTENDS Mapping

MCDevices == <<64, 66, 72, 73>>

Load(vaddr, filesz, memsz, flags) ==
  [load |-> TRUE, vaddr |-> vaddr, filesz |-> filesz, memsz |-> memsz, flags |-> flags]
Note == [load |-> FALSE, vaddr |-> 2, filesz |-> 1, memsz |-> 1, flags |-> {"R"}]

\* As the linker lays them out: code at the start of a page, in "big" with a
\* second segment in the middle of one that holds no data of the file.
\* "clash" has two segments in one page, "text" is no executable.
MCProgram == {"small", "big", "clash", "text"}
MCIsElf   == [p \in MCProgram |-> p # "text"]
MCHeader  ==
  [p \in MCProgram |->
     CASE p = "small" -> << Load(2, 3, 3, {"R", "X"}) >>
       [] p = "big"   -> << Note, Load(4, 3, 7, {"R", "W", "X"}), Load(13, 0, 4, {"R", "W"}) >>
       [] p = "clash" -> << Load(2, 3, 3, {"R", "X"}), Load(5, 0, 2, {"R", "W"}) >>
       [] p = "text"  -> <<>>]

\* A program with initialised data, which ld places at the file's offset
\* within the page.
DataProgram == {"data"}
DataIsElf   == [p \in DataProgram |-> TRUE]
DataHeader  == [p \in DataProgram |-> << Load(2, 2, 2, {"R", "X"}), Load(5, 1, 1, {"R", "W"}) >>]
=============================================================================
