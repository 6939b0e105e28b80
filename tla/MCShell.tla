------------------------------ MODULE MCShell ------------------------------
(***************************************************************************)
(* A short line for the run of Shell, and a short word for shutdown.       *)
(***************************************************************************)
EXTENDS Shell

Texts    == {<<>>, <<"x">>}
Word     == <<"w", "s">>
Contents == {Zeroes, [Zeroes EXCEPT ![LineSize - 1] = "w"], [Zeroes EXCEPT ![2] = "s"]}
=============================================================================
