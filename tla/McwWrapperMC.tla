---------------------------- MODULE McwWrapperMC ----------------------------
(***************************************************************************)
(* Two sources, their IR, an option, and every command line of up to three *)
(* of them: the same name twice, a source and its IR in either order, files *)
(* that are not there.                                                     *)
(***************************************************************************)
EXTENDS McwWrapper

MCSource == {"a.c", "b.c"}
MCIr == {"a.ll", "b.ll"}
MCOption == {"-g"}
MCIrOf == [s \in MCSource |-> IF s = "a.c" THEN "a.ll" ELSE "b.ll"]
=============================================================================
