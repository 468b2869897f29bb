--------------------------- MODULE CallCounterMC ---------------------------
(***************************************************************************)
(* Two functions and two threads, each of which makes up to three calls.   *)
(* Up to two runs of the tool make up to twelve increments, so counters of *)
(* two bits wrap, also while threads race.                                 *)
(***************************************************************************)
EXTENDS CallCounter

CONSTANTS f, g, t0, t1

MCFunc == {f, g}
MCThread == {t0, t1}
=============================================================================
