----------------------------- MODULE CoverageMC -----------------------------
(***************************************************************************)
(* A program of two modules, two threads, a map of eight cells and         *)
(* counters of two bits.  rand() returns different locations, the last     *)
(* after a reduction, or the same location twice.                          *)
(***************************************************************************)
EXTENDS Coverage, Bitwise

CONSTANTS a, b, c, t0, t1

MCModules == {<<a, b>>, <<c>>}
MCThread == {t0, t1}
MCRand == {<<5, 2, 17>>, <<3, 6, 3>>}
MCXor(i, j) == i ^^ j
=============================================================================
