----------------------------- MODULE SkipListMC -----------------------------
(* Two threads and two keys, without symmetry: for liveness and refinement.   *)
EXTENDS SkipList, TLC

CONSTANTS t1, t2, n1, n2, k0

MCThreads == {t1, t2}
MCNode    == {n1, n2}
MCKeys    == 1 .. 2
=============================================================================
