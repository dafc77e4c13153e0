--------------------------- MODULE SkipListReadsMC --------------------------
(* Two threads, three keys and three nodes: the least in which a scan stands  *)
(* at one key while a second is linked between it and a third.                *)
EXTENDS SkipListReads, TLC

CONSTANTS t1, t2, n1, n2, n3, k0

MCThreads == {t1, t2}
MCNode    == {n1, n2, n3}
MCKeys    == 1 .. 3

\* Threads and nodes are only compared.
MCSymmetry == Permutations(MCThreads) \cup Permutations(MCNode)
=============================================================================
