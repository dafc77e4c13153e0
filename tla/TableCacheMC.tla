---------------------------- MODULE TableCacheMC ----------------------------
(* File numbers of three bytes of four values each.  Those of the runs have the *)
(* bytes 100, 110 and 101, the lowest first: the cache has one key for the      *)
(* first and the last.                                                          *)
EXTENDS TableCache, TLC

MCTables == 1 .. MaxTables
Symmetry == Permutations(Threads)
=============================================================================
