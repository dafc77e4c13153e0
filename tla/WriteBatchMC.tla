---------------------------- MODULE WriteBatchMC ----------------------------
(* Two batches of up to two records and two threads that insert them.        *)
EXTENDS MemtableReads, TLC

Symmetry == Permutations(Threads) \cup Permutations(Batches)

\* Bounds: the client fills the batches before it inserts the first, and of those it
\* inserts one may be another than Put, Delete and Append made; an iterator
\* walks only if the batches were filled by Put, Delete and Append, as what is in a
\* table does not tell how its batches came about.
FillFirst == /\ runs = <<>> \/ batch' = batch
             /\ shown' = shown \/ (runs # <<>> /\ plain = Batches)
             /\ runs' = <<>> \/ Cardinality(Batches \ plain') <= 1
=============================================================================
