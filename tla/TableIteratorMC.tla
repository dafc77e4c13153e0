--------------------------- MODULE TableIteratorMC ---------------------------
(* Keys with room for a separator between them and without, with a common     *)
(* prefix, and on both sides of the signed byte; block sizes that close a     *)
(* block after every entry, after two and after three.                        *)
EXTENDS TableIterator

MCKeys == {<<97>>, <<97, 98>>, <<98>>, <<100, 97>>, <<130, 97>>, <<133>>}
MCBlockSizes == {12, 28, 42}

\* Bound: iterators walk tables of which no flush failed.  The file of another holds
\* blocks as well, and differs at most in where they end.
WalkIfFlushed == it' = it \/ fails.flush = 0
=============================================================================
