------------------------------- MODULE CodingMC -------------------------------
(* One bit a digit and two above the fourth: thirty-two lengths reach every   *)
(* branch of the coding, the five-byte one included.  A byte has four values,  *)
(* so a tag has sixteen bits, two of them the type.                            *)
EXTENDS MemtableFormat

MCLengths == {0, 1, 2, 3, 4, 7, 8, 15, 16, 31}
MCSeqs    == {1, 4, 16383}
=============================================================================
