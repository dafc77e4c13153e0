------------------------------- MODULE WalMC -------------------------------
(* Blocks of eight bytes with headers of three: records that fit, that fill a
   block, that leave less than a header, exactly a header, or span blocks.    *)
EXTENDS Wal

MCLengths == {0, 2, 6}
=============================================================================
