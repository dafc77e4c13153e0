---------------------------- MODULE FileWriterMC ----------------------------
(* A buffer of three bytes: appends that fit, fill it, overflow it, and bypass
   it.                                                                        *)
EXTENDS FileWriter

MCLengths == {0, 1, 2, 4, 7}
=============================================================================
