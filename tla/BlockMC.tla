------------------------------- MODULE BlockMC -------------------------------
(* Keys that share prefixes of every length, one of them with a byte above   *)
(* 127, and the empty key.                                                   *)
EXTENDS Block

MCKeys == {<<>>, <<97>>, <<97, 97>>, <<97, 97, 97>>, <<97, 97, 98>>, <<97, 98>>, <<98, 97>>, <<200>>}
MCSizes == {0, 1}
=============================================================================
