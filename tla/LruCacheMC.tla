----------------------------- MODULE LruCacheMC -----------------------------
(* Four keys, two of which are one C string, in a cache of two entries.       *)
EXTENDS LruCache

CONSTANTS k1, k2, k3, k1x

MCKeys == {k1, k2, k3, k1x}
MCCKey == [k \in MCKeys |-> IF k = k1x THEN k1 ELSE k]
=============================================================================
