------------------------------- MODULE LruMap -------------------------------
(* What a cache of least recently used entries promises: it keeps the entries  *)
(* used last, up to its capacity.                                              *)
EXTENDS Integers, Sequences

CONSTANTS Keys, Values, Capacity

VARIABLE entries  \* the entries, the one used last in front

Has(k)     == \E i \in DOMAIN entries : entries[i].key = k
Place(k)   == CHOOSE i \in DOMAIN entries : entries[i].key = k
Entry(k)   == entries[Place(k)]
Without(k) == IF Has(k)
              THEN SubSeq(entries, 1, Place(k) - 1) \o SubSeq(entries, Place(k) + 1, Len(entries))
              ELSE entries

Init == entries = <<>>

Put(k, v) ==
    LET all == <<[key |-> k, value |-> v]>> \o Without(k) IN
    entries' = SubSeq(all, 1, IF Len(all) < Capacity THEN Len(all) ELSE Capacity)

Use(k)  == Has(k) /\ entries' = <<Entry(k)>> \o Without(k)
Drop(k) == entries' = Without(k)

Next == \E k \in Keys : Use(k) \/ Drop(k) \/ \E v \in Values : Put(k, v)

Spec == Init /\ [][Next]_entries
=============================================================================
