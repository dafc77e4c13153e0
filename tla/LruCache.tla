------------------------------ MODULE LruCache ------------------------------
(***************************************************************************)
(* LRUCachePolicy of cache/cache.cpp: a hash table of entries and a list of *)
(* their keys, tied together by the list position in each entry.  Every     *)
(* operation holds the mutex; what it returns is a pointer to an entry that *)
(* the caller uses when the mutex is free again.                            *)
(***************************************************************************)
EXTENDS Integers, Sequences, FiniteSets

CONSTANTS
    Keys,      \* the keys callers pass
    CKey,      \* key.data() as a C string: what the cache stores a key as
    Values,
    Capacity,  \* capacity_
    Threads,
    Null,      \* nullptr
    MaxId      \* bound: calls of NewId

ASSUME LruAssumption ==
    /\ Capacity \in Nat \ {0} /\ MaxId \in Nat
    /\ DOMAIN CKey = Keys /\ IsFiniteSet(Threads)

VARIABLES
    table,    \* table_: stored key -> entry; node tells one entry of a key from the next
    cache,    \* cache_: the list, each element a cell with the key in it
    handle,   \* the entry each thread has a pointer to
    uniqueId  \* unique_id_

lruVars == <<table, cache, handle, uniqueId>>

StoredKeys == { CKey[k] : k \in Keys }
Cells      == 1 .. Capacity + 1
Nodes      == 1 .. Capacity + Cardinality(Threads) + 1

Handles == [key : StoredKeys, node : Nodes]

TypeOK ==
    /\ DOMAIN table \subseteq StoredKeys
    /\ \A k \in DOMAIN table : table[k] \in [node : Nodes, value : Values, pos : Cells]
    /\ Len(cache) <= Capacity
    /\ \A i \in DOMAIN cache : cache[i] \in [cell : Cells, key : StoredKeys]
    /\ handle \in [Threads -> Handles \cup {Null}]
    /\ uniqueId \in 0 .. MaxId

Init ==
    /\ table = <<>> /\ cache = <<>>
    /\ handle = [t \in Threads |-> Null]
    /\ uniqueId = 0

-----------------------------------------------------------------------------
(* The table and the list                                                   *)

Remove(f, k) == [x \in DOMAIN f \ {k} |-> f[x]]

\* cache_.erase(pos)
EraseCell(list, c) ==
    LET i == CHOOSE i \in DOMAIN list : list[i].cell = c
    IN SubSeq(list, 1, i - 1) \o SubSeq(list, i + 1, Len(list))

FreshCell(list) == CHOOSE c \in Cells : \A i \in DOMAIN list : list[i].cell # c
FreshNode(tab)  == CHOOSE n \in Nodes : /\ \A k \in DOMAIN tab : tab[k].node # n
                                        /\ \A t \in Threads : handle[t] # Null => handle[t].node # n

\* table_.emplace and cache_.emplace_front; the caller gets the new entry.
Emplace(t, tab, list, k, v) ==
    LET c == FreshCell(list) n == FreshNode(tab) IN
    /\ table' = [x \in DOMAIN tab \cup {k} |->
                    IF x = k THEN [node |-> n, value |-> v, pos |-> c] ELSE tab[x]]
    /\ cache' = <<[cell |-> c, key |-> k]>> \o list
    /\ handle' = [handle EXCEPT ![t] = [key |-> k, node |-> n]]
    /\ UNCHANGED uniqueId

Oldest == cache[Len(cache)]

\* Variant: the entry of a key that falls off the list stays in the table.
InsertKeepsEntry(t, key, v) ==
    LET k == CKey[key] IN
    IF k \in DOMAIN table
    THEN Emplace(t, Remove(table, k), EraseCell(cache, table[k].pos), k, v)
    ELSE IF Capacity = Len(cache)
    THEN Emplace(t, table, EraseCell(cache, Oldest.cell), k, v)
    ELSE Emplace(t, table, cache, k, v)

\* Variant: the entry used last makes room.
InsertDropsHead(t, key, v) ==
    LET k == CKey[key] IN
    IF k \in DOMAIN table
    THEN Emplace(t, Remove(table, k), EraseCell(cache, table[k].pos), k, v)
    ELSE IF Capacity = Len(cache)
    THEN Emplace(t, Remove(table, cache[1].key), EraseCell(cache, cache[1].cell), k, v)
    ELSE Emplace(t, table, cache, k, v)

\* Insert: an entry of the key makes way, or in a full cache the last of the list.
Insert(t, key, v) ==
    LET k == CKey[key] IN
    IF k \in DOMAIN table
    THEN Emplace(t, Remove(table, k), EraseCell(cache, table[k].pos), k, v)
    ELSE IF Capacity = Len(cache)
    THEN Emplace(t, Remove(table, Oldest.key), EraseCell(cache, Oldest.cell), k, v)
    ELSE Emplace(t, table, cache, k, v)

Miss(t, key) ==
    /\ CKey[key] \notin DOMAIN table
    /\ handle' = [handle EXCEPT ![t] = Null]
    /\ UNCHANGED <<table, cache, uniqueId>>

\* Lookup of a key that is there: its entry is taken out and a new one put in.
Hit(t, key) ==
    LET k == CKey[key] IN
    /\ k \in DOMAIN table
    /\ Emplace(t, Remove(table, k), EraseCell(cache, table[k].pos), k, table[k].value)

Lookup(t, key) == Hit(t, key) \/ Miss(t, key)

Erase(key) ==
    /\ CKey[key] \in DOMAIN table
    /\ cache' = EraseCell(cache, table[CKey[key]].pos)
    /\ table' = Remove(table, CKey[key])
    /\ UNCHANGED <<handle, uniqueId>>

NewId ==
    /\ uniqueId < MaxId
    /\ uniqueId' = uniqueId + 1
    /\ UNCHANGED <<table, cache, handle>>

\* Release does nothing; the caller lets go of the pointer.
Release(t) ==
    /\ handle[t] # Null
    /\ handle' = [handle EXCEPT ![t] = Null]
    /\ UNCHANGED <<table, cache, uniqueId>>

Next ==
    \/ \E t \in Threads :
          \/ \E key \in Keys : Hit(t, key) \/ Miss(t, key) \/ \E v \in Values : Insert(t, key, v)
          \/ Release(t)
    \/ \E key \in Keys : Erase(key)
    \/ NewId

Spec == Init /\ [][Next]_lruVars

-----------------------------------------------------------------------------
(* Properties                                                               *)

\* The asserts at the head of Insert and what the rest of the code relies on: table
\* and list hold the same keys, each once, and an entry's position is the cell
\* with its key; an erase through a position never takes another key's cell.
Consistent ==
    /\ TypeOK
    /\ Len(cache) <= Capacity
    /\ Cardinality(DOMAIN table) = Len(cache)
    /\ \A i, j \in DOMAIN cache : i # j => cache[i].cell # cache[j].cell
    /\ \A k \in DOMAIN table :
           \E i \in DOMAIN cache : cache[i] = [cell |-> table[k].pos, key |-> k]

Recent == [i \in DOMAIN cache |->
              [key |-> cache[i].key, value |-> table[cache[i].key].value]]

\* The cache keeps the entries used last with the values inserted last.
Abstract == INSTANCE LruMap WITH Keys <- StoredKeys, entries <- Recent
KeepsRecent == Abstract!Spec
=============================================================================
