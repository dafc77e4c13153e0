----------------------------- MODULE TableCache -----------------------------
(***************************************************************************)
(* TableCache of sstable/table_cache.cpp: Get looks a table file up in the  *)
(* LRU cache, opens it on a miss, searches it, and deletes it.  Threads run *)
(* freely between the calls of the cache.  What happens after a use of      *)
(* freed memory is undefined; the model stops there (crashed).              *)
(***************************************************************************)
EXTENDS LruCache

CONSTANTS
    Base,      \* the values of a byte of the file number
    Width,     \* how many bytes it has
    MaxTables  \* bound: tables opened

ASSUME TableAssumption ==
    /\ Base \in Nat \ {0, 1} /\ Width \in Nat \ {0} /\ MaxTables \in Nat
    /\ Keys \subseteq 0 .. Base ^ Width - 1
    /\ 1 .. MaxTables \subseteq Values

VARIABLES
    tables,   \* history: the tables opened: their file, whether Open gave one, whether it lives
    pc,       \* where each thread is in Get
    file,     \* the file number it was called with
    tf,       \* the TableAndFile it uses, 0 for none
    crashed   \* why the process is in undefined behaviour, or "no"

tcVars == <<tables, pc, file, tf, crashed>>
allVars == <<lruVars, tcVars>>

-----------------------------------------------------------------------------
(* The cache's key for a file number                                        *)

\* EncodeFixed64: the lowest byte first
Bytes(n) == [i \in 1 .. Width |-> (n \div Base ^ (i - 1)) % Base]

\* Variant: the highest byte first
BytesHighFirst(n) == [i \in 1 .. Width |-> (n \div Base ^ (Width - i)) % Base]

\* std::string(data): up to the first zero.  The eight bytes are not terminated;
\* what lies behind them is taken for a zero.
CString(s) ==
    LET zeros == { i \in DOMAIN s : s[i] = 0 }
    IN IF zeros = {} THEN s
       ELSE SubSeq(s, 1, (CHOOSE i \in zeros : \A j \in zeros : i <= j) - 1)

\* Variant: the key is made from the highest byte down.
FileKeyHighFirst(n) == CString(BytesHighFirst(n))

\* The key FindTable passes, as the cache stores it
FileKey(n) == CString(Bytes(n))

FileKeys == [n \in Keys |-> FileKey(n)]

\* The keys of the cache are those FindTable makes.
ASSUME KeyAssumption == CKey = FileKeys

\* m and n have the same bytes, up to and with the first that is zero.
Alike(m, n) ==
    \A i \in 1 .. Width : (\A j \in 1 .. i - 1 : Bytes(m)[j] # 0) => Bytes(m)[i] = Bytes(n)[i]

-----------------------------------------------------------------------------
TCInit ==
    /\ Init
    /\ tables = <<>>
    /\ pc = [t \in Threads |-> "idle"]
    /\ file = [t \in Threads |-> Null]
    /\ tf = [t \in Threads |-> 0]
    /\ crashed = "no"

Goto(t, label) == pc' = [pc EXCEPT ![t] = label]

\* Get calls FindTable, which calls Lookup.  On a hit s was never set: it may say
\* anything, and if it is not ok Get returns it.
GetHit(t, n) ==
    /\ pc[t] = "idle"
    /\ Hit(t, n)
    /\ \/ Goto(t, "value") /\ file' = [file EXCEPT ![t] = n]
       \/ Goto(t, "idle") /\ UNCHANGED file
    /\ UNCHANGED <<tables, tf, crashed>>

GetMiss(t, n) ==
    /\ pc[t] = "idle"
    /\ Miss(t, n)
    /\ Goto(t, "open")
    /\ file' = [file EXCEPT ![t] = n]
    /\ UNCHANGED <<tables, tf, crashed>>

\* NewRandomAccessFile fails, or leaves s unset and s happens not to be ok.
OpenFails(t) ==
    /\ pc[t] = "open"
    /\ Goto(t, "idle")
    /\ UNCHANGED <<lruVars, tables, file, tf, crashed>>

\* SSTable::Open gives a table or, for a damaged file, null.
OpenTable(t) ==
    /\ pc[t] = "open" /\ Len(tables) < MaxTables
    /\ \E null \in BOOLEAN :
           tables' = Append(tables, [file |-> file[t], null |-> null, live |-> TRUE])
    /\ tf' = [tf EXCEPT ![t] = Len(tables) + 1]
    /\ Goto(t, "insert")
    /\ UNCHANGED <<lruVars, file, crashed>>

InsertTable(t) ==
    /\ pc[t] = "insert"
    /\ Insert(t, file[t], tf[t])
    /\ Goto(t, "value")
    /\ UNCHANGED <<tables, file, tf, crashed>>

Crash(why) == crashed' = why /\ UNCHANGED <<lruVars, tables, pc, file, tf>>

\* The entry the pointer of thread t leads to is still there.
Live(t) == handle[t].key \in DOMAIN table /\ table[handle[t].key].node = handle[t].node

\* cache_->Value(handle), without the mutex
ReadValue(t) ==
    /\ pc[t] = "value"
    /\ Live(t)
    /\ tf' = [tf EXCEPT ![t] = table[handle[t].key].value]
    /\ Goto(t, "find")
    /\ UNCHANGED <<lruVars, tables, file, crashed>>

ReadValueGone(t) == pc[t] = "value" /\ ~Live(t) /\ Crash("freed")

\* tf->table->find(key, result)
FindInTable(t) ==
    /\ pc[t] = "find"
    /\ tables[tf[t]].live /\ ~tables[tf[t]].null
    /\ Goto(t, "delete")
    /\ UNCHANGED <<lruVars, tables, file, tf, crashed>>

FindInFreed(t) == pc[t] = "find" /\ ~tables[tf[t]].live /\ Crash("freed")
FindInNull(t)  == pc[t] = "find" /\ tables[tf[t]].live /\ tables[tf[t]].null /\ Crash("null")

\* delete table; delete tf: the cache keeps its pointer to them.
DeleteTable(t) ==
    /\ pc[t] = "delete"
    /\ tables[tf[t]].live
    /\ tables' = [tables EXCEPT ![tf[t]].live = FALSE]
    /\ tf' = [tf EXCEPT ![t] = 0]
    /\ Goto(t, "idle")
    /\ Release(t)
    /\ UNCHANGED <<file, crashed>>

DeleteAgain(t) == pc[t] = "delete" /\ ~tables[tf[t]].live /\ Crash("freed")

Get(t) ==
    \/ \E n \in Keys : GetHit(t, n) \/ GetMiss(t, n)
    \/ OpenFails(t) \/ OpenTable(t) \/ InsertTable(t)
    \/ ReadValue(t) \/ ReadValueGone(t)
    \/ FindInTable(t) \/ FindInFreed(t) \/ FindInNull(t)
    \/ DeleteTable(t) \/ DeleteAgain(t)

TCNext == crashed = "no" /\ \E t \in Threads : Get(t)

TCSpec == TCInit /\ [][TCNext]_allVars

TCTypeOK ==
    /\ TypeOK
    /\ \A i \in DOMAIN tables : tables[i] \in [file : Keys, null : BOOLEAN, live : BOOLEAN]
    /\ pc \in [Threads -> {"idle", "open", "insert", "value", "find", "delete"}]
    /\ file \in [Threads -> Keys \cup {Null}]
    /\ tf \in [Threads -> 0 .. Len(tables)]
    /\ crashed \in {"no", "freed", "null"}

-----------------------------------------------------------------------------
(* Properties                                                               *)

\* Get(n) searches and deletes a table of file n, or of one that has the bytes of n up
\* to the first zero byte, however the Gets of other files and threads come between its
\* lookup, its insert and its use of the entry.  The cache under it keeps its structure
\* (Consistent of LruCache, TCTypeOK).
ReadsItsFile ==
    /\ TCTypeOK /\ Consistent
    /\ \A t \in Threads : pc[t] \in {"find", "delete"} => Alike(tables[tf[t]].file, file[t])

\* Get never uses a table, or an entry of the cache, that is freed.
NeverUsesFreed == crashed # "freed"

-----------------------------------------------------------------------------
(* What a caller expects and the code does not do: no configuration checks  *)
(* it, README.md says how it fails.                                         *)

\* Get(n) searches a table of file n.
ReadsOnlyItsFile == \A t \in Threads : pc[t] = "find" => tables[tf[t]].file = file[t]
=============================================================================
