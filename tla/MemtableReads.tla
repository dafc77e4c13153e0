--------------------------- MODULE MemtableReads ---------------------------
(***************************************************************************)
(* An iterator of the memtable (MemTableIterator, memtable/memtable.cpp)   *)
(* that walks while threads insert batches.  It takes no lock and changes  *)
(* nothing, so one iterator stands for any number of them.  Module         *)
(* SkipListReads shows that Next and SeekToFirst go to the least key after *)
(* the old one at one instant; Seek goes where Find ends, which may be a   *)
(* node that is not linked on the lowest level yet.                        *)
(***************************************************************************)
EXTENDS WriteBatch, FiniteSets

VARIABLES
    at,     \* the internal key the iterator is at, End if it is not valid
    first,  \* history: where the walk began
    base,   \* history: the internal keys that were in the table then
    shown   \* history: what key() and value() gave since then

iterVars == <<at, first, base, shown>>
readVars == <<vars, iterVars>>

ReadsInit == Init /\ at = End /\ first = End /\ base = {} /\ shown = <<>>

ReadsTypeOK ==
    /\ at \in InternalKeys \cup {End} /\ first \in InternalKeys \cup {End}
    /\ base \subseteq InternalKeys

\* What key() and value() give at ik: GetVarString and Parsed undo what Add wrote.
Entry(ik) == [key |-> ik.key, seq |-> TagSeq(ik.tag), type |-> TagType(ik.tag),
              value |-> Content(ik).value]

After(ik) == {other \in DOMAIN table : Before(ik, other)}
Least(s)  == IF s = {} THEN End ELSE CHOOSE ik \in s : \A other \in s : ~Before(other, ik)

\* The iterator starts a walk at ik.
Start(ik) ==
    /\ at' = ik /\ first' = ik
    /\ base' = DOMAIN table
    /\ shown' = IF ik = End THEN <<>> ELSE <<Entry(ik)>>
    /\ UNCHANGED vars

SeekToFrist == Start(Least(DOMAIN table))

\* Seek asserts that the iterator was valid, and looks for the key itself.
Seek(ik) == at # End /\ \E n \in FindEnds(ik) : Start(n)

\* Variant: the position is how many entries lie before it.
NextByCount ==
    /\ at # End
    /\ LET n    == Len(shown)
           rest == {ik \in DOMAIN table :
                        Cardinality({other \in DOMAIN table : Before(other, ik)}) >= n}
       IN /\ at' = Least(rest)
          /\ shown' = IF rest = {} THEN shown ELSE Append(shown, Entry(Least(rest)))
    /\ UNCHANGED <<vars, first, base>>

\* The lowest link of a node that is being linked is null at first.
NextEnds ==
    {Least(After(at))} \cup {end \in {End} : at \notin DOMAIN table}

Next1 ==
    /\ at # End
    /\ \E ik \in NextEnds :
           /\ at' = ik
           /\ shown' = IF ik = End THEN shown ELSE Append(shown, Entry(ik))
    /\ UNCHANGED <<vars, first, base>>

ReadsNext ==
    \/ Next /\ UNCHANGED iterVars
    \/ SeekToFrist \/ Next1 \/ \E k \in Keys, s \in Seqs : Seek(LookupKey(k, s))

ReadsSpec == ReadsInit /\ [][ReadsNext]_readVars

-----------------------------------------------------------------------------
\* e comes before f: by user key, then by age, a deletion before a Put of the same age.
Earlier(e, f) ==
    \/ e.key < f.key
    \/ e.key = f.key /\ e.seq < f.seq
    \/ e.key = f.key /\ e.seq = f.seq /\ e.type = "delete" /\ f.type = "put"

\* The keys of the table at the start that the walk has gone past
Passed == {ik \in base : ~Before(ik, first) /\ (at = End \/ ~Before(at, ik))}

\* A walk shows every entry once, oldest version first, and misses none of those that
\* were there when it began and that it went past, with the value the record had that
\* put it there, whatever is inserted around it; if it began at an entry that was being
\* inserted it may end too soon, and still shows nothing twice or out of order.
WalkShowsAll ==
    /\ ReadsTypeOK
    /\ \A i, j \in DOMAIN shown : i < j => Earlier(shown[i], shown[j])
    /\ first \in base => \A ik \in Passed : \E i \in DOMAIN shown :
           LET r == runs[table[ik].by[1]].batch.recs[table[ik].by[2]] IN
           /\ shown[i].key = r.key /\ shown[i].type = r.type /\ shown[i].value = r.value
           /\ shown[i].seq = TagSeq(ik.tag)

\* Who keeps the last version that a whole walk shows of a key has one at least as new as
\* any that was there when it began: versions come oldest first (internalKeys.cpp:62).
NewestLast ==
    (at = End /\ first \in base) =>
        \A ik \in base : ~Before(ik, first) =>
            \E i \in DOMAIN shown :
                /\ shown[i].key = ik.key /\ shown[i].seq >= TagSeq(ik.tag)
                /\ \A j \in i + 1 .. Len(shown) : shown[j].key # ik.key

-----------------------------------------------------------------------------
(* What a caller may expect and the code does not do: no configuration checks *)
(* this, README.md says how it fails.                                         *)

\* A walk that has come to its end has shown every entry that was there from its start.
SeekedWalkIsWhole ==
    (at = End /\ first # End) =>
        \A ik \in base : ~Before(ik, first) => \E i \in DOMAIN shown : shown[i] = Entry(ik)
=============================================================================
