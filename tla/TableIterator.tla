---------------------------- MODULE TableIterator ----------------------------
(* TwoLevelIterator over a finished table: begin, find, ++ in its two forms    *)
(* and assignment.  The iterator points into a block that the table owns, that *)
(* find made and nobody frees, or that it obtained itself and frees when it    *)
(* obtains the next; a copy points where the original does and owns nothing.   *)
EXTENDS SSTable

CONSTANT MaxReadFails          \* bound: blocks that cannot be read

ASSUME IteratorAssumption == MaxReadFails \in Nat

VARIABLES it,           \* the iterator: NotYet, End or [index, pos, block]
          owned,        \* the place in the index of the block in it's block_, 0 if none
          old,          \* what the last it++ returned
          assigned,     \* the iterator was assigned to once
          crashed,      \* the process has ended: in find, or by begin() of no block
          from,         \* ghost: the number of the entry the walk began at
          seen          \* ghost: how many entries it has shown since, at most
                        \* MaxAdds + 1

iterVars == <<it, owned, old, assigned, crashed, from, seen>>
itVars == <<vars, iterVars>>

NotYet == [index |-> 0, pos |-> 0, block |-> "none"]
End    == [index |-> 0, pos |-> 1, block |-> "none"]

ItInit ==
    /\ Init
    /\ it = NotYet /\ owned = 0 /\ old = NotYet
    /\ assigned = FALSE /\ crashed = FALSE
    /\ from = 0 /\ seen = 0

Shows(i) == [key |-> Keys(BlockAt(i.index))[i.pos], value |-> BlockAt(i.index).entries[i.pos].value]
At(i)    == i \notin {NotYet, End}

\* The iterator at the key
Place(key) ==
    LET i == LowerBound(IndexBlock, key)
    IN  [index |-> i, pos |-> Find(BlockAt(i), key), block |-> "found"]

\* The iterators find(key) may return: the end also when the block cannot be read
Found(key) ==
    {IF o.value = None THEN End ELSE Place(key) : o \in FindIter(key) \ {Aborts}}
    \cup IF MaxReadFails > 0 THEN {End} ELSE {}

First == [index |-> 1, pos |-> 1, block |-> "table"]

Walks(i) ==
    /\ it' = i
    /\ seen' = 1
    /\ from' = CHOOSE n \in 1 .. Len(added) : added[n] = Shows(i)

Begin ==
    /\ Table /\ it = NotYet /\ ~crashed
    /\ Walks(First)
    /\ UNCHANGED <<vars, owned, old, assigned, crashed>>

Seek(key) ==
    /\ Table /\ it = NotYet /\ ~crashed
    /\ \E i \in Found(key) :
          IF i = End THEN it' = End /\ UNCHANGED <<from, seen>> ELSE Walks(i)
    /\ UNCHANGED <<vars, owned, old, assigned, crashed>>

\* find(key) does not come back, for the first iterator or for one to be assigned
SeekAborts(key) ==
    /\ Table /\ ~crashed
    /\ it = NotYet \/ (At(it) /\ ~assigned)
    /\ Aborts \in FindIter(key)
    /\ crashed' = TRUE
    /\ UNCHANGED <<vars, it, owned, old, assigned, from, seen>>

LastInBlock == AtEnd(BlockAt(it.index), it.pos + 1)
LastBlock   == AtEnd(IndexBlock, it.index + 1)

\* increment: within the block, past the last block, or into the next, whose
\* block takes the place of the one the iterator had obtained
Within ==
    /\ ~LastInBlock
    /\ it' = [it EXCEPT !.pos = @ + 1]
    /\ UNCHANGED <<owned, crashed>>

\* Variant: data_iter_ stays.
ToEndStays ==
    /\ LastInBlock /\ LastBlock
    /\ UNCHANGED <<it, owned, crashed>>

ToEnd ==
    /\ LastInBlock /\ LastBlock
    /\ it' = End
    /\ UNCHANGED <<owned, crashed>>

\* Variant: the index iterator is moved twice.
ToNextSkips ==
    /\ LastInBlock /\ ~LastBlock
    /\ it' = [index |-> Lesser(it.index + 2, Len(IndexBlock.entries)), pos |-> 1, block |-> "own"]
    /\ owned' = it.index + 1
    /\ UNCHANGED crashed

\* Variant: block_ is not reset.
ToNextNotOwned ==
    /\ LastInBlock /\ ~LastBlock
    /\ it' = [index |-> it.index + 1, pos |-> 1, block |-> "own"]
    /\ UNCHANGED <<owned, crashed>>

ToNext ==
    /\ LastInBlock /\ ~LastBlock
    /\ it' = [index |-> it.index + 1, pos |-> 1, block |-> "own"]
    /\ owned' = it.index + 1
    /\ UNCHANGED crashed

\* ObtainBlockByIndex returned nullptr
ToNothing ==
    /\ LastInBlock /\ ~LastBlock /\ MaxReadFails > 0
    /\ crashed' = TRUE
    /\ owned' = 0
    /\ UNCHANGED it

\* ++it, and it++ that returns a copy of what it was
Increment ==
    /\ Table /\ At(it) /\ ~crashed
    /\ Within \/ ToEnd \/ ToNext \/ ToNothing
    /\ old' \in {it, old}
    /\ seen' = IF it' = End \/ crashed' THEN seen ELSE Lesser(seen + 1, MaxAdds + 1)
    /\ UNCHANGED <<vars, assigned, from>>

\* it = find(key), where assigning an end changes nothing; the iterator keeps
\* the block it owns.
Assign(key) ==
    /\ Table /\ At(it) /\ ~crashed /\ ~assigned
    /\ assigned' = TRUE
    /\ \E i \in Found(key) : IF i = End THEN UNCHANGED <<it, from, seen>> ELSE Walks(i)
    /\ UNCHANGED <<vars, owned, old, crashed>>

ItNext ==
    \/ Next /\ UNCHANGED iterVars
    \/ Begin
    \/ \E key \in KeyBytes : Seek(key) \/ SeekAborts(key) \/ Assign(key)
    \/ Increment

ItSpec == ItInit /\ [][ItNext]_itVars

\* A caller that walks goes on to the end.
ItFairSpec == ItSpec /\ WF_itVars(Increment)

-----------------------------------------------------------------------------
\* The iterator is at an entry that is there, in a block it can reach, and the block it
\* owns is the one it is in, unless it was assigned to; so what it++ returned can be used
\* as long as the iterator itself is in that block (SSTable.cpp:318).
IteratorsReach ==
    /\ At(it) => /\ it.index \in 1 .. Len(IndexBlock.entries)
                 /\ it.pos \in 1 .. Len(BlockAt(it.index).entries)
    /\ At(it) /\ it.block = "table" => it.index = 1
    /\ At(it) /\ it.block = "own" /\ ~crashed => owned = it.index
    /\ At(old) /\ old.block = "own" /\ old.index = it.index /\ ~assigned /\ ~crashed =>
           owned = old.index

\* A walk from begin or from a key that was found shows the entries from there
\* on in the order they were added, over every block, and ends with the last.
WalksInOrder ==
    /\ At(it) => from + seen - 1 <= Len(added) /\ Shows(it) = added[from + seen - 1]
    /\ it = End /\ seen > 0 => from + seen - 1 = Len(added)

\* A walk comes to the end, unless a block cannot be read.
WalkEnds == At(it) ~> (it = End \/ crashed)

-----------------------------------------------------------------------------
(* What callers, tests or comments expect and the code does not do: no        *)
(* configuration checks these, README.md says how each one fails.             *)

\* What it++ returned can be used until the next it++: its block is still there.
OldIsThere == At(old) /\ old.block = "own" => owned = old.index

\* After it = find(key), it is what find returned.
AssignTakes == [][\A key \in KeyBytes : Assign(key) => it' \in Found(key)]_itVars

\* A block that cannot be read does not end the process.
NeverCrashes == ~crashed
=============================================================================
