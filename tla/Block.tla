-------------------------------- MODULE Block --------------------------------
(* One BlockBuilder and the block it returns: add in the order of the keys,   *)
(* final in its two forms, clear, and what a reader of the block then sees.   *)
EXTENDS BlockFormat

CONSTANTS KeyBytes,     \* byte strings
          Sizes,        \* sizes of values
          MaxAdds,      \* bound: adds between two clears
          Reuse         \* callers add after final(result) without a clear

ASSUME BuilderAssumption ==
    /\ KeyBytes \subseteq Seq(0 .. 255)
    /\ Sizes \subseteq Nat
    /\ MaxAdds \in Nat /\ Reuse \in BOOLEAN

VARIABLES b,            \* the builder
          out,          \* the block returned, until the builder is used again, or None
          added,        \* ghost: the entries added since the last clear
          returned      \* ghost: those that the last block should hold

vars == <<b, out, added, returned>>

None == <<>>

Init ==
    /\ b = EmptyBuilder
    /\ out = None /\ added = <<>> /\ returned = <<>>

\* The value added n-th, of size s
Value(n, s) == [size |-> s, data |-> n]

InOrder(key) == added # <<>> => Less(added[Len(added)].key, key)

Moved == b.entries = <<>> /\ b.num > 0

\* add, under its assertion
Add(key, s) ==
    /\ ~b.finished /\ b.num < MaxAdds
    /\ Moved => Reuse
    /\ InOrder(key)
    /\ b' = AddTo(b, key, Value(b.num, s))
    /\ added' = Append(added, [key |-> key, value |-> Value(b.num, s)])
    /\ out' = None /\ returned' = <<>>

\* final(): a view of the block, which stays in the builder
FinalView ==
    /\ ~b.finished /\ added # <<>>
    /\ out' = Content(b)
    /\ b' = [b EXCEPT !.finished = TRUE]
    /\ returned' = added
    /\ UNCHANGED added

\* final(result): the data is moved out, and nothing else reset.  Nothing keeps a caller
\* from it after final(), when the restarts would follow twice; none does that, and here
\* it is left out as a misuse.
FinalMove ==
    /\ ~b.finished /\ added # <<>>
    /\ out' = Content(b)
    /\ b' = [b EXCEPT !.entries = <<>>]
    /\ returned' = added
    /\ added' = <<>>

Clear ==
    /\ b.num > 0
    /\ b' = EmptyBuilder
    /\ added' = <<>>
    /\ out' = None /\ returned' = <<>>

Next ==
    \/ \E key \in KeyBytes, s \in Sizes : Add(key, s)
    \/ FinalView \/ FinalMove
    \/ Clear

Spec == Init /\ [][Next]_vars

-----------------------------------------------------------------------------
\* What begin() .. end() shows: the entries up to the first position that
\* compares equal to the end
Scan(c) ==
    LET last == CHOOSE n \in 0 .. Len(c.entries) :
                    /\ AtEnd(c, n + 1)
                    /\ \A i \in 1 .. n : ~AtEnd(c, i)
    IN  [i \in 1 .. last |-> [key |-> Keys(c)[i], value |-> c.entries[i].value]]

\* The builder's counters and places agree: a restart every RestartInterval
\* entries, each at the entry it was taken for (block_builder.cpp:22-26).
TypeOK ==
    /\ b.finished \in BOOLEAN
    /\ b.num \in 0 .. MaxAdds
    /\ Len(b.entries) \in {0, b.num}
    /\ \A i \in 1 .. Len(b.restarts) : b.restarts[i] = RestartInterval * (i - 1)

\* The one entry that compares equal to the end it is before: nothing is behind its
\* head (equal, block_iter.cpp:197-204).
Invisible == returned = <<[key |-> <<>>, value |-> Value(0, 0)]>>

Readable == out # None /\ ~Invisible

\* A block returned reads back as what was added since the last clear, through
\* every shared prefix and restart, and whatever the builder held before; and the
\* builder keeps TypeOK, on which the next block rests.
RoundTrip == TypeOK /\ (Readable => Scan(out) = returned)

\* find gives every key that was added, with its value, and no other, and
\* find_if, the walk through the whole block, agrees with it.
FindsAll ==
    Readable =>
        \A key \in KeyBytes :
            LET i == Find(out, key) IN
            /\ FindIf(out, key) = i
            /\ IF \E n \in 1 .. Len(returned) : returned[n].key = key
               THEN ~AtEnd(out, i) /\ returned[i].key = key
               ELSE AtEnd(out, i)

\* From the first key of the block on, lower_bound is the first entry whose key
\* is not below the one asked for; below the first key it is the end.
LowerBoundIsLeast ==
    Readable =>
        \A key \in KeyBytes :
            LET at == {n \in 1 .. Len(returned) : ~Less(returned[n].key, key)} IN
            IF at = {} \/ Less(key, returned[1].key)
            THEN LowerBound(out, key) = Past(out)
            ELSE LowerBound(out, key) = CHOOSE n \in at : \A m \in at : n <= m
=============================================================================
