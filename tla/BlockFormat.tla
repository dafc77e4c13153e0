----------------------------- MODULE BlockFormat -----------------------------
(* A block of a table file, as BlockBuilder writes it and Block reads it: the *)
(* entries in the order they were added, each with the length of the prefix   *)
(* it shares with the key before it, and the places of the restarts, whose    *)
(* keys are whole.  A key is the sequence of its bytes.  A place in a block   *)
(* is the number of entries before it: an entry is at least twelve bytes      *)
(* long, so that its offset grows with it.                                    *)
EXTENDS Integers, Sequences

CONSTANT RestartInterval       \* BlockBuilder::RESTART_INTERVAL

ASSUME BlockAssumption == RestartInterval \in Nat \ {0}

Lesser(a, b) == IF a < b THEN a ELSE b

\* The length of the longest common prefix of two byte strings
SharedLen(a, b) ==
    CHOOSE n \in 0 .. Lesser(Len(a), Len(b)) :
        /\ \A i \in 1 .. n : a[i] = b[i]
        /\ n < Lesser(Len(a), Len(b)) => a[n + 1] # b[n + 1]

\* Block::Compare(a, b) < 0: memcmp, then the lengths
Less(a, b) ==
    LET n == SharedLen(a, b) IN n < Len(b) /\ (n < Len(a) => a[n + 1] < b[n + 1])

-----------------------------------------------------------------------------
\* The builder

EmptyBuilder == [entries |-> <<>>, restarts |-> <<>>, pre |-> <<>>, finished |-> FALSE, num |-> 0]

\* Variant: the suffix begins with the last shared byte.
EntryOverlaps(key, value, shared) ==
    [shared |-> shared, value |-> value,
     suffix |-> SubSeq(key, IF shared = 0 THEN 1 ELSE shared, Len(key))]

Entry(key, value, shared) ==
    [shared |-> shared, suffix |-> SubSeq(key, shared + 1, Len(key)), value |-> value]

\* BlockBuilder::add
AddTo(b, key, value) ==
    LET restart == b.num % RestartInterval = 0 IN
    [b EXCEPT !.entries = Append(@, Entry(key, value, IF restart THEN 0 ELSE SharedLen(key, b.pre))),
              !.restarts = IF restart THEN Append(@, Len(b.entries)) ELSE @,
              !.num = @ + 1,
              !.pre = key]

\* The bytes of an entry.  A value carries its size.
EntrySize(e) == 12 + Len(e.suffix) + e.value.size

\* data_.size(), before the restarts are put behind it
DataSize(b) ==
    LET upTo[i \in 0 .. Len(b.entries)] ==
            IF i = 0 THEN 0 ELSE upTo[i - 1] + EntrySize(b.entries[i])
    IN  upTo[Len(b.entries)]

\* BlockBuilder::final: the restarts and their number follow the entries
Content(b) == [entries |-> b.entries, restarts |-> b.restarts]
ContentSize(b) == DataSize(b) + 4 * (Len(b.restarts) + 1)

-----------------------------------------------------------------------------
\* The reader; position i is the i-th entry, Past(c) is where data_end_ points.

Past(c) == Len(c.entries) + 1

\* it == end(): equal compares what is left behind the head of the entry, which
\* is nothing for an entry without suffix and value at the end of the block.
AtEnd(c, i) ==
    \/ i = Past(c)
    \/ i = Len(c.entries) /\ Len(c.entries[i].suffix) + c.entries[i].value.size = 0

\* The key an iterator shows at each position from the one it started at
KeysFrom(c, start) ==
    LET k[i \in start .. Len(c.entries)] ==
            LET e == c.entries[i] IN
            IF i = start THEN e.suffix ELSE SubSeq(k[i - 1], 1, e.shared) \o e.suffix
    IN  k

Keys(c) == KeysFrom(c, 1)

RestartPoint(c, id) == c.restarts[id + 1] + 1
KeyAtRestartPoint(c, id) == c.entries[RestartPoint(c, id)].suffix

\* Variant: a restart with the key itself sends the search to its right.
RestartBeforeRight(c, key) ==
    LET bounds == 0 .. Len(c.restarts)
        narrow[p \in bounds \X bounds] ==
            LET l   == p[1]
                r   == p[2]
                mid == (l + r) \div 2
            IN  IF l + 1 >= r THEN l
                ELSE IF Less(KeyAtRestartPoint(c, mid), key) THEN narrow[<<l, mid>>]
                ELSE narrow[<<mid, r>>]
    IN  narrow[<<0, Len(c.restarts)>>]

\* The binary search over the restarts: left when it ends
RestartBefore(c, key) ==
    LET bounds == 0 .. Len(c.restarts)
        narrow[p \in bounds \X bounds] ==
            LET l   == p[1]
                r   == p[2]
                mid == (l + r) \div 2
            IN  IF l + 1 >= r THEN l
                ELSE IF Less(KeyAtRestartPoint(c, mid), key) THEN narrow[<<mid, r>>]
                ELSE narrow[<<l, mid>>]
    IN  narrow[<<0, Len(c.restarts)>>]

SearchStart(c, key) == RestartPoint(c, RestartBefore(c, key))

\* The key is below all others: lower_bound returns end() without having stood
\* at an entry.
BelowAll(c, key) == Less(key, c.entries[SearchStart(c, key)].suffix)

\* Variant: the scan from the restart looks at one entry only.
LowerBoundShort(c, key) ==
    LET start == SearchStart(c, key)
        k     == KeysFrom(c, start)
    IN  IF BelowAll(c, key) THEN Past(c)
        ELSE IF Less(k[start], key) THEN start + 1 ELSE start

\* Block::lower_bound, in a block with a restart
LowerBound(c, key) ==
    LET start == SearchStart(c, key)
        k     == KeysFrom(c, start)
    IN  IF BelowAll(c, key) THEN Past(c)
        ELSE CHOOSE i \in start .. Past(c) :
                /\ AtEnd(c, i) \/ ~Less(k[i], key)
                /\ \A j \in start .. i - 1 : ~AtEnd(c, j) /\ Less(k[j], key)

\* Block::find: the key shown at the end is empty
Find(c, key) ==
    LET i == LowerBound(c, key) IN
    IF i # Past(c) /\ KeysFrom(c, SearchStart(c, key))[i] = key THEN i ELSE Past(c)

\* Block::find_if
Matches(c, key) ==
    {i \in 1 .. Len(c.entries) : /\ \A j \in 1 .. i : ~AtEnd(c, j)
                                 /\ Keys(c)[i] = key}
FindIf(c, key) ==
    IF Matches(c, key) = {} THEN Past(c)
    ELSE CHOOSE i \in Matches(c, key) : \A j \in Matches(c, key) : i <= j
=============================================================================
