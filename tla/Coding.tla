-------------------------------- MODULE Coding --------------------------------
(* The varint coding of sstable/coding.cpp and the strings behind their        *)
(* lengths that a write batch is made of: strings are appended to a buffer,     *)
(* of which a reader gets all, or what is left when the tail was lost.          *)
EXTENDS Integers, Sequences

CONSTANTS Radix,        \* 128: a byte has a flag and a digit
          Top,          \* 16: what a uint32_t holds above four digits
          Lengths,      \* lengths of strings
          MaxStrings    \* bound: strings in the buffer

\* What a uint32_t holds
Limit == Radix * Radix * Radix * Radix * Top

ASSUME CodingAssumption ==
    /\ Radix \in Nat \ {0, 1} /\ Top \in 2 .. Radix
    /\ Lengths \subseteq 0 .. Limit - 1
    /\ MaxStrings \in Nat

VARIABLES buf,          \* the bytes written
          strings,      \* ghost: the strings they are made of
          ends,         \* ghost: how many bytes there were behind each of them
          input,        \* the Buf the reader holds
          cut,          \* how many bytes the reader was given, NotCut before it starts
          failed,       \* a Get returned false
          got           \* the strings the reader got

codingVars == <<buf, strings, ends, input, cut, failed, got>>

NotCut == -1

-----------------------------------------------------------------------------
\* Variant: a digit too few at the boundary.
VarintLengthBelow(v) ==
    LET length[u \in 0 .. v] == IF u > Radix THEN 1 + length[u \div Radix] ELSE 1
    IN  length[v]

VarintLength(v) ==
    LET length[u \in 0 .. v] == IF u >= Radix THEN 1 + length[u \div Radix] ELSE 1
    IN  length[v]

\* v, and v shifted right by one digit, two, ...
Shifts(v, base, n) ==
    LET shifted[i \in 1 .. n] == IF i = 1 THEN v ELSE shifted[i - 1] \div base
    IN  shifted

\* The first n digits of d, from the lowest on, put together
Joined(d, base, n) ==
    LET above[i \in 1 .. n + 1] == IF i = n + 1 THEN 0 ELSE d[i] + base * above[i + 1]
    IN  above[1]

\* The length of the branch of EncodeVarint32 that v falls in
Branch(v) ==
    CHOOSE n \in 1 .. 5 : /\ n < 5 => Shifts(v, Radix, 5)[n] < Radix
                          /\ \A m \in 1 .. n - 1 : Shifts(v, Radix, 5)[m] >= Radix

\* The digits from the lowest on, with the flag on all but the last
EncodeVarint32(v) ==
    [i \in 1 .. Branch(v) |->
        IF i < Branch(v) THEN Radix + (Shifts(v, Radix, 5)[i] % Radix)
        ELSE Shifts(v, Radix, 5)[i]]

\* The places among the first five where a varint at the front of b can end
Ends(b) == {n \in 1 .. 5 : n <= Len(b) /\ b[n] < Radix}

\* GetVarint32: what it reads, and what is left; ok is FALSE for nullptr
GetVarint32(b) ==
    IF Ends(b) = {} THEN [ok |-> FALSE, value |-> 0, rest |-> b]
    ELSE LET n == CHOOSE n \in Ends(b) : \A m \in Ends(b) : n <= m
         IN  [ok |-> TRUE, value |-> Joined([i \in 1 .. n |-> b[i] % Radix], Radix, n) % Limit,
              rest |-> SubSeq(b, n + 1, Len(b))]

AppendVarString(b, s) == b \o EncodeVarint32(Len(s)) \o s

\* Variant: a string that ends the buffer counts as cut.
GetStringBeyond(b) ==
    LET v == GetVarint32(b) IN
    IF v.ok /\ Len(v.rest) > v.value
    THEN [ok |-> TRUE, input |-> SubSeq(v.rest, v.value + 1, Len(v.rest)),
          result |-> SubSeq(v.rest, 1, v.value)]
    ELSE [ok |-> FALSE, input |-> v.rest, result |-> <<>>]

\* GetLengthPrefixedString: the length is taken from input even if the string
\* behind it is not all there.
GetLengthPrefixedString(b) ==
    LET v == GetVarint32(b) IN
    IF v.ok /\ Len(v.rest) >= v.value
    THEN [ok |-> TRUE, input |-> SubSeq(v.rest, v.value + 1, Len(v.rest)),
          result |-> SubSeq(v.rest, 1, v.value)]
    ELSE [ok |-> FALSE, input |-> v.rest, result |-> <<>>]

-----------------------------------------------------------------------------
\* A string of n bytes, of the largest value a byte has but for the first
String(n) == [i \in 1 .. n |-> IF i = 1 THEN n % (2 * Radix) ELSE 2 * Radix - 1]

CodingInit ==
    /\ buf = <<>> /\ strings = <<>> /\ ends = <<>> /\ input = <<>>
    /\ cut = NotCut /\ failed = FALSE /\ got = <<>>

AppendString(n) ==
    /\ cut = NotCut /\ Len(strings) < MaxStrings
    /\ buf' = AppendVarString(buf, String(n))
    /\ strings' = Append(strings, String(n))
    /\ ends' = Append(ends, Len(buf'))
    /\ UNCHANGED <<input, cut, failed, got>>

\* A reader of the first n bytes
Open(n) ==
    /\ cut = NotCut
    /\ input' = SubSeq(buf, 1, n)
    /\ cut' = n
    /\ UNCHANGED <<buf, strings, ends, failed, got>>

Get ==
    /\ cut # NotCut /\ ~failed /\ input # <<>>
    /\ LET r == GetLengthPrefixedString(input) IN
       /\ input' = r.input
       /\ failed' = ~r.ok
       /\ got' = IF r.ok THEN Append(got, r.result) ELSE got
    /\ UNCHANGED <<buf, strings, ends, cut>>

CodingNext ==
    \/ \E n \in Lengths : AppendString(n)
    \/ \E n \in 0 .. Len(buf) : Open(n)
    \/ Get

CodingSpec == CodingInit /\ [][CodingNext]_codingVars

-----------------------------------------------------------------------------
\* A byte is a byte, and the reader has what it did not read of the buffer.
CodingTypeOK ==
    /\ \A i \in 1 .. Len(buf) : buf[i] \in 0 .. 2 * Radix - 1
    /\ Len(input) <= Len(buf)

Done == cut # NotCut /\ (failed \/ input = <<>>)

\* Wherever the buffer was cut, a reader gets strings that are whole, in order, and
\* nothing made up of parts of others; when it is done it has got all that end in
\* front of the cut, and the last Get failed if and only if the cut was inside a
\* string (coding.cpp:202-213).
GetsWholeStrings ==
    /\ Len(got) <= Len(strings) /\ got = SubSeq(strings, 1, Len(got))
    /\ \A i \in 1 .. Len(got) : ends[i] <= cut
    /\ Done => /\ \A i \in 1 .. Len(strings) : ends[i] <= cut => i <= Len(got)
               /\ failed <=> cut # 0 /\ \A i \in 1 .. Len(strings) : cut # ends[i]
=============================================================================
