------------------------- MODULE BlockFormatProofs -------------------------
(***************************************************************************)
(* Lemmas about BlockFormat, for every restart interval, keys of every     *)
(* length and blocks of any number of entries: the order of the keys, the  *)
(* prefixes left out and put back, the restarts, and the three searches.   *)
(***************************************************************************)
EXTENDS BlockFormat, SequenceTheorems, WellFoundedInduction, TLAPS

USE BlockAssumption

Bytes == 0 .. 255
Key   == Seq(Bytes)

LEMMA LeastNumber ==
    ASSUME NEW S, S \subseteq Nat, S # {}
    PROVE  \E m \in S : \A n \in S : m <= n
<1>1. PICK m \in S : \A n \in S : ~(<<n, m>> \in OpToRel(<, Nat))
  BY WFMin, NatLessThanWellFounded
<1>2. \A n \in S : ~(n < m)
  BY <1>1 DEF OpToRel
<1> QED
  BY <1>2

LEMMA SharedLenIs ==
    ASSUME NEW a \in Key, NEW b \in Key
    PROVE  /\ SharedLen(a, b) \in 0 .. Lesser(Len(a), Len(b))
           /\ \A i \in 1 .. SharedLen(a, b) : a[i] = b[i]
           /\ SharedLen(a, b) < Lesser(Len(a), Len(b)) =>
                 a[SharedLen(a, b) + 1] # b[SharedLen(a, b) + 1]
<1> DEFINE L == Lesser(Len(a), Len(b))
           S == {n \in 0 .. L : n = L \/ a[n + 1] # b[n + 1]}
           P(n) == /\ \A i \in 1 .. n : a[i] = b[i]
                   /\ n < L => a[n + 1] # b[n + 1]
<1>1. L \in Nat
  BY DEF Lesser
<1>2. PICK n \in S : \A m \in S : n <= m
  <2>1. S \in SUBSET Nat /\ L \in S
    BY <1>1
  <2>2. QED
    BY <2>1, LeastNumber
<1>3. ASSUME NEW i \in 1 .. n PROVE a[i] = b[i]
  <2>1. i - 1 \in 0 .. L /\ i - 1 # L /\ ~(n <= i - 1) /\ (i - 1) + 1 = i
    BY <1>1, <1>2
  <2>2. QED
    BY <1>2, <2>1
<1>4. n \in 0 .. L /\ P(n)
  BY <1>1, <1>2, <1>3
<1>5. SharedLen(a, b) = CHOOSE m \in 0 .. L : P(m)
  BY DEF SharedLen
<1> HIDE DEF P, L
<1>6. SharedLen(a, b) \in 0 .. L /\ P(SharedLen(a, b))
  BY <1>4, <1>5
<1>7. QED
  BY <1>6 DEF P, L

\* Two byte strings agree up to one place only.
LEMMA SharedLenUnique ==
    ASSUME NEW a \in Key, NEW b \in Key, NEW n \in Nat,
           n <= Len(a), n <= Len(b), \A i \in 1 .. n : a[i] = b[i],
           (n < Len(a) /\ n < Len(b)) => a[n + 1] # b[n + 1]
    PROVE  SharedLen(a, b) = n
<1> DEFINE m == SharedLen(a, b)
<1>1. /\ m \in Nat /\ m <= Len(a) /\ m <= Len(b)
      /\ \A i \in 1 .. m : a[i] = b[i]
      /\ (m < Len(a) /\ m < Len(b)) => a[m + 1] # b[m + 1]
  BY SharedLenIs DEF Lesser, Key
<1> HIDE DEF m
<1>2. ~(m < n)
  <2>1. SUFFICES ASSUME m < n PROVE FALSE
    OBVIOUS
  <2>2. m + 1 \in 1 .. n /\ m < Len(a) /\ m < Len(b)
    BY <1>1, <2>1 DEF Key
  <2>3. QED
    BY <1>1, <2>2
<1>3. ~(n < m)
  <2>1. SUFFICES ASSUME n < m PROVE FALSE
    OBVIOUS
  <2>2. n + 1 \in 1 .. m /\ n < Len(a) /\ n < Len(b)
    BY <1>1, <2>1 DEF Key
  <2>3. QED
    BY <1>1, <2>2
<1>4. QED
  BY <1>1, <1>2, <1>3 DEF m

\* Less, once it is known up to where the keys agree
LEMMA LessIs ==
    ASSUME NEW a \in Key, NEW b \in Key, NEW n \in Nat,
           n <= Len(a), n <= Len(b), \A i \in 1 .. n : a[i] = b[i],
           (n < Len(a) /\ n < Len(b)) => a[n + 1] # b[n + 1]
    PROVE  Less(a, b) <=> n < Len(b) /\ (n < Len(a) => a[n + 1] < b[n + 1])
BY SharedLenUnique DEF Less

LEMMA SharedFacts ==
    ASSUME NEW a \in Key, NEW b \in Key
    PROVE  /\ SharedLen(a, b) \in Nat
           /\ SharedLen(a, b) <= Len(a) /\ SharedLen(a, b) <= Len(b)
           /\ \A i \in 1 .. SharedLen(a, b) : a[i] = b[i]
           /\ (SharedLen(a, b) < Len(a) /\ SharedLen(a, b) < Len(b)) =>
                 a[SharedLen(a, b) + 1] # b[SharedLen(a, b) + 1]
BY SharedLenIs DEF Lesser, Key

LEMMA BytesAre ==
    ASSUME NEW a \in Key
    PROVE  /\ Len(a) \in Nat
           /\ \A i \in 1 .. Len(a) : a[i] \in Nat /\ a[i] <= 255
<1>1. a \in Seq(Bytes)
  BY DEF Key
<1>2. Len(a) \in Nat
  BY <1>1
<1>3. ASSUME NEW i \in 1 .. Len(a) PROVE a[i] \in Nat /\ a[i] <= 255
  <2>1. a[i] \in Bytes
    BY <1>1
  <2>2. \A x \in Bytes : x \in Nat /\ x <= 255
    BY DEF Bytes
  <2>3. QED
    BY <2>1, <2>2
<1>4. QED
  BY <1>2, <1>3

LEMMA LessIrreflexive == ASSUME NEW a \in Key PROVE ~Less(a, a)
<1>1. Len(a) \in Nat
  BY BytesAre
<1>2. Less(a, a) <=> Len(a) < Len(a) /\ (Len(a) < Len(a) => a[Len(a) + 1] < a[Len(a) + 1])
  BY <1>1, LessIs
<1>3. QED
  BY <1>1, <1>2

LEMMA LessTotal ==
    ASSUME NEW a \in Key, NEW b \in Key, ~Less(a, b), ~Less(b, a)
    PROVE  a = b
<1> DEFINE n == SharedLen(a, b)
<1>1. /\ n \in Nat /\ n <= Len(a) /\ n <= Len(b)
      /\ \A i \in 1 .. n : a[i] = b[i]
      /\ (n < Len(a) /\ n < Len(b)) => a[n + 1] # b[n + 1]
  BY SharedFacts
<1> HIDE DEF n
<1>2. /\ ~(n < Len(b) /\ (n < Len(a) => a[n + 1] < b[n + 1]))
      /\ ~(n < Len(a) /\ (n < Len(b) => b[n + 1] < a[n + 1]))
  <2>1. Less(b, a) <=> n < Len(a) /\ (n < Len(b) => b[n + 1] < a[n + 1])
    BY <1>1, LessIs
  <2>2. QED
    BY <1>1, <2>1, LessIs
<1>3. Len(a) \in Nat /\ Len(b) \in Nat /\ n < Len(a) => a[n + 1] \in Nat
  BY <1>1, BytesAre
<1>4. n < Len(b) => b[n + 1] \in Nat
  BY <1>1, BytesAre
<1>5. n = Len(a) /\ n = Len(b)
  BY <1>1, <1>2, <1>3, <1>4, BytesAre
<1>6. a \in Seq(Bytes) /\ b \in Seq(Bytes) /\ Len(a) = Len(b)
      /\ \A i \in 1 .. Len(a) : a[i] = b[i]
  BY <1>1, <1>5 DEF Key
<1>7. QED
  BY ONLY <1>6, SeqEqual

LEMMA LessAsymmetric ==
    ASSUME NEW a \in Key, NEW b \in Key, Less(a, b)
    PROVE  ~Less(b, a)
<1> DEFINE n == SharedLen(a, b)
<1>1. /\ n \in Nat /\ n <= Len(a) /\ n <= Len(b)
      /\ \A i \in 1 .. n : a[i] = b[i]
      /\ (n < Len(a) /\ n < Len(b)) => a[n + 1] # b[n + 1]
  BY SharedFacts
<1> HIDE DEF n
<1>2. n < Len(b) /\ (n < Len(a) => a[n + 1] < b[n + 1])
  BY <1>1, LessIs
<1>3. Less(b, a) <=> n < Len(a) /\ (n < Len(b) => b[n + 1] < a[n + 1])
  BY <1>1, LessIs
<1>4. n < Len(a) => a[n + 1] \in Nat /\ b[n + 1] \in Nat
  BY <1>1, <1>2, BytesAre
<1>5. QED
  BY <1>2, <1>3, <1>4

LEMMA LessTransitive ==
    ASSUME NEW a \in Key, NEW b \in Key, NEW c \in Key, Less(a, b), Less(b, c)
    PROVE  Less(a, c)
<1> DEFINE m == SharedLen(a, b)
           n == SharedLen(b, c)
<1>1. /\ m \in Nat /\ m <= Len(a) /\ m <= Len(b)
      /\ \A i \in 1 .. m : a[i] = b[i]
      /\ (m < Len(a) /\ m < Len(b)) => a[m + 1] # b[m + 1]
  BY SharedFacts
<1>2. /\ n \in Nat /\ n <= Len(b) /\ n <= Len(c)
      /\ \A i \in 1 .. n : b[i] = c[i]
      /\ (n < Len(b) /\ n < Len(c)) => b[n + 1] # c[n + 1]
  BY SharedFacts
<1> HIDE DEF m, n
<1>3. m < Len(b) /\ (m < Len(a) => a[m + 1] < b[m + 1])
  BY <1>1, LessIs
<1>4. n < Len(c) /\ (n < Len(b) => b[n + 1] < c[n + 1])
  BY <1>2, LessIs
<1>5. /\ Len(a) \in Nat /\ Len(b) \in Nat /\ Len(c) \in Nat
      /\ \A i \in 1 .. Len(a) : a[i] \in Nat
      /\ \A i \in 1 .. Len(b) : b[i] \in Nat
      /\ \A i \in 1 .. Len(c) : c[i] \in Nat
  BY BytesAre
<1>6. CASE m <= n
  <2>1. m < Len(c) /\ \A i \in 1 .. m : a[i] = c[i]
    BY <1>1, <1>2, <1>4, <1>5, <1>6
  <2>2. m < Len(a) => a[m + 1] < c[m + 1]
    <3>1. CASE m = n
      BY <1>1, <1>3, <1>4, <1>5, <2>1, <3>1
    <3>2. CASE m < n
      <4>1. m + 1 \in 1 .. n
        BY <1>1, <1>2, <3>2
      <4>2. QED
        BY <1>2, <1>3, <4>1
    <3>3. QED
      BY <1>1, <1>2, <1>6, <3>1, <3>2
  <2>3. (m < Len(a) /\ m < Len(c)) => a[m + 1] # c[m + 1]
    BY <1>1, <1>5, <2>1, <2>2
  <2>4. QED
    BY <1>1, <1>5, <2>1, <2>2, <2>3, LessIs
<1>7. CASE n < m
  <2>1. n < Len(a) /\ \A i \in 1 .. n : a[i] = c[i]
    BY <1>1, <1>2, <1>5, <1>7
  <2>2. n < Len(b) /\ a[n + 1] = b[n + 1] /\ n + 1 \in 1 .. Len(a) /\ n + 1 \in 1 .. Len(c)
        /\ n + 1 \in 1 .. Len(b)
    BY <1>1, <1>2, <1>4, <1>5, <1>7
  <2>3. a[n + 1] < c[n + 1] /\ a[n + 1] # c[n + 1]
    BY <1>4, <1>5, <2>2
  <2>4. n <= Len(a) /\ n <= Len(c)
    BY <1>2, <1>4, <1>5, <2>1
  <2>5. Less(a, c) <=> n < Len(c) /\ (n < Len(a) => a[n + 1] < c[n + 1])
    BY <1>2, <2>1, <2>3, <2>4, LessIs
  <2>6. QED
    BY <1>4, <2>3, <2>5
<1>8. QED
  BY <1>1, <1>2, <1>6, <1>7

\* A key is below those it is a prefix of, and below those only if they are longer.
LEMMA PrefixNotAbove ==
    ASSUME NEW a \in Key, NEW b \in Key, SharedLen(b, a) = Len(b)
    PROVE  ~Less(a, b)
<1>1. /\ Len(b) \in Nat /\ Len(b) <= Len(a) /\ \A i \in 1 .. Len(b) : a[i] = b[i]
  BY SharedFacts, BytesAre
<1>2. QED
  BY <1>1, BytesAre, LessIs

-----------------------------------------------------------------------------
(* What a block says of the entries that were added to it                  *)

\* es is a sequence of [key, value] in the order of the keys, as add demands it.
Ordered(es) ==
    /\ Len(es) \in Nat
    /\ \A i \in 1 .. Len(es) : es[i].key \in Key /\ es[i].value.size \in Nat
    /\ \A i, j \in 1 .. Len(es) : i < j => Less(es[i].key, es[j].key)

IsRestart(i) == (i - 1) % RestartInterval = 0

Shared(es, i) == IF IsRestart(i) THEN 0 ELSE SharedLen(es[i].key, es[i - 1].key)

\* The block, or the builder, c holds the entries es.
Holds(c, es) ==
    /\ Len(c.entries) = Len(es)
    /\ \A i \in 1 .. Len(es) : c.entries[i] = Entry(es[i].key, es[i].value, Shared(es, i))
    /\ Len(c.restarts) \in Nat
    /\ Len(es) > 0 => Len(c.restarts) > 0
    /\ \A m \in 1 .. Len(c.restarts) : /\ c.restarts[m] = RestartInterval * (m - 1)
                                       /\ RestartInterval * (m - 1) < Len(es)

\* A key is the prefix it shares with the one before it and the suffix stored.
LEMMA PrefixAndSuffix ==
    ASSUME NEW a \in Key, NEW b \in Key
    PROVE  SubSeq(b, 1, SharedLen(a, b)) \o SubSeq(a, SharedLen(a, b) + 1, Len(a)) = a
<1> DEFINE n == SharedLen(a, b)
<1>1. /\ n \in Nat /\ n <= Len(a) /\ n <= Len(b)
      /\ \A i \in 1 .. n : a[i] = b[i]
  BY SharedFacts
<1> HIDE DEF n
<1>2. a \in Seq(Bytes) /\ b \in Seq(Bytes) /\ Len(a) \in Nat /\ Len(b) \in Nat
  BY DEF Key
<1>3. SubSeq(b, 1, n) = SubSeq(a, 1, n)
  <2>1. /\ \A i \in 1 .. n : a[i] \in Bytes
        /\ \A i \in 1 .. n : b[i] \in Bytes
    BY <1>1, <1>2, ElementOfSeq
  <2>2. /\ SubSeq(a, 1, n) \in Seq(Bytes) /\ Len(SubSeq(a, 1, n)) = n
        /\ \A i \in 1 .. n : SubSeq(a, 1, n)[i] = a[i]
    BY <1>1, <2>1, SubSeqProperties
  <2>3. /\ SubSeq(b, 1, n) \in Seq(Bytes) /\ Len(SubSeq(b, 1, n)) = n
        /\ \A i \in 1 .. n : SubSeq(b, 1, n)[i] = b[i]
    BY <1>1, <2>1, SubSeqProperties
  <2>4. \A i \in 1 .. n : SubSeq(b, 1, n)[i] = SubSeq(a, 1, n)[i]
    BY <1>1, <2>2, <2>3
  <2>5. QED
    BY ONLY <2>2, <2>3, <2>4, SeqEqual
<1>4. SubSeq(a, 1, n) \o SubSeq(a, n + 1, Len(a)) = a
  <2>1. 1 \in 1 .. Len(a) + 1 /\ n \in 1 - 1 .. Len(a) /\ Len(a) \in n .. Len(a)
    BY <1>1, <1>2
  <2>2. SubSeq(a, 1, n) \o SubSeq(a, n + 1, Len(a)) = SubSeq(a, 1, Len(a))
    BY <1>2, <2>1, ConcatAdjacentSubSeq
  <2>3. QED
    BY <1>2, <2>2, SubSeqFull
<1>5. QED
  BY <1>3, <1>4 DEF n

LEMMA WholeKey == ASSUME NEW a \in Key PROVE SubSeq(a, 1, Len(a)) = a
BY SubSeqFull DEF Key

LEMMA EntryParts ==
    ASSUME NEW a, NEW v, NEW n
    PROVE  /\ Entry(a, v, n).shared = n /\ Entry(a, v, n).value = v
           /\ Entry(a, v, n).suffix = SubSeq(a, n + 1, Len(a))
BY DEF Entry

\* At a restart the key is whole.
LEMMA EntryWhole ==
    ASSUME NEW a \in Key, NEW v
    PROVE  Entry(a, v, 0).shared = 0 /\ Entry(a, v, 0).value = v /\ Entry(a, v, 0).suffix = a
<1>1. Entry(a, v, 0).suffix = SubSeq(a, 0 + 1, Len(a))
  BY EntryParts
<1>2. 0 + 1 = 1
  OBVIOUS
<1>3. Entry(a, v, 0).suffix = SubSeq(a, 1, Len(a))
  BY ONLY <1>1, <1>2
<1>4. SubSeq(a, 1, Len(a)) = a
  BY WholeKey
<1>5. Entry(a, v, 0).shared = 0 /\ Entry(a, v, 0).value = v
  BY EntryParts
<1>6. QED
  BY ONLY <1>3, <1>4, <1>5

\* What an iterator shows from a restart on
LEMMA KeysFromRestart ==
    ASSUME NEW c, NEW es, Ordered(es), Holds(c, es),
           NEW s \in 1 .. Len(es), IsRestart(s)
    PROVE  KeysFrom(c, s) = [i \in s .. Len(es) |-> es[i].key]
<1> DEFINE D == s .. Len(c.entries)
           Step(k, i) == IF i = s THEN c.entries[i].suffix
                         ELSE SubSeq(k[i - 1], 1, c.entries[i].shared) \o c.entries[i].suffix
           P(k) == k = [i \in D |-> Step(k, i)]
           K == [i \in s .. Len(es) |-> es[i].key]
<1>1. KeysFrom(c, s) = CHOOSE k : P(k)
  BY DEF KeysFrom
<1>2. D = s .. Len(es)
  BY DEF Holds
<1>3. ASSUME NEW k, NEW i \in D, i # s => k[i - 1] = es[i - 1].key
      PROVE  Step(k, i) = es[i].key
  <2>1. /\ i \in 1 .. Len(es) /\ es[i].key \in Key
        /\ i # s => i - 1 \in 1 .. Len(es) /\ es[i - 1].key \in Key
    BY <1>2 DEF Ordered
  <2>2. c.entries[i] = Entry(es[i].key, es[i].value, Shared(es, i))
    BY <2>1 DEF Holds
  <2>3. CASE IsRestart(i) /\ i = s
    BY <2>1, <2>2, <2>3, EntryWhole DEF Shared
  <2>4. CASE IsRestart(i) /\ i # s
    <3>1. es[i - 1].key \in Seq(Bytes) /\ SubSeq(es[i - 1].key, 1, 0) = <<>>
      BY <2>1, <2>4, SubSeqEmpty DEF Key
    <3>2. c.entries[i].shared = 0 /\ c.entries[i].suffix = es[i].key
      BY <2>1, <2>2, <2>4, EntryWhole DEF Shared
    <3>3. <<>> \o es[i].key = es[i].key
      BY <2>1, ConcatEmptySeq DEF Key
    <3>4. SubSeq(k[i - 1], 1, c.entries[i].shared) = <<>>
      BY <1>3, <2>4, <3>1, <3>2
    <3>5. SubSeq(k[i - 1], 1, c.entries[i].shared) \o c.entries[i].suffix = es[i].key
      BY ONLY <3>2, <3>3, <3>4
    <3>6. QED
      BY <2>4, <3>5
  <2>5. CASE ~IsRestart(i)
    <3>1. i # s
      BY <2>5
    <3> DEFINE n == SharedLen(es[i].key, es[i - 1].key)
    <3>2. n \in Nat /\ Shared(es, i) = n
      BY <2>1, <2>5, <3>1, SharedFacts DEF Shared
    <3>3. SubSeq(es[i - 1].key, 1, n) \o SubSeq(es[i].key, n + 1, Len(es[i].key)) = es[i].key
      BY <2>1, <3>1, PrefixAndSuffix
    <3> HIDE DEF n
    <3>4. /\ c.entries[i].shared = n
          /\ c.entries[i].suffix = SubSeq(es[i].key, n + 1, Len(es[i].key))
      BY <2>2, <3>2 DEF Entry
    <3>5. SubSeq(es[i - 1].key, 1, c.entries[i].shared) \o c.entries[i].suffix = es[i].key
      BY <3>3, <3>4
    <3>6. QED
      BY <1>3, <3>1, <3>5
  <2>6. QED
    BY <2>3, <2>4, <2>5
<1>4. P(K)
  <2>1. \A i \in D : Step(K, i) = es[i].key
    <3>1. ASSUME NEW i \in D, i # s PROVE K[i - 1] = es[i - 1].key
      BY <1>2, <3>1 DEF Ordered
    <3>2. QED
      BY <1>3, <3>1
  <2> HIDE DEF Step
  <2>2. QED
    BY <1>2, <2>1
<1>5. P(KeysFrom(c, s))
  <2> HIDE DEF P
  <2>1. QED
    BY <1>1, <1>4
<1> DEFINE F == KeysFrom(c, s)
<1> HIDE DEF F
<1>6. F = [i \in D |-> Step(F, i)]
  BY <1>5 DEF F
<1> HIDE DEF Step
<1>7. \A i \in D : F[i] = es[i].key
  <2>1. SUFFICES ASSUME \E i \in D : F[i] # es[i].key PROVE FALSE
    OBVIOUS
  <2> DEFINE B == {i \in D : F[i] # es[i].key}
  <2>2. B \subseteq Nat /\ B # {}
    BY <1>2, <2>1
  <2>3. PICK i \in B : \A j \in B : i <= j
    BY <2>2, LeastNumber
  <2>4. i \in D /\ F[i] # es[i].key /\ F[i] = Step(F, i)
    BY <1>6, <2>3
  <2>5. i # s => F[i - 1] = es[i - 1].key
    <3>1. i # s => i - 1 \in D /\ ~(i <= i - 1)
      BY <1>2, <2>4
    <3>2. QED
      BY <2>3, <3>1
  <2>6. QED
    BY <1>3, <2>4, <2>5
<1>8. QED
  BY <1>2, <1>6, <1>7 DEF F

-----------------------------------------------------------------------------
(* The binary search over the restarts                                     *)

\* The middle of two places that are not neighbours
LEMMA Middle ==
    ASSUME NEW l \in Nat, NEW r \in Nat, l + 1 < r
    PROVE  (l + r) \div 2 \in l + 1 .. r - 1
<1> DEFINE m == (l + r) \div 2
<1>1. m \in Nat /\ 2 * m <= l + r /\ l + r < 2 * m + 2
  OBVIOUS
<1> HIDE DEF m
<1>2. l + 1 <= m /\ m <= r - 1
  BY <1>1
<1>3. QED
  BY <1>1, <1>2 DEF m

\* The last place between l and r that is not behind last
Clamp(last, l, r) == IF l >= r \/ last < l THEN l ELSE IF last >= r THEN r - 1 ELSE last

\* One step of the search for last among the places 0 .. n
Narrow(f, last, p) ==
    LET mid == (p[1] + p[2]) \div 2
    IN  IF p[1] + 1 >= p[2] THEN p[1]
        ELSE IF mid <= last THEN f[<<mid, p[2]>>] ELSE f[<<p[1], mid>>]

LEMMA NarrowIs ==
    ASSUME NEW f, NEW last \in Nat, NEW l \in Nat, NEW r \in Nat
    PROVE  Narrow(f, last, <<l, r>>) =
             IF l + 1 >= r THEN l
             ELSE IF (l + r) \div 2 <= last THEN f[<<(l + r) \div 2, r>>]
                  ELSE f[<<l, (l + r) \div 2>>]
BY DEF Narrow

\* f answers rightly wherever fewer than d places are left.
RightBelow(f, n, last, d) ==
    \A x, y \in 0 .. n : (x < y /\ y - x < d) => f[<<x, y>>] = Clamp(last, x, y)

LEMMA NarrowClamp ==
    ASSUME NEW f, NEW n \in Nat, NEW last \in Nat, NEW l \in 0 .. n, NEW r \in 0 .. n,
           RightBelow(f, n, last, r - l)
    PROVE  Narrow(f, last, <<l, r>>) = Clamp(last, l, r)
<1>a. l \in Nat /\ r \in Nat
  OBVIOUS
<1>b. Narrow(f, last, <<l, r>>) =
        IF l + 1 >= r THEN l
        ELSE IF (l + r) \div 2 <= last THEN f[<<(l + r) \div 2, r>>]
             ELSE f[<<l, (l + r) \div 2>>]
  BY <1>a, NarrowIs
<1>1. CASE l + 1 >= r
  <2>1. Narrow(f, last, <<l, r>>) = l
    BY ONLY <1>1, <1>b
  <2>2. QED
    BY <1>1, <2>1 DEF Clamp
<1>2. CASE l + 1 < r
  <2> DEFINE m == (l + r) \div 2
  <2>1. m \in l + 1 .. r - 1
    BY <1>2, Middle
  <2>2. Narrow(f, last, <<l, r>>) = IF m <= last THEN f[<<m, r>>] ELSE f[<<l, m>>]
    <3>1. ~(l + 1 >= r)
      BY <1>2
    <3>2. QED
      BY ONLY <3>1, <1>b
  <2> HIDE DEF m
  <2>3. /\ m \in 0 .. n /\ m < r /\ r - m < r - l /\ l < m /\ m - l < r - l
    BY <2>1
  <2>4. f[<<m, r>>] = Clamp(last, m, r) /\ f[<<l, m>>] = Clamp(last, l, m)
    BY <2>3 DEF RightBelow
  <2>5. CASE m <= last
    <3>1. Clamp(last, m, r) = Clamp(last, l, r)
      BY <1>2, <2>1, <2>5 DEF Clamp
    <3>2. QED
      BY <2>2, <2>4, <2>5, <3>1
  <2>6. CASE ~(m <= last)
    <3>1. Clamp(last, l, m) = Clamp(last, l, r)
      BY <1>2, <2>1, <2>6 DEF Clamp
    <3>2. QED
      BY <2>2, <2>4, <2>6, <3>1
  <2>7. QED
    BY <2>5, <2>6
<1>3. QED
  BY <1>1, <1>2

Narrows(f, n, last) == f = [p \in (0 .. n) \X (0 .. n) |-> Narrow(f, last, p)]

\* The search is well defined ...
LEMMA NarrowExists ==
    ASSUME NEW n \in Nat, NEW last \in Nat
    PROVE  \E f : Narrows(f, n, last)
<1> DEFINE W == [p \in (0 .. n) \X (0 .. n) |-> Clamp(last, p[1], p[2])]
<1>1. \A d \in Int : RightBelow(W, n, last, d)
  BY DEF RightBelow
<1>2. ASSUME NEW p \in (0 .. n) \X (0 .. n) PROVE Narrow(W, last, p) = Clamp(last, p[1], p[2])
  <2>1. PICK x \in 0 .. n, y \in 0 .. n : p = <<x, y>>
    OBVIOUS
  <2>2. y - x \in Int
    OBVIOUS
  <2> HIDE DEF W
  <2>3. RightBelow(W, n, last, y - x)
    BY <1>1, <2>2
  <2>4. Narrow(W, last, <<x, y>>) = Clamp(last, x, y)
    BY <2>3, NarrowClamp
  <2>5. p[1] = x /\ p[2] = y
    BY <2>1
  <2>6. QED
    BY ONLY <2>1, <2>4, <2>5
<1>3. Narrows(W, n, last)
  BY <1>2 DEF Narrows
<1>4. QED
  BY <1>3

\* ... and finds last.
LEMMA NarrowFinds ==
    ASSUME NEW n \in Nat, n > 0, NEW last \in 0 .. n - 1, NEW f, Narrows(f, n, last)
    PROVE  f[<<0, n>>] = last
<1> DEFINE Bad == {d \in Nat : \E x, y \in 0 .. n : x < y /\ y - x = d /\ f[<<x, y>>] # Clamp(last, x, y)}
<1>1. \A x, y \in 0 .. n : f[<<x, y>>] = Narrow(f, last, <<x, y>>)
  BY DEF Narrows
<1>2. Bad = {}
  <2>1. SUFFICES ASSUME Bad # {} PROVE FALSE
    OBVIOUS
  <2>2. PICK d \in Bad : \A e \in Bad : d <= e
    BY <2>1, LeastNumber
  <2>3. PICK x \in 0 .. n, y \in 0 .. n : x < y /\ y - x = d /\ f[<<x, y>>] # Clamp(last, x, y)
    BY <2>2
  <2>4. ASSUME NEW u \in 0 .. n, NEW v \in 0 .. n, u < v, v - u < y - x
        PROVE  f[<<u, v>>] = Clamp(last, u, v)
    <3>1. v - u \in Nat /\ ~(d <= v - u)
      BY <2>3, <2>4
    <3>2. v - u \notin Bad
      BY <2>2, <3>1
    <3>3. QED
      BY <2>4, <3>1, <3>2
  <2>5. n \in Nat /\ last \in Nat /\ x \in 0 .. n /\ y \in 0 .. n
    OBVIOUS
  <2> HIDE DEF Bad
  <2>6. RightBelow(f, n, last, y - x)
    BY <2>4 DEF RightBelow
  <2>7. Narrow(f, last, <<x, y>>) = Clamp(last, x, y)
    BY ONLY <2>5, <2>6, NarrowClamp
  <2>8. QED
    BY <1>1, <2>3, <2>7
<1>3. f[<<0, n>>] = Clamp(last, 0, n)
  <2>1. n - 0 \notin Bad /\ 0 \in 0 .. n /\ n \in 0 .. n /\ n - 0 \in Nat /\ 0 < n
    BY <1>2
  <2>2. QED
    BY <2>1
<1>4. QED
  BY <1>3 DEF Clamp

-----------------------------------------------------------------------------
(* Where the restarts are                                                  *)

LEMMA RestartAt == ASSUME NEW m \in Int PROVE (RestartInterval * m) % RestartInterval = 0
OBVIOUS

LEMMA RestartsOrdered ==
    ASSUME NEW a \in Int, NEW b \in Int, a < b
    PROVE  RestartInterval * a + RestartInterval <= RestartInterval * b
<1>1. PICK d \in Nat : b = a + 1 + d
  <2>1. b - a - 1 \in Nat /\ b = a + 1 + (b - a - 1)
    OBVIOUS
  <2>2. QED
    BY <2>1
<1>2. RestartInterval * b = RestartInterval * a + RestartInterval + RestartInterval * d
  BY <1>1
<1>3. RestartInterval * d >= 0
  BY <1>1
<1>4. QED
  BY <1>1, <1>2, <1>3

\* L restarts are enough for x entries and none of them is too many: the next entry is
\* a restart if and only if they are used up.
LEMMA NextRestart ==
    ASSUME NEW L \in Nat, NEW x \in Int,
           RestartInterval * (L - 1) < x, x <= RestartInterval * L
    PROVE  x % RestartInterval = 0 <=> x = RestartInterval * L
<1>1. ASSUME x % RestartInterval = 0 PROVE x = RestartInterval * L
  <2> DEFINE q == x \div RestartInterval
  <2>1. x = RestartInterval * q /\ q \in Int
    BY <1>1
  <2> HIDE DEF q
  <2>2. /\ RestartInterval * (L - 1) \in Int /\ RestartInterval * L \in Int
        /\ RestartInterval * q \in Int
    BY <2>1
  <2>3. ~(q <= L - 1)
    <3>1. q < L - 1 => RestartInterval * q + RestartInterval <= RestartInterval * (L - 1)
      BY <2>1, RestartsOrdered
    <3>2. QED
      BY <2>1, <2>2, <3>1
  <2>4. ~(L < q)
    <3>1. L < q => RestartInterval * L + RestartInterval <= RestartInterval * q
      BY <2>1, RestartsOrdered
    <3>2. QED
      BY <2>1, <2>2, <3>1
  <2>5. q = L
    BY <2>1, <2>3, <2>4
  <2>6. QED
    BY <2>1, <2>5
<1>2. QED
  BY <1>1, RestartAt

-----------------------------------------------------------------------------
(* What a reader finds in a block that holds es                            *)

\* The place of a restart, and its key
LEMMA RestartIs ==
    ASSUME NEW c, NEW es, Ordered(es), Holds(c, es), NEW m \in 0 .. Len(c.restarts) - 1
    PROVE  /\ RestartPoint(c, m) = RestartInterval * m + 1
           /\ RestartPoint(c, m) \in 1 .. Len(es) /\ IsRestart(RestartPoint(c, m))
           /\ KeyAtRestartPoint(c, m) = es[RestartPoint(c, m)].key
<1>1. /\ m + 1 \in 1 .. Len(c.restarts) /\ (m + 1) - 1 = m /\ m \in Nat
  BY DEF Holds
<1>2. c.restarts[m + 1] = RestartInterval * m /\ RestartInterval * m < Len(es)
  BY <1>1 DEF Holds
<1>3. RestartInterval * m \in Nat
  BY <1>1
<1> DEFINE r == RestartInterval * m + 1
<1>4. r \in 1 .. Len(es) /\ IsRestart(r) /\ RestartPoint(c, m) = r
  <2>1. r - 1 = RestartInterval * m
    BY <1>3
  <2>2. IsRestart(r)
    BY <1>1, <2>1, RestartAt DEF IsRestart
  <2>3. QED
    BY <1>2, <1>3, <2>2 DEF RestartPoint, Ordered
<1> HIDE DEF r
<1>5. c.entries[r] = Entry(es[r].key, es[r].value, 0) /\ es[r].key \in Key
  BY <1>4 DEF Holds, Ordered, Shared
<1>6. c.entries[r].suffix = es[r].key
  BY <1>5, EntryWhole
<1>7. QED
  BY <1>4, <1>6 DEF r, KeyAtRestartPoint

\* The search over the restarts ends at the first one, or at one with a key below the
\* one it looks for.
LEMMA RestartBeforeIs ==
    ASSUME NEW c, NEW es, Ordered(es), Holds(c, es), Len(es) > 0, NEW key \in Key
    PROVE  /\ RestartBefore(c, key) \in 0 .. Len(c.restarts) - 1
           /\ RestartBefore(c, key) > 0 =>
                Less(KeyAtRestartPoint(c, RestartBefore(c, key)), key)
<1> DEFINE n == Len(c.restarts)
           K(m) == KeyAtRestartPoint(c, m)
           Low == {m \in 0 .. n - 1 : m = 0 \/ Less(K(m), key)}
<1>1. n \in Nat /\ n > 0
  BY DEF Holds
<1>2. \A m \in 0 .. n - 1 : K(m) \in Key
  BY RestartIs DEF Ordered
<1>3. \A l, m \in 0 .. n - 1 : l < m => Less(K(l), K(m))
  <2>1. SUFFICES ASSUME NEW l \in 0 .. n - 1, NEW m \in 0 .. n - 1, l < m
                 PROVE  Less(K(l), K(m))
    OBVIOUS
  <2>2. RestartInterval * l + RestartInterval <= RestartInterval * m
    BY <2>1, RestartsOrdered
  <2>3. /\ RestartInterval * l \in Int /\ RestartInterval * m \in Int
    OBVIOUS
  <2>4. RestartPoint(c, l) < RestartPoint(c, m)
    BY <2>2, <2>3, RestartIs
  <2>5. QED
    BY <2>4, RestartIs DEF Ordered
<1> HIDE DEF K
<1>4. PICK last \in Low : \A m \in Low : m <= last
  <2> DEFINE Up == {n - m : m \in Low}
  <2>1. 0 \in Low /\ Low \subseteq 0 .. n - 1
    BY <1>1
  <2>2. Up \subseteq Nat /\ Up # {}
    <3>1. n - 0 \in Up
      BY <2>1
    <3>2. \A m \in Low : n - m \in Nat
      BY <1>1, <2>1
    <3> HIDE DEF Low
    <3>3. QED
      BY <3>1, <3>2
  <2>3. PICK u \in Up : \A v \in Up : u <= v
    BY <2>2, LeastNumber
  <2>4. PICK m \in Low : u = n - m
    BY <2>3
  <2>5. \A k \in Low : n - m <= n - k
    BY <2>3, <2>4
  <2>6. \A k \in Low : k <= m
    <3>1. n \in Nat /\ m \in Nat /\ \A k \in Low : k \in Nat
      BY <1>1, <2>1, <2>4
    <3>2. QED
      BY ONLY <2>5, <3>1
  <2>7. QED
    BY <2>4, <2>6
<1>5. \A m \in 1 .. n - 1 : Less(K(m), key) <=> m <= last
  <2>1. SUFFICES ASSUME NEW m \in 1 .. n - 1, m <= last PROVE Less(K(m), key)
    BY <1>1, <1>4
  <2>2. CASE m = last
    BY <1>4, <2>1, <2>2
  <2>3. CASE m < last
    <3>1. Less(K(m), K(last)) /\ Less(K(last), key) /\ m \in 0 .. n - 1 /\ last \in 0 .. n - 1
      BY <1>1, <1>3, <1>4, <2>1, <2>3
    <3>2. QED
      BY <1>2, <3>1, LessTransitive
  <2>4. QED
    BY <1>1, <1>4, <2>1, <2>2, <2>3
<1> DEFINE B == 0 .. n
           Step(f, p) ==
             LET l   == p[1]
                 r   == p[2]
                 mid == (l + r) \div 2
             IN  IF l + 1 >= r THEN l
                 ELSE IF Less(KeyAtRestartPoint(c, mid), key) THEN f[<<mid, r>>]
                 ELSE f[<<l, mid>>]
           P(f) == f = [p \in B \X B |-> Step(f, p)]
           F == CHOOSE f : P(f)
<1>6. RestartBefore(c, key) = F[<<0, n>>]
  BY DEF RestartBefore
<1>7. \A f : \A p \in B \X B : Step(f, p) = Narrow(f, last, p)
  <2>1. SUFFICES ASSUME NEW f, NEW p \in B \X B
                 PROVE  Step(f, p) = Narrow(f, last, p)
    OBVIOUS
  <2> DEFINE l == p[1]
             r == p[2]
  <2> DEFINE m == (l + r) \div 2
  <2>2. last \in Nat /\ l \in Nat /\ r \in Nat /\ r <= n
    BY <1>1, <1>4
  <2>3. Narrow(f, last, p) = IF l + 1 >= r THEN l
                             ELSE IF m <= last THEN f[<<m, r>>] ELSE f[<<l, m>>]
    BY DEF Narrow
  <2>4. Step(f, p) = IF l + 1 >= r THEN l
                     ELSE IF Less(K(m), key) THEN f[<<m, r>>] ELSE f[<<l, m>>]
    BY DEF K
  <2>5. l + 1 < r => m \in 1 .. n - 1
    <3>1. l + 1 < r => m \in l + 1 .. r - 1
      BY <2>2, Middle
    <3> HIDE DEF m, l, r
    <3>2. QED
      BY <1>1, <2>2, <3>1
  <2> HIDE DEF Step, m, l, r
  <2>6. l + 1 < r <=> ~(l + 1 >= r)
    BY <2>2
  <2>7. l + 1 < r => (Less(K(m), key) <=> m <= last)
    BY <1>5, <2>5
  <2>8. QED
    BY ONLY <2>3, <2>4, <2>6, <2>7
<1> HIDE DEF Step
<1>8. \A f : P(f) <=> Narrows(f, n, last)
  BY <1>7 DEF Narrows
<1>9. Narrows(F, n, last)
  <2> HIDE DEF P
  <2>1. \E f : P(f)
    BY <1>1, <1>4, <1>8, NarrowExists
  <2>2. P(F)
    BY <2>1
  <2>3. QED
    BY <1>8, <2>2
<1>10. F[<<0, n>>] = last
  <2> HIDE DEF F
  <2>1. last \in 0 .. n - 1
    BY <1>4
  <2>2. QED
    BY <1>1, <1>9, <2>1, NarrowFinds
<1>11. QED
  BY <1>4, <1>6, <1>10 DEF K

\* Only the empty key has no suffix: what is left of a key behind the prefix it
\* shares with the smaller key before it is not empty.
LEMMA SuffixStays ==
    ASSUME NEW c, NEW es, Ordered(es), Holds(c, es), NEW i \in 1 .. Len(es)
    PROVE  /\ c.entries[i].value = es[i].value
           /\ Len(c.entries[i].suffix) \in Nat
           /\ Len(c.entries[i].suffix) = 0 => i = 1 /\ es[i].key = <<>>
<1> DEFINE a == es[i].key
           n == Shared(es, i)
<1>1. a \in Key /\ Len(a) \in Nat /\ c.entries[i] = Entry(a, es[i].value, n)
  BY BytesAre DEF Ordered, Holds
<1>2. i # 1 => i - 1 \in 1 .. Len(es) /\ es[i - 1].key \in Key /\ Less(es[i - 1].key, a)
  <2>1. Len(es) \in Nat
    BY DEF Ordered
  <2>2. i # 1 => i - 1 \in 1 .. Len(es) /\ i - 1 < i
    BY <2>1
  <2>3. QED
    BY <2>2 DEF Ordered
<1>3. IsRestart(1)
  BY RestartAt DEF IsRestart
<1>4. n \in Nat /\ n <= Len(a)
  BY <1>1, <1>2, <1>3, SharedFacts DEF Shared
<1>5. c.entries[i].suffix = SubSeq(a, n + 1, Len(a)) /\ c.entries[i].value = es[i].value
  BY <1>1, EntryParts
<1>6. Len(SubSeq(a, n + 1, Len(a))) = Len(a) - n
  BY <1>1, <1>4 DEF Key
<1>7. ASSUME Len(a) - n = 0 PROVE i = 1 /\ a = <<>>
  <2>1. n = Len(a)
    BY <1>1, <1>4, <1>7
  <2>2. ~(i # 1 /\ ~IsRestart(i))
    BY <1>1, <1>2, <2>1, PrefixNotAbove DEF Shared
  <2>3. IsRestart(i)
    BY <1>3, <2>2
  <2>4. n = 0
    BY <2>3 DEF Shared
  <2>5. Len(a) = 0
    BY <2>1, <2>4
  <2>6. a = <<>>
    BY <1>1, <2>5, EmptySeq DEF Key
  <2>7. i = 1
    <3>1. SUFFICES ASSUME i # 1 PROVE FALSE
      OBVIOUS
    <3>2. es[i - 1].key \in Key /\ Less(es[i - 1].key, a)
      BY <1>2, <3>1
    <3>3. SharedLen(a, es[i - 1].key) = Len(a)
      <4>1. SharedLen(a, es[i - 1].key) \in Nat /\ SharedLen(a, es[i - 1].key) <= Len(a)
        BY <1>1, <3>2, SharedFacts
      <4>2. QED
        BY <2>5, <4>1
    <3>4. QED
      BY <1>1, <3>2, <3>3, PrefixNotAbove
  <2>8. QED
    BY <2>6, <2>7
<1>8. QED
  BY <1>1, <1>4, <1>5, <1>6, <1>7

\* The one block whose only entry compares equal to the end
Hidden(es) == Len(es) = 1 /\ es[1].key = <<>> /\ es[1].value.size = 0

\* No position before the end of any other block does.
LEMMA EndIsPast ==
    ASSUME NEW c, NEW es, Ordered(es), Holds(c, es), ~Hidden(es), NEW i \in 1 .. Len(es) + 1
    PROVE  /\ Past(c) = Len(es) + 1
           /\ AtEnd(c, i) <=> i = Len(es) + 1
<1>1. Len(es) \in Nat /\ Len(c.entries) = Len(es) /\ Past(c) = Len(es) + 1
  BY DEF Past, Ordered, Holds
<1>2. ASSUME i = Len(es), Len(c.entries[i].suffix) + c.entries[i].value.size = 0
      PROVE  FALSE
  <2>1. i \in 1 .. Len(es)
    BY <1>1, <1>2
  <2>2. /\ c.entries[i].value = es[i].value
        /\ Len(c.entries[i].suffix) \in Nat /\ es[i].value.size \in Nat
        /\ Len(c.entries[i].suffix) = 0 => i = 1 /\ es[i].key = <<>>
    <3>1. es[i].value.size \in Nat
      BY <2>1 DEF Ordered
    <3>2. QED
      BY <2>1, <3>1, SuffixStays
  <2>3. Len(c.entries[i].suffix) = 0 /\ es[i].value.size = 0
    BY <1>2, <2>2
  <2>4. QED
    BY <1>2, <2>2, <2>3 DEF Hidden
<1>3. QED
  BY <1>1, <1>2 DEF AtEnd

\* Keys shows the keys.
LEMMA KeysAre ==
    ASSUME NEW c, NEW es, Ordered(es), Holds(c, es), Len(es) > 0
    PROVE  Keys(c) = [i \in 1 .. Len(es) |-> es[i].key]
<1>1. 1 \in 1 .. Len(es) /\ IsRestart(1)
  BY RestartAt DEF Ordered, IsRestart
<1>2. QED
  BY <1>1, KeysFromRestart DEF Keys

\* p is the place of the least entry not below key, behind the last if there is none.
LeastNotBelow(es, key, p) ==
    /\ p \in 1 .. Len(es) + 1
    /\ \A j \in 1 .. p - 1 : Less(es[j].key, key)
    /\ p # Len(es) + 1 => ~Less(es[p].key, key)

LEMMA LeastNotBelowExists ==
    ASSUME NEW es, Ordered(es), NEW key
    PROVE  \E p : LeastNotBelow(es, key, p)
<1> DEFINE S == {p \in 1 .. Len(es) + 1 : p # Len(es) + 1 => ~Less(es[p].key, key)}
<1>1. Len(es) \in Nat
  BY DEF Ordered
<1>2. Len(es) + 1 \in S /\ S \subseteq Nat
  BY <1>1
<1>3. PICK p \in S : \A q \in S : p <= q
  <2> HIDE DEF S
  <2>1. QED
    BY <1>2, LeastNumber
<1>4. ASSUME NEW j \in 1 .. p - 1 PROVE Less(es[j].key, key)
  <2>1. j \in 1 .. Len(es) + 1 /\ j # Len(es) + 1 /\ ~(p <= j)
    BY <1>1, <1>3
  <2>2. QED
    BY <1>3, <2>1
<1>5. QED
  BY <1>3, <1>4 DEF LeastNotBelow

LEMMA LowerBoundIs ==
    ASSUME NEW c, NEW es, Ordered(es), Holds(c, es), Len(es) > 0, ~Hidden(es),
           NEW key \in Key, NEW p, LeastNotBelow(es, key, p)
    PROVE  /\ SearchStart(c, key) \in 1 .. Len(es) /\ IsRestart(SearchStart(c, key))
           /\ BelowAll(c, key) <=> Less(key, es[1].key)
           /\ Less(key, es[1].key) => LowerBound(c, key) = Len(es) + 1
           /\ ~Less(key, es[1].key) => LowerBound(c, key) = p /\ SearchStart(c, key) <= p
<1> DEFINE s == SearchStart(c, key)
           k == KeysFrom(c, s)
           m == RestartBefore(c, key)
           n == Len(es)
           Q(i) == /\ AtEnd(c, i) \/ ~Less(k[i], key)
                   /\ \A j \in s .. i - 1 : ~AtEnd(c, j) /\ Less(k[j], key)
<1>1. /\ m \in 0 .. Len(c.restarts) - 1
      /\ m > 0 => Less(KeyAtRestartPoint(c, m), key)
  BY RestartBeforeIs
<1>2. s \in 1 .. n /\ IsRestart(s) /\ s = RestartInterval * m + 1
      /\ KeyAtRestartPoint(c, m) = es[s].key
  BY <1>1, RestartIs DEF SearchStart
<1>3. k = [i \in s .. n |-> es[i].key]
  BY <1>2, KeysFromRestart
<1>4. c.entries[s].suffix = es[s].key
  BY <1>2 DEF SearchStart, KeyAtRestartPoint
<1>5. s = 1 \/ Less(es[s].key, key)
  BY <1>1, <1>2
<1>6. n \in Nat /\ \A i \in 1 .. n : es[i].key \in Key
  BY DEF Ordered
<1>7. Past(c) = n + 1 /\ \A i \in 1 .. n + 1 : AtEnd(c, i) <=> i = n + 1
  BY <1>6, EndIsPast
<1>8. /\ LowerBound(c, key) =
            IF Less(key, es[s].key) THEN n + 1 ELSE CHOOSE i \in s .. n + 1 : Q(i)
      /\ BelowAll(c, key) <=> Less(key, es[s].key)
  BY <1>4, <1>7 DEF LowerBound, BelowAll
<1> HIDE DEF s, k, m
<1>9. Less(key, es[s].key) <=> Less(key, es[1].key)
  <2>1. CASE s = 1
    BY <2>1
  <2>2. CASE s # 1
    <3>1. 1 \in 1 .. n /\ Less(es[1].key, es[s].key) /\ Less(es[s].key, key)
      BY <1>2, <1>5, <1>6, <2>2 DEF Ordered
    <3>2. Less(es[1].key, key)
      BY <1>2, <1>6, <3>1, LessTransitive
    <3>3. QED
      BY <1>2, <1>6, <3>1, <3>2, LessAsymmetric
  <2>3. QED
    BY <2>1, <2>2
<1>10. CASE Less(key, es[1].key)
  BY <1>2, <1>8, <1>9, <1>10 DEF s
<1>11. CASE ~Less(key, es[1].key)
  <2>1. LowerBound(c, key) = CHOOSE i \in s .. n + 1 : Q(i)
    BY <1>8, <1>9, <1>11
  <2>2. /\ p \in 1 .. n + 1 /\ \A j \in 1 .. p - 1 : Less(es[j].key, key)
        /\ p # n + 1 => ~Less(es[p].key, key)
    BY DEF LeastNotBelow
  <2>3. s <= p
    <3>1. SUFFICES ASSUME p < s PROVE FALSE
      BY <1>2, <2>2
    <3>2. p \in 1 .. n /\ p # n + 1 /\ s # 1
      BY <1>2, <1>6, <2>2, <3>1
    <3>3. Less(es[p].key, es[s].key) /\ Less(es[s].key, key)
      BY <1>2, <1>5, <3>1, <3>2 DEF Ordered
    <3>4. QED
      BY <1>2, <1>6, <2>2, <3>2, <3>3, LessTransitive
  <2>4. p \in s .. n + 1
    BY <1>2, <2>2, <2>3
  <2>5. Q(p)
    <3>1. AtEnd(c, p) \/ ~Less(k[p], key)
      BY <1>3, <1>6, <1>7, <2>2, <2>4
    <3>2. ASSUME NEW j \in s .. p - 1 PROVE ~AtEnd(c, j) /\ Less(k[j], key)
      <4>1. j \in s .. n /\ j \in 1 .. p - 1 /\ j \in 1 .. n + 1 /\ j # n + 1
        BY <1>2, <1>6, <2>2
      <4>2. QED
        BY <1>3, <1>7, <2>2, <4>1
    <3>3. QED
      BY <3>1, <3>2
  <2>6. ASSUME NEW i \in s .. n + 1, Q(i) PROVE i = p
    <3>1. ~(i < p)
      <4>1. SUFFICES ASSUME i < p PROVE FALSE
        OBVIOUS
      <4>2. i \in s .. p - 1
        BY <1>2, <2>2, <2>6, <4>1
      <4>3. ~AtEnd(c, i) /\ Less(k[i], key)
        BY <2>5, <4>2
      <4>4. QED
        BY <2>6, <4>3
    <3>2. ~(p < i)
      <4>1. SUFFICES ASSUME p < i PROVE FALSE
        OBVIOUS
      <4>2. p \in s .. i - 1
        BY <1>2, <2>2, <2>4, <2>6, <4>1
      <4>3. ~AtEnd(c, p) /\ Less(k[p], key)
        BY <2>6, <4>2
      <4>4. QED
        BY <2>5, <4>3
    <3>3. QED
      BY <1>2, <2>2, <2>6, <3>1, <3>2
  <2> HIDE DEF Q
  <2>7. (CHOOSE i \in s .. n + 1 : Q(i)) = p
    BY <2>4, <2>5, <2>6
  <2>8. QED
    BY <1>2, <1>8, <1>9, <1>11, <2>1, <2>3, <2>7 DEF s
<1>12. QED
  BY <1>10, <1>11

\* Keys that are equal are at one place.
LEMMA OnePlace ==
    ASSUME NEW es, Ordered(es), NEW i \in 1 .. Len(es), NEW j \in 1 .. Len(es),
           es[i].key = es[j].key
    PROVE  i = j
<1>1. es[i].key \in Key /\ ~Less(es[i].key, es[i].key)
  BY LessIrreflexive DEF Ordered
<1>2. ~(i < j) /\ ~(j < i)
  BY <1>1 DEF Ordered
<1>3. QED
  BY <1>2 DEF Ordered

\* find gives the place of a key that is there ...
LEMMA FindThere ==
    ASSUME NEW c, NEW es, Ordered(es), Holds(c, es), Len(es) > 0, ~Hidden(es),
           NEW i \in 1 .. Len(es)
    PROVE  Find(c, es[i].key) = i /\ FindIf(c, es[i].key) = i
<1> DEFINE key == es[i].key
           n == Len(es)
<1>1. n \in Nat /\ \A j \in 1 .. n : es[j].key \in Key
  BY DEF Ordered
<1>2. LeastNotBelow(es, key, i)
  <2>1. ~Less(es[i].key, key)
    BY <1>1, LessIrreflexive
  <2>2. \A j \in 1 .. i - 1 : j \in 1 .. n /\ j < i
    BY <1>1
  <2>3. \A j \in 1 .. i - 1 : Less(es[j].key, key)
    BY <2>2 DEF Ordered
  <2>4. QED
    BY <1>1, <2>1, <2>3 DEF LeastNotBelow
<1>3. ~Less(key, es[1].key)
  <2>1. 1 \in 1 .. n /\ (i = 1 \/ 1 < i)
    BY <1>1
  <2>2. i = 1 \/ Less(es[1].key, key)
    BY <2>1 DEF Ordered
  <2>3. QED
    BY <1>1, <2>1, <2>2, LessIrreflexive, LessAsymmetric
<1> DEFINE s == SearchStart(c, key)
<1>4. s \in 1 .. n /\ IsRestart(s) /\ LowerBound(c, key) = i /\ s <= i
  BY <1>1, <1>2, <1>3, LowerBoundIs
<1>5. KeysFrom(c, s) = [j \in s .. n |-> es[j].key]
  BY <1>4, KeysFromRestart
<1>6. Past(c) = n + 1 /\ \A j \in 1 .. n + 1 : AtEnd(c, j) <=> j = n + 1
  BY <1>1, EndIsPast
<1>7. i # Past(c) /\ i \in s .. n
  BY <1>1, <1>4, <1>6
<1>8. KeysFrom(c, s)[i] = key
  <2> HIDE DEF s, key
  <2>1. QED
    BY <1>5, <1>7 DEF key
<1>9. Find(c, key) = i
  BY <1>4, <1>7, <1>8 DEF Find
<1>10. Matches(c, key) = {i}
  <2>1. Keys(c) = [j \in 1 .. n |-> es[j].key]
    BY KeysAre
  <2>2. Len(c.entries) = n
    BY DEF Holds
  <2>3. ASSUME NEW j \in 1 .. n, Keys(c)[j] = key PROVE j = i
    BY <2>1, <2>3, OnePlace
  <2>4. \A j \in 1 .. i : j \in 1 .. n + 1 /\ j # n + 1
    BY <1>1
  <2>5. \A j \in 1 .. i : ~AtEnd(c, j)
    BY <1>6, <2>4
  <2>6. Keys(c)[i] = key
    BY <2>1
  <2> HIDE DEF key
  <2>7. QED
    BY <2>2, <2>3, <2>5, <2>6 DEF Matches
<1>11. FindIf(c, key) = i
  <2> HIDE DEF key
  <2>1. QED
    BY <1>1, <1>10 DEF FindIf
<1>12. QED
  BY <1>9, <1>11

\* ... and the end for one that is not.
LEMMA FindAbsent ==
    ASSUME NEW c, NEW es, Ordered(es), Holds(c, es), Len(es) > 0, ~Hidden(es),
           NEW key \in Key, \A i \in 1 .. Len(es) : es[i].key # key
    PROVE  Find(c, key) = Len(es) + 1 /\ FindIf(c, key) = Len(es) + 1
<1> DEFINE n == Len(es)
<1>1. n \in Nat /\ Past(c) = n + 1 /\ Len(c.entries) = n
  BY EndIsPast DEF Ordered, Holds, Past
<1>2. PICK p : LeastNotBelow(es, key, p)
  BY LeastNotBelowExists
<1>3. p \in 1 .. n + 1
  BY <1>2 DEF LeastNotBelow
<1> DEFINE s == SearchStart(c, key)
           i == LowerBound(c, key)
<1>4. /\ s \in 1 .. n /\ IsRestart(s)
      /\ i = n + 1 \/ (i = p /\ s <= p)
  BY <1>2, LowerBoundIs
<1>5. KeysFrom(c, s) = [j \in s .. n |-> es[j].key]
  BY <1>4, KeysFromRestart
<1>6. Find(c, key) = IF i # n + 1 /\ KeysFrom(c, s)[i] = key THEN i ELSE n + 1
  BY <1>1 DEF Find
<1> HIDE DEF s, i
<1>7. i # n + 1 => i \in s .. n /\ i \in 1 .. n
  BY <1>1, <1>3, <1>4
<1>8. i # n + 1 => KeysFrom(c, s)[i] # key
  BY <1>5, <1>7
<1>9. Find(c, key) = n + 1
  BY <1>6, <1>8
<1>10. Keys(c) = [j \in 1 .. n |-> es[j].key]
  BY KeysAre
<1>11. Matches(c, key) = {}
  BY <1>1, <1>10 DEF Matches
<1>12. QED
  BY <1>1, <1>9, <1>11 DEF FindIf

-----------------------------------------------------------------------------
(* What adding an entry does                                               *)

IsSeq(s) == \E S : s \in Seq(S)

LEMMA Appended ==
    ASSUME NEW s, IsSeq(s), NEW e
    PROVE  /\ IsSeq(Append(s, e))
           /\ Len(s) \in Nat /\ Len(Append(s, e)) = Len(s) + 1
           /\ \A i \in 1 .. Len(s) : Append(s, e)[i] = s[i]
           /\ Append(s, e)[Len(s) + 1] = e
<1>1. PICK S : s \in Seq(S)
  BY DEF IsSeq
<1>2. s \in Seq(S \cup {e}) /\ e \in S \cup {e}
  <2>1. S \subseteq S \cup {e}
    OBVIOUS
  <2>2. Seq(S) \subseteq Seq(S \cup {e})
    BY <2>1
  <2>3. QED
    BY <1>1, <2>2
<1>3. Append(s, e) \in Seq(S \cup {e})
  BY <1>2, AppendProperties
<1>4. /\ Len(Append(s, e)) = Len(s) + 1
      /\ \A i \in 1 .. Len(s) : Append(s, e)[i] = s[i]
      /\ Append(s, e)[Len(s) + 1] = e
      /\ Len(s) \in Nat
  BY <1>2, AppendProperties
<1>5. QED
  BY <1>3, <1>4 DEF IsSeq

LEMMA OrderedAppend ==
    ASSUME NEW es, IsSeq(es), Ordered(es), NEW e, e.key \in Key, e.value.size \in Nat,
           (Len(es) > 0 => Less(es[Len(es)].key, e.key))
    PROVE  Ordered(Append(es, e))
<1> DEFINE n == Len(es)
           fs == Append(es, e)
<1>1. /\ n \in Nat /\ Len(fs) = n + 1 /\ fs[n + 1] = e
      /\ \A i \in 1 .. n : fs[i] = es[i]
  BY Appended
<1> HIDE DEF fs
<1>2. \A i \in 1 .. n : es[i].key \in Key /\ es[i].value.size \in Nat
  BY DEF Ordered
<1>3. \A i \in 1 .. n + 1 : i \in 1 .. n \/ i = n + 1
  BY <1>1
<1>4. \A i \in 1 .. n + 1 : fs[i].key \in Key /\ fs[i].value.size \in Nat
  BY <1>1, <1>2, <1>3
<1>5. ASSUME NEW i \in 1 .. n + 1, NEW j \in 1 .. n + 1, i < j
      PROVE  Less(fs[i].key, fs[j].key)
  <2>1. i \in 1 .. n
    BY <1>1, <1>5
  <2>2. CASE j \in 1 .. n
    BY <1>1, <1>5, <2>1, <2>2 DEF Ordered
  <2>3. CASE j = n + 1
    <3>1. n \in 1 .. n /\ Less(es[n].key, e.key) /\ (i = n \/ i < n)
      BY <1>1, <2>1
    <3>2. i = n \/ Less(es[i].key, es[n].key)
      BY <2>1, <3>1 DEF Ordered
    <3>3. Less(es[i].key, e.key)
      BY <1>2, <2>1, <3>1, <3>2, LessTransitive
    <3>4. QED
      BY <1>1, <2>1, <2>3, <3>3
  <2>4. QED
    BY <1>3, <2>2, <2>3
<1>6. QED
  BY <1>1, <1>4, <1>5 DEF Ordered, fs

\* b is the builder of a block of es, of which nothing was moved out.
Building(b, es) ==
    /\ DOMAIN b = {"entries", "restarts", "pre", "finished", "num"}
    /\ IsSeq(es) /\ IsSeq(b.entries) /\ IsSeq(b.restarts)
    /\ b.num = Len(es)
    /\ Len(es) > 0 => b.pre = es[Len(es)].key
    /\ Holds(b, es)
    /\ Len(es) <= RestartInterval * Len(b.restarts)

LEMMA EmptyIs == Building(EmptyBuilder, <<>>) /\ Ordered(<<>>)
<1>1. Len(<<>>) = 0 /\ IsSeq(<<>>)
  BY DEF IsSeq
<1>2. QED
  BY <1>1 DEF Building, EmptyBuilder, Holds, Ordered

LEMMA AddIs ==
    ASSUME NEW b, NEW es, Building(b, es), NEW key, NEW value
    PROVE  LET n == AddTo(b, key, value)
               r == b.num % RestartInterval = 0
           IN  /\ n.entries = Append(b.entries,
                      Entry(key, value, IF r THEN 0 ELSE SharedLen(key, b.pre)))
               /\ n.restarts = IF r THEN Append(b.restarts, Len(b.entries)) ELSE b.restarts
               /\ n.num = b.num + 1 /\ n.pre = key /\ n.finished = b.finished
               /\ DOMAIN n = DOMAIN b
<1>1. DOMAIN b = {"entries", "restarts", "pre", "finished", "num"}
  BY DEF Building
<1> DEFINE r == b.num % RestartInterval = 0
           en == Append(b.entries, Entry(key, value, IF r THEN 0 ELSE SharedLen(key, b.pre)))
           rs == IF r THEN Append(b.restarts, Len(b.entries)) ELSE b.restarts
           n == AddTo(b, key, value)
<1>2. n = [b EXCEPT !.entries = en, !.restarts = rs, !.num = b.num + 1, !.pre = key]
  BY DEF AddTo
<1> HIDE DEF en, rs, n
<1>3. /\ n.entries = en /\ n.restarts = rs /\ n.num = b.num + 1 /\ n.pre = key
      /\ n.finished = b.finished /\ DOMAIN n = DOMAIN b
  BY ONLY <1>1, <1>2
<1>4. QED
  BY <1>3 DEF en, rs, n

\* add keeps the block and the restarts in step.
LEMMA AddBuilds ==
    ASSUME NEW b, NEW es, Building(b, es), Ordered(es),
           NEW e, e = [key |-> e.key, value |-> e.value]
    PROVE  Building(AddTo(b, e.key, e.value), Append(es, e))
<1> DEFINE n  == Len(es)
           fs == Append(es, e)
           c  == AddTo(b, e.key, e.value)
           r  == b.num % RestartInterval = 0
           L  == Len(b.restarts)
<1>1. /\ n \in Nat /\ Len(fs) = n + 1 /\ fs[n + 1] = e /\ IsSeq(fs)
      /\ \A i \in 1 .. n : fs[i] = es[i]
  BY Appended DEF Building
<1>2. /\ IsSeq(b.entries) /\ IsSeq(b.restarts)
      /\ b.num = n /\ (n > 0 => b.pre = es[n].key)
      /\ Len(b.entries) = n /\ n <= RestartInterval * L
      /\ L \in Nat /\ (n > 0 => L > 0)
      /\ \A i \in 1 .. n : b.entries[i] = Entry(es[i].key, es[i].value, Shared(es, i))
      /\ \A m \in 1 .. L : b.restarts[m] = RestartInterval * (m - 1)
                           /\ RestartInterval * (m - 1) < n
  BY DEF Building, Holds
<1>3. LET new == Entry(e.key, e.value, IF r THEN 0 ELSE SharedLen(e.key, b.pre))
      IN  /\ c.entries = Append(b.entries, new)
          /\ c.restarts = IF r THEN Append(b.restarts, Len(b.entries)) ELSE b.restarts
          /\ c.num = b.num + 1 /\ c.pre = e.key /\ c.finished = b.finished
          /\ DOMAIN c = DOMAIN b
  BY AddIs
<1>4. r <=> n = RestartInterval * L
  <2>1. RestartInterval * (L - 1) < n
    <3>1. CASE L > 0
      <4>1. L \in 1 .. L
        BY <1>2, <3>1
      <4>2. QED
        BY <1>2, <4>1
    <3>2. CASE L = 0
      BY <1>1, <3>2
    <3>3. QED
      BY <1>2, <3>1, <3>2
  <2>2. n \in Int /\ L \in Nat /\ n <= RestartInterval * L
    BY <1>1, <1>2
  <2> HIDE DEF n, L
  <2>3. n % RestartInterval = 0 <=> n = RestartInterval * L
    BY <2>1, <2>2, NextRestart
  <2>4. QED
    BY <1>2, <2>3
<1>5. n # 0 \/ r
  BY <1>1, <1>2
<1> HIDE DEF c, fs
<1>6. Shared(fs, n + 1) = IF r THEN 0 ELSE SharedLen(e.key, b.pre)
  <2>1. (n + 1) - 1 = n
    BY <1>1
  <2>2. CASE r
    BY <1>2, <2>1, <2>2 DEF Shared, IsRestart
  <2>3. CASE ~r
    <3>1. n > 0 /\ n \in 1 .. n
      BY <1>1, <1>5, <2>3
    <3>2. QED
      BY <1>1, <1>2, <2>1, <2>3, <3>1 DEF Shared, IsRestart
  <2>4. QED
    BY <2>2, <2>3
<1>7. \A i \in 1 .. n : Shared(fs, i) = Shared(es, i)
  <2>1. SUFFICES ASSUME NEW i \in 1 .. n PROVE Shared(fs, i) = Shared(es, i)
    OBVIOUS
  <2>2. IsRestart(i) \/ i - 1 \in 1 .. n
    <3>1. IsRestart(1)
      BY RestartAt DEF IsRestart
    <3>2. i = 1 \/ i - 1 \in 1 .. n
      BY <1>1
    <3>3. QED
      BY <3>1, <3>2
  <2>3. QED
    BY <1>1, <2>2 DEF Shared
<1>8. /\ Len(c.entries) = n + 1 /\ IsSeq(c.entries)
      /\ \A i \in 1 .. n + 1 : c.entries[i] = Entry(fs[i].key, fs[i].value, Shared(fs, i))
  <2> DEFINE new == Entry(e.key, e.value, IF r THEN 0 ELSE SharedLen(e.key, b.pre))
  <2>1. /\ IsSeq(c.entries) /\ Len(c.entries) = n + 1 /\ c.entries[n + 1] = new
        /\ \A i \in 1 .. n : c.entries[i] = b.entries[i]
    BY <1>2, <1>3, Appended
  <2>2. c.entries[n + 1] = Entry(fs[n + 1].key, fs[n + 1].value, Shared(fs, n + 1))
    BY <1>1, <1>6, <2>1
  <2> HIDE DEF new, r
  <2>3. \A i \in 1 .. n : c.entries[i] = Entry(fs[i].key, fs[i].value, Shared(fs, i))
    BY <1>1, <1>2, <1>7, <2>1
  <2>4. \A i \in 1 .. n + 1 : i \in 1 .. n \/ i = n + 1
    BY <1>1
  <2>5. QED
    BY <2>1, <2>2, <2>3, <2>4
<1>9. CASE r
  <2>1. /\ IsSeq(c.restarts) /\ Len(c.restarts) = L + 1 /\ c.restarts[L + 1] = n
        /\ \A m \in 1 .. L : c.restarts[m] = b.restarts[m]
    BY <1>2, <1>3, <1>9, Appended
  <2>2. /\ (L + 1) - 1 = L /\ n = RestartInterval * L
        /\ \A m \in 1 .. L + 1 : m \in 1 .. L \/ m = L + 1
    BY <1>2, <1>4, <1>9
  <2>3. \A m \in 1 .. L : RestartInterval * (m - 1) < n + 1
    <3>1. SUFFICES ASSUME NEW m \in 1 .. L PROVE RestartInterval * (m - 1) < n + 1
      OBVIOUS
    <3>2. RestartInterval * (m - 1) < n /\ RestartInterval * (m - 1) \in Int
      BY <1>2
    <3>3. QED
      BY <1>1, <3>2
  <2>4. \A m \in 1 .. L + 1 : c.restarts[m] = RestartInterval * (m - 1)
                              /\ RestartInterval * (m - 1) < n + 1
    <3>1. ASSUME NEW m \in 1 .. L + 1
          PROVE  /\ c.restarts[m] = RestartInterval * (m - 1)
                 /\ RestartInterval * (m - 1) < n + 1
      <4>1. CASE m \in 1 .. L
        BY <1>2, <2>1, <2>3, <4>1
      <4>2. CASE m = L + 1
        <5>1. RestartInterval * (m - 1) = n /\ c.restarts[m] = n
          BY <2>1, <2>2, <4>2
        <5>2. QED
          BY <1>1, <5>1
      <4>3. QED
        BY <2>2, <4>1, <4>2
    <3>2. QED
      BY <3>1
  <2>5. n + 1 <= RestartInterval * (L + 1)
    BY <1>1, <1>2, <2>2
  <2>6. L + 1 \in Nat /\ L + 1 > 0
    BY <1>2
  <2> HIDE DEF r, L, n
  <2>7. Holds(c, fs)
    BY <1>1, <1>8, <2>1, <2>4, <2>6 DEF Holds
  <2>8. QED
    BY <1>1, <1>2, <1>3, <1>8, <2>1, <2>5, <2>7 DEF Building, c, fs
<1>10. CASE ~r
  <2>1. c.restarts = b.restarts /\ L > 0
    BY <1>1, <1>2, <1>3, <1>5, <1>10
  <2>2. n + 1 <= RestartInterval * L
    BY <1>1, <1>2, <1>4, <1>10
  <2>3. \A m \in 1 .. L : RestartInterval * (m - 1) < n + 1
    <3>1. SUFFICES ASSUME NEW m \in 1 .. L PROVE RestartInterval * (m - 1) < n + 1
      OBVIOUS
    <3>2. RestartInterval * (m - 1) < n /\ RestartInterval * (m - 1) \in Int
      BY <1>2
    <3>3. QED
      BY <1>1, <3>2
  <2> HIDE DEF r, n
  <2>4. Holds(c, fs)
    BY <1>1, <1>2, <1>8, <2>1, <2>3 DEF Holds
  <2>5. QED
    BY <1>1, <1>2, <1>3, <1>8, <2>1, <2>2, <2>4 DEF Building, c, fs
<1>11. QED
  BY <1>9, <1>10

-----------------------------------------------------------------------------
(* The size of a block                                                     *)

\* What is defined by a value for 0 and a step from each number to the next is defined.
Unfolds(f, n, x, g) ==
    /\ f = [i \in 0 .. n |-> f[i]]
    /\ f[0] = x
    /\ \A i \in 1 .. n : f[i] = g[<<f[i - 1], i>>]

LEMMA FoldExists ==
    ASSUME NEW n \in Nat, NEW x, NEW g
    PROVE  \E f : Unfolds(f, n, x, g)
<1> DEFINE Is(f, m) == Unfolds(f, m, x, g)
           Bad == {m \in Nat : ~\E f : Is(f, m)}
<1>1. SUFFICES ASSUME Bad # {} PROVE FALSE
  OBVIOUS
<1>2. PICK m \in Bad : \A k \in Bad : m <= k
  BY <1>1, LeastNumber
<1>3. m # 0
  <2>1. Is([i \in 0 .. 0 |-> x], 0)
    <3> DEFINE W == [i \in 0 .. 0 |-> x]
    <3>1. W = [i \in 0 .. 0 |-> W[i]] /\ W[0] = x /\ ~\E i \in 1 .. 0 : TRUE
      OBVIOUS
    <3> HIDE DEF W
    <3>2. Is(W, 0)
      BY <3>1 DEF Unfolds
    <3>3. QED
      BY <3>2 DEF W
  <2>2. QED
    BY <1>2, <2>1
<1>4. PICK f : Is(f, m - 1)
  <2>1. m - 1 \in Nat /\ ~(m <= m - 1)
    BY <1>2, <1>3
  <2>2. m - 1 \notin Bad
    BY <1>2, <2>1
  <2>3. QED
    BY <2>1, <2>2
<1> DEFINE F == [i \in 0 .. m |-> IF i = m THEN g[<<f[m - 1], m>>] ELSE f[i]]
<1>5. ASSUME NEW i \in 1 .. m PROVE F[i] = g[<<F[i - 1], i>>]
  <2>1. i - 1 \in 0 .. m /\ i - 1 # m
    BY <1>2
  <2>2. F[i - 1] = f[i - 1]
    BY <2>1
  <2>3. CASE i = m
    BY <2>2, <2>3
  <2>4. CASE i # m
    <3>1. i \in 1 .. m - 1
      BY <1>2, <2>4
    <3>2. F[i] = f[i]
      BY <2>4
    <3> HIDE DEF F
    <3>3. f[i] = g[<<f[i - 1], i>>]
      BY <1>4, <3>1 DEF Unfolds
    <3>4. QED
      BY <2>2, <3>2, <3>3
  <2>5. QED
    BY <2>3, <2>4
<1>6. F = [i \in 0 .. m |-> F[i]]
  OBVIOUS
<1>7. F[0] = x
  BY <1>2, <1>3, <1>4 DEF Unfolds
<1>8. Is(F, m)
  <2> HIDE DEF F
  <2>1. QED
    BY <1>5, <1>6, <1>7 DEF Unfolds
<1>9. QED
  <2> HIDE DEF F, Is
  <2>1. QED
    BY <1>2, <1>8

LEMMA SizeIs ==
    ASSUME NEW b, NEW es, Building(b, es), Ordered(es)
    PROVE  DataSize(b) \in Nat /\ ContentSize(b) \in Nat /\ ContentSize(b) >= 4
<1> DEFINE n == Len(b.entries)
           Step(h, i) == IF i = 0 THEN 0 ELSE h[i - 1] + EntrySize(b.entries[i])
           P(h) == h = [i \in 0 .. n |-> Step(h, i)]
           F == CHOOSE h : P(h)
           G == [p \in Nat \X (1 .. n) |-> p[1] + EntrySize(b.entries[p[2]])]
<1>1. n = Len(es) /\ n \in Nat /\ Holds(b, es) /\ IsSeq(b.restarts)
  BY DEF Building, Holds, Ordered
<1>2. \A i \in 1 .. n : EntrySize(b.entries[i]) \in Nat
  <2>1. SUFFICES ASSUME NEW i \in 1 .. n PROVE EntrySize(b.entries[i]) \in Nat
    OBVIOUS
  <2>2. i \in 1 .. Len(es)
    BY <1>1
  <2>3. b.entries[i].value = es[i].value /\ Len(b.entries[i].suffix) \in Nat
    BY <1>1, <2>2, SuffixStays
  <2>4. es[i].value.size \in Nat
    BY <2>2 DEF Ordered
  <2>5. EntrySize(b.entries[i]) = 12 + Len(b.entries[i].suffix) + es[i].value.size
    BY <2>3 DEF EntrySize
  <2>6. QED
    BY <2>3, <2>4, <2>5
<1>3. DataSize(b) = F[n]
  BY DEF DataSize
<1>4. PICK f : /\ f = [i \in 0 .. n |-> f[i]]
               /\ f[0] = 0
               /\ \A i \in 1 .. n : f[i] = G[<<f[i - 1], i>>]
  <2> HIDE DEF G, n
  <2>1. PICK f : Unfolds(f, n, 0, G)
    BY <1>1, FoldExists
  <2>2. QED
    BY <2>1 DEF Unfolds
<1>5. \A i \in 0 .. n : f[i] \in Nat /\ f[i] = Step(f, i)
  <2> DEFINE Bad == {i \in 0 .. n : ~(f[i] \in Nat /\ f[i] = Step(f, i))}
  <2>1. SUFFICES ASSUME Bad # {} PROVE FALSE
    OBVIOUS
  <2>2. Bad \subseteq Nat
    BY <1>1
  <2>3. PICK i \in Bad : \A j \in Bad : i <= j
    <3> HIDE DEF Bad
    <3>1. QED
      BY <2>1, <2>2, LeastNumber
  <2>4. i \in 0 .. n
    BY <2>3
  <2>5. CASE i = 0
    BY <1>4, <2>3, <2>5
  <2>6. CASE i # 0
    <3>1. i - 1 \in 0 .. n /\ i \in 1 .. n /\ ~(i <= i - 1)
      BY <1>1, <2>4, <2>6
    <3>2. i - 1 \notin Bad
      BY <2>3, <3>1
    <3>3. f[i - 1] \in Nat
      BY <3>1, <3>2
    <3>4. G[<<f[i - 1], i>>] = f[i - 1] + EntrySize(b.entries[i])
      BY <3>1, <3>3
    <3>5. EntrySize(b.entries[i]) \in Nat
      BY <1>2, <3>1
    <3> HIDE DEF G
    <3>6. f[i] = f[i - 1] + EntrySize(b.entries[i])
      BY <1>4, <3>1, <3>4
    <3>7. f[i] \in Nat /\ f[i] = Step(f, i)
      BY <2>6, <3>3, <3>5, <3>6
    <3>8. QED
      BY <2>3, <3>7
  <2>7. QED
    BY <2>5, <2>6
<1>6. P(f)
  <2> HIDE DEF G, Step
  <2>1. f = [i \in 0 .. n |-> f[i]]
    BY <1>4
  <2>2. QED
    BY <1>5, <2>1
<1>7. P(F)
  <2> HIDE DEF P
  <2>1. QED
    BY <1>6
<1> HIDE DEF F
<1>8. \A i \in 0 .. n : F[i] = f[i]
  <2> DEFINE Bad == {i \in 0 .. n : F[i] # f[i]}
  <2>1. SUFFICES ASSUME Bad # {} PROVE FALSE
    OBVIOUS
  <2>2. Bad \subseteq Nat
    BY <1>1
  <2>3. PICK i \in Bad : \A j \in Bad : i <= j
    <3> HIDE DEF Bad
    <3>1. QED
      BY <2>1, <2>2, LeastNumber
  <2>4. i \in 0 .. n /\ F[i] = Step(F, i) /\ f[i] = Step(f, i)
    BY <1>5, <1>7, <2>3
  <2>5. i # 0 => F[i - 1] = f[i - 1]
    <3>1. i # 0 => i - 1 \in 0 .. n /\ ~(i <= i - 1)
      BY <1>1, <2>4
    <3>2. QED
      BY <2>3, <3>1
  <2>6. QED
    BY <2>3, <2>4, <2>5
<1>9. DataSize(b) \in Nat
  <2>1. n \in 0 .. n
    BY <1>1
  <2>2. QED
    BY <1>3, <1>5, <1>8, <2>1
<1>10. Len(b.restarts) \in Nat
  BY <1>1 DEF Holds
<1>11. QED
  BY <1>9, <1>10 DEF ContentSize

LEMMA EmptySize == DataSize(EmptyBuilder) = 0
<1> DEFINE P(h) == h = [i \in 0 .. Len(EmptyBuilder.entries) |->
                          IF i = 0 THEN 0 ELSE h[i - 1] + EntrySize(EmptyBuilder.entries[i])]
           F == CHOOSE h : P(h)
<1>1. Len(EmptyBuilder.entries) = 0
  BY DEF EmptyBuilder
<1>2. DataSize(EmptyBuilder) = F[Len(EmptyBuilder.entries)]
  BY DEF DataSize
<1>3. P([i \in 0 .. 0 |-> 0])
  BY <1>1
<1>4. P(F)
  <2> HIDE DEF P
  <2>1. QED
    BY <1>3
<1> HIDE DEF F
<1>5. F[0] = 0
  BY <1>1, <1>4
<1>6. QED
  BY <1>1, <1>2, <1>5
=============================================================================
