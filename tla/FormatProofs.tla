---------------------------- MODULE FormatProofs ----------------------------
(***************************************************************************)
(* Proofs about the bytes the program writes and reads again.  A block:    *)
(* whatever keys and sizes a caller adds in order, with any restart        *)
(* interval, what BlockBuilder returns reads back whole, and the three     *)
(* searches of a block find what they should.  The strings of a batch and  *)
(* the entries of the memtable: for every radix, strings of every length   *)
(* that a length can have, and buffers of any number of strings.           *)
(***************************************************************************)
EXTENDS Block, MemtableFormat, BlockFormatProofs

-----------------------------------------------------------------------------
(* A block                                                                 *)

\* The entries carry the values Add made for them.
Stamped(es) ==
    \A i \in 1 .. Len(es) :
        es[i] = [key |-> es[i].key, value |-> [size |-> es[i].value.size, data |-> i - 1]]

Entries(es) == IsSeq(es) /\ Ordered(es) /\ Stamped(es)

\* The builder is at work on what was added, or was moved out of and is not used again.
BuilderInv ==
    /\ b.finished \in BOOLEAN
    /\ b.num \in 0 .. MaxAdds
    /\ Entries(added)
    /\ \/ Building(b, added)
       \/ /\ Moved /\ added = <<>>
          /\ \A i \in 1 .. Len(b.restarts) : b.restarts[i] = RestartInterval * (i - 1)

\* The block returned holds what was added when it was returned.
OutInv ==
    \/ out = None
    \/ Entries(returned) /\ Len(returned) > 0 /\ Holds(out, returned)

BlockInv == BuilderInv /\ OutInv

-----------------------------------------------------------------------------
LEMMA NothingAdded == Building(EmptyBuilder, <<>>) /\ Entries(<<>>)
<1>1. Len(<<>>) = 0
  OBVIOUS
<1>2. QED
  BY <1>1, EmptyIs DEF Entries, IsSeq, Stamped

LEMMA EmptyKeeps ==
    ASSUME b = EmptyBuilder, added = <<>>
    PROVE  BuilderInv
<1>1. b.num = 0 /\ b.finished = FALSE
  BY DEF EmptyBuilder
<1>2. 0 \in 0 .. MaxAdds
  BY BuilderAssumption
<1>3. QED
  BY <1>1, <1>2, NothingAdded DEF BuilderInv

LEMMA InitBlock == Init => BlockInv
BY EmptyKeeps DEF Init, BlockInv, OutInv

\* An entry more, whose key is above the last
LEMMA AddKeeps ==
    ASSUME ~Reuse, BlockInv, NEW key \in KeyBytes, NEW s \in Sizes, Add(key, s)
    PROVE  BlockInv'
<1> DEFINE e == [key |-> key, value |-> Value(b.num, s)]
<1>1. /\ b' = AddTo(b, e.key, e.value) /\ added' = Append(added, e)
      /\ out' = None /\ ~Moved /\ b.num < MaxAdds /\ ~b.finished
      /\ added # <<>> => Less(added[Len(added)].key, key)
  BY DEF Add, InOrder
<1>2. /\ b.finished \in BOOLEAN /\ b.num \in 0 .. MaxAdds
      /\ IsSeq(added) /\ Ordered(added) /\ Stamped(added)
      /\ Building(b, added)
  BY <1>1 DEF BlockInv, BuilderInv, Entries
<1>3. key \in Key /\ s \in Nat
  BY BuilderAssumption DEF Key, Bytes
<1>4. /\ Len(added) \in Nat /\ b.num = Len(added)
      /\ Len(added) > 0 => added # <<>>
  <2>1. Len(<<>>) = 0
    OBVIOUS
  <2>2. QED
    BY <1>2, <2>1 DEF Building, Ordered
<1>5. e.key = key /\ e.value = [size |-> s, data |-> Len(added)] /\ e.value.size = s
      /\ e = [key |-> e.key, value |-> e.value]
  BY <1>4 DEF Value
<1> HIDE DEF e
<1>6. Building(b', added')
  BY <1>1, <1>2, <1>5, AddBuilds
<1>7. Ordered(added')
  <2>1. /\ e.key \in Key /\ e.value.size \in Nat
        /\ Len(added) > 0 => Less(added[Len(added)].key, e.key)
    BY <1>1, <1>3, <1>4, <1>5
  <2>2. IsSeq(added) /\ Ordered(added)
    BY <1>2
  <2>3. Ordered(Append(added, e))
    BY ONLY <2>1, <2>2, OrderedAppend
  <2>4. QED
    BY <1>1, <2>3
<1>8. /\ IsSeq(added') /\ Len(added') = Len(added) + 1
      /\ \A i \in 1 .. Len(added) : added'[i] = added[i]
      /\ added'[Len(added) + 1] = e
  BY <1>1, <1>2, Appended
<1>9. Stamped(added')
  <2>1. ASSUME NEW i \in 1 .. Len(added)
        PROVE  added'[i] = [key |-> added'[i].key,
                            value |-> [size |-> added'[i].value.size, data |-> i - 1]]
    BY <1>2, <1>8 DEF Stamped
  <2>2. ASSUME NEW i, i = Len(added) + 1
        PROVE  added'[i] = [key |-> added'[i].key,
                            value |-> [size |-> added'[i].value.size, data |-> i - 1]]
    <3>1. added'[i] = e /\ i - 1 = Len(added)
      BY <1>4, <1>8, <2>2
    <3>2. e = [key |-> e.key, value |-> [size |-> e.value.size, data |-> Len(added)]]
      BY <1>5
    <3>3. QED
      BY <3>1, <3>2
  <2>3. \A i \in 1 .. Len(added) + 1 : i \in 1 .. Len(added) \/ i = Len(added) + 1
    BY <1>4
  <2>4. QED
    BY <1>8, <2>1, <2>2, <2>3 DEF Stamped
<1>10. b'.num = b.num + 1 /\ b'.finished = b.finished
  BY <1>1, <1>2, AddIs
<1>11. b'.num \in 0 .. MaxAdds /\ b'.finished \in BOOLEAN
  BY <1>1, <1>2, <1>10, BuilderAssumption
<1>12. QED
  BY <1>1, <1>6, <1>7, <1>8, <1>9, <1>11 DEF BlockInv, BuilderInv, OutInv, Entries

\* The entries of a builder that is not empty are there: it was not moved out of.
LEMMA AtWork ==
    ASSUME BlockInv, added # <<>>
    PROVE  Building(b, added) /\ Entries(added) /\ Len(added) > 0
<1>1. Building(b, added) /\ Entries(added)
  BY DEF BlockInv, BuilderInv
<1>2. Len(added) \in Nat /\ Len(added) # 0
  <2>1. PICK S : added \in Seq(S)
    BY <1>1 DEF Entries, IsSeq
  <2>2. QED
    BY <2>1, EmptySeq
<1>3. QED
  BY <1>1, <1>2

LEMMA ContentHolds ==
    ASSUME NEW c, NEW es, Holds(c, es)
    PROVE  Holds(Content(c), es)
BY DEF Holds, Content

\* Neither form of final changes the entries of the block it returns.
LEMMA FinalKeeps == ASSUME BlockInv, FinalView \/ FinalMove PROVE BlockInv'
<1>1. /\ Building(b, added) /\ Entries(added) /\ Len(added) > 0
      /\ b.finished \in BOOLEAN /\ b.num \in 0 .. MaxAdds
  BY AtWork DEF FinalView, FinalMove, BlockInv, BuilderInv
<1>2. /\ DOMAIN b = {"entries", "restarts", "pre", "finished", "num"}
      /\ Holds(b, added) /\ b.num = Len(added)
  BY <1>1 DEF Building
<1>3. OutInv'
  BY <1>1, <1>2, ContentHolds DEF FinalView, FinalMove, OutInv
<1>4. CASE FinalView
  <2>1. /\ b'.entries = b.entries /\ b'.restarts = b.restarts /\ b'.pre = b.pre
        /\ b'.num = b.num /\ b'.finished = TRUE /\ DOMAIN b' = DOMAIN b
    BY <1>2, <1>4 DEF FinalView
  <2>2. Holds(b', added)
    BY <1>2, <2>1 DEF Holds
  <2>3. added' = added
    BY <1>4 DEF FinalView
  <2>4. Building(b', added')
    BY <1>1, <2>1, <2>2, <2>3 DEF Building
  <2>5. QED
    BY <1>1, <1>3, <2>1, <2>3, <2>4 DEF BlockInv, BuilderInv
<1>5. CASE FinalMove
  <2>1. /\ b'.entries = <<>> /\ b'.restarts = b.restarts
        /\ b'.num = b.num /\ b'.finished = b.finished
    BY <1>2, <1>5 DEF FinalMove
  <2>2. added' = <<>> /\ Entries(<<>>)
    BY <1>5, NothingAdded DEF FinalMove
  <2>3. Moved'
    BY <1>1, <1>2, <2>1 DEF Moved
  <2>4. \A i \in 1 .. Len(b'.restarts) : b'.restarts[i] = RestartInterval * (i - 1)
    BY <1>2, <2>1 DEF Holds
  <2>5. QED
    BY <1>1, <1>3, <2>1, <2>2, <2>3, <2>4 DEF BlockInv, BuilderInv
<1>6. QED
  BY <1>4, <1>5

LEMMA ClearKeeps == ASSUME Clear PROVE BlockInv'
<1>1. b' = EmptyBuilder /\ added' = <<>> /\ out' = None
  BY DEF Clear
<1>2. b'.num = 0 /\ b'.finished = FALSE /\ 0 \in 0 .. MaxAdds
  BY <1>1, BuilderAssumption DEF EmptyBuilder
<1>3. BuilderInv'
  BY <1>1, <1>2, NothingAdded DEF BuilderInv
<1>4. QED
  BY <1>1, <1>3 DEF BlockInv, OutInv

LEMMA StutterKeeps == ASSUME BlockInv, UNCHANGED vars PROVE BlockInv'
BY DEF vars, BlockInv, BuilderInv, OutInv, Moved

\* While nobody adds to a builder that was moved out of, the invariant holds.
THEOREM BlockInvariant == ASSUME ~Reuse PROVE Spec => []BlockInv
<1>1. BlockInv /\ [Next]_vars => BlockInv'
  <2> SUFFICES ASSUME BlockInv, [Next]_vars PROVE BlockInv'
    OBVIOUS
  <2>1. ASSUME NEW key \in KeyBytes, NEW s \in Sizes, Add(key, s) PROVE BlockInv'
    BY <2>1, AddKeeps
  <2>2. QED
    BY <2>1, FinalKeeps, ClearKeeps, StutterKeeps DEF Next
<1>2. QED
  BY InitBlock, <1>1, PTL DEF Spec


-----------------------------------------------------------------------------
(* What a reader sees of a block that was returned                         *)

LEMMA VisibleIs ==
    ASSUME Entries(returned), ~Invisible
    PROVE  ~Hidden(returned)
<1>1. SUFFICES ASSUME Hidden(returned) PROVE returned = <<[key |-> <<>>, value |-> Value(0, 0)]>>
  BY DEF Invisible
<1>2. Len(returned) = 1 /\ returned[1].key = <<>> /\ returned[1].value.size = 0
  BY <1>1 DEF Hidden
<1>3. returned[1] = [key |-> returned[1].key,
                     value |-> [size |-> returned[1].value.size, data |-> 1 - 1]]
  BY <1>2 DEF Entries, Stamped
<1>4. returned[1] = [key |-> <<>>, value |-> Value(0, 0)]
  BY <1>2, <1>3 DEF Value
<1>5. PICK S : returned \in Seq(S)
  BY DEF Entries, IsSeq
<1>6. returned = <<returned[1]>>
  BY <1>2, <1>5
<1>7. QED
  BY <1>4, <1>6

LEMMA ReadableHolds ==
    ASSUME BlockInv, Readable
    PROVE  /\ Entries(returned) /\ Ordered(returned) /\ Len(returned) > 0 /\ Len(returned) \in Nat
           /\ Holds(out, returned) /\ ~Hidden(returned)
           /\ Len(out.entries) = Len(returned)
BY VisibleIs DEF BlockInv, OutInv, Readable, Entries, Ordered, Holds

\* Scan comes to the end, and shows every entry.
LEMMA ScanIs ==
    ASSUME NEW c, NEW es, IsSeq(es), Ordered(es), Stamped(es), Holds(c, es), Len(es) > 0, ~Hidden(es)
    PROVE  Scan(c) = es
<1> DEFINE n == Len(es)
           Q(m) == AtEnd(c, m + 1) /\ \A i \in 1 .. m : ~AtEnd(c, i)
<1>1. n \in Nat /\ Len(c.entries) = n
  BY DEF Ordered, Holds
<1>2. \A i \in 1 .. n + 1 : AtEnd(c, i) <=> i = n + 1
  BY <1>1, EndIsPast
<1>3. Q(n)
  BY <1>1, <1>2
<1>4. ASSUME NEW m \in 0 .. n, Q(m) PROVE m = n
  BY <1>1, <1>2, <1>4
<1>5. (CHOOSE m \in 0 .. n : Q(m)) = n
  <2> HIDE DEF Q
  <2>1. n \in 0 .. n
    BY <1>1
  <2>2. QED
    BY <1>3, <1>4, <2>1
<1>6. Scan(c) = [i \in 1 .. n |-> [key |-> Keys(c)[i], value |-> c.entries[i].value]]
  BY <1>1, <1>5 DEF Scan
<1>7. ASSUME NEW i \in 1 .. n
      PROVE  [key |-> Keys(c)[i], value |-> c.entries[i].value] = es[i]
  <2>1. Keys(c)[i] = es[i].key
    BY KeysAre
  <2>2. c.entries[i].value = es[i].value
    BY SuffixStays
  <2>3. /\ es[i] = [key |-> es[i].key,
                    value |-> [size |-> es[i].value.size, data |-> i - 1]]
    BY DEF Stamped
  <2>4. es[i] = [key |-> es[i].key, value |-> es[i].value]
    BY <2>3
  <2>5. QED
    BY <2>1, <2>2, <2>4
<1>8. Scan(c) = [i \in 1 .. n |-> es[i]]
  BY <1>6, <1>7
<1>9. PICK S : es \in Seq(S)
  BY DEF IsSeq
<1>10. es = [i \in 1 .. n |-> es[i]]
  BY <1>9
<1>11. QED
  BY <1>8, <1>10

LEMMA TypesAre == BlockInv => TypeOK
<1> SUFFICES ASSUME BlockInv PROVE TypeOK
  OBVIOUS
<1>1. Len(b.entries) \in {0, b.num}
  BY DEF BlockInv, BuilderInv, Building, Holds, Moved
<1>2. \A i \in 1 .. Len(b.restarts) : b.restarts[i] = RestartInterval * (i - 1)
  BY DEF BlockInv, BuilderInv, Building, Holds
<1>3. QED
  BY <1>1, <1>2 DEF BlockInv, BuilderInv, TypeOK

\* What BlockBuilder::final returns (block_builder.cpp:48-69) reads back, for every restart
\* interval and however many keys of whatever length were added in order, as the
\* entries that were added, in order: no prefix or restart is mistaken.
THEOREM BlockReadsBack == ASSUME ~Reuse PROVE Spec => []RoundTrip
<1>1. BlockInv => RoundTrip
  BY TypesAre, ReadableHolds, ScanIs DEF RoundTrip, Entries
<1>2. QED
  BY BlockInvariant, <1>1, PTL

\* Block::find and find_if give every key that was added, and only those.
THEOREM FindIsExact == ASSUME ~Reuse PROVE Spec => []FindsAll
<1>1. BlockInv => FindsAll
  <2>1. SUFFICES ASSUME BlockInv, Readable, NEW key \in KeyBytes
                 PROVE  LET i == Find(out, key) IN
                        /\ FindIf(out, key) = i
                        /\ IF \E n \in 1 .. Len(returned) : returned[n].key = key
                           THEN ~AtEnd(out, i) /\ returned[i].key = key
                           ELSE AtEnd(out, i)
    BY DEF FindsAll
  <2>2. /\ Ordered(returned) /\ Len(returned) > 0 /\ Len(returned) \in Nat
        /\ Holds(out, returned) /\ ~Hidden(returned)
    BY <2>1, ReadableHolds
  <2>3. key \in Key
    BY BuilderAssumption DEF Key, Bytes
  <2>4. \A i \in 1 .. Len(returned) + 1 : AtEnd(out, i) <=> i = Len(returned) + 1
    BY <2>2, EndIsPast
  <2>5. CASE \E n \in 1 .. Len(returned) : returned[n].key = key
    <3>1. PICK n \in 1 .. Len(returned) : returned[n].key = key
      BY <2>5
    <3>2. Find(out, key) = n /\ FindIf(out, key) = n
      BY <2>2, <3>1, FindThere
    <3>3. ~AtEnd(out, n)
      BY <2>2, <2>4
    <3>4. QED
      BY <3>1, <3>2, <3>3
  <2>6. CASE ~\E n \in 1 .. Len(returned) : returned[n].key = key
    <3>1. Find(out, key) = Len(returned) + 1 /\ FindIf(out, key) = Len(returned) + 1
      BY <2>2, <2>3, <2>6, FindAbsent
    <3>2. AtEnd(out, Len(returned) + 1)
      BY <2>2, <2>4
    <3>3. QED
      BY <2>6, <3>1, <3>2
  <2>7. QED
    BY <2>5, <2>6
<1>2. QED
  BY BlockInvariant, <1>1, PTL

\* Block::lower_bound is right from the first key of the block on, and nowhere below.
THEOREM LowerBoundIsRight == ASSUME ~Reuse PROVE Spec => []LowerBoundIsLeast
<1>1. BlockInv => LowerBoundIsLeast
  <2> DEFINE At(key) == {n \in 1 .. Len(returned) : ~Less(returned[n].key, key)}
  <2>1. SUFFICES ASSUME BlockInv, Readable, NEW key \in KeyBytes
                 PROVE  IF At(key) = {} \/ Less(key, returned[1].key)
                        THEN LowerBound(out, key) = Past(out)
                        ELSE LowerBound(out, key) =
                               CHOOSE n \in At(key) : \A m \in At(key) : n <= m
    BY DEF LowerBoundIsLeast
  <2>2. /\ Ordered(returned) /\ Len(returned) > 0 /\ Len(returned) \in Nat
        /\ Holds(out, returned) /\ ~Hidden(returned)
    BY <2>1, ReadableHolds
  <2>3. key \in Key
    BY BuilderAssumption DEF Key, Bytes
  <2>4. Past(out) = Len(returned) + 1
    BY <2>2 DEF Past, Holds
  <2>5. PICK p : LeastNotBelow(returned, key, p)
    BY <2>2, LeastNotBelowExists
  <2>6. /\ p \in 1 .. Len(returned) + 1
        /\ \A j \in 1 .. p - 1 : Less(returned[j].key, key)
        /\ p # Len(returned) + 1 => ~Less(returned[p].key, key)
    BY <2>5 DEF LeastNotBelow
  <2>7. /\ Less(key, returned[1].key) => LowerBound(out, key) = Len(returned) + 1
        /\ ~Less(key, returned[1].key) => LowerBound(out, key) = p
    BY <2>2, <2>3, <2>5, LowerBoundIs
  <2>8. p = Len(returned) + 1 => At(key) = {}
    BY <2>2, <2>6
  <2>9. p # Len(returned) + 1 =>
          At(key) # {} /\ (CHOOSE n \in At(key) : \A m \in At(key) : n <= m) = p
    <3>1. SUFFICES ASSUME p # Len(returned) + 1
                   PROVE  At(key) # {} /\ (CHOOSE n \in At(key) : \A m \in At(key) : n <= m) = p
      OBVIOUS
    <3>2. p \in At(key)
      BY <2>2, <2>6, <3>1
    <3>3. ASSUME NEW m \in At(key) PROVE p <= m
      <4>1. m \in Nat /\ p \in Nat /\ ~(m \in 1 .. p - 1) /\ m >= 1
        BY <2>6
      <4>2. QED
        BY <4>1
    <3>4. At(key) \subseteq Nat
      OBVIOUS
    <3> HIDE DEF At
    <3>5. ASSUME NEW n \in At(key), \A m \in At(key) : n <= m PROVE n = p
      BY <3>2, <3>3, <3>4, <3>5
    <3>6. QED
      BY <3>2, <3>3, <3>5
  <2> HIDE DEF At
  <2>10. QED
    BY <2>4, <2>7, <2>8, <2>9
<1>2. QED
  BY BlockInvariant, <1>1, PTL

-----------------------------------------------------------------------------
(* Digits                                                                  *)

LEMMA Remainder ==
    ASSUME NEW m \in Nat \ {0}, NEW a \in Nat
    PROVE  a % m \in 0 .. m - 1 /\ a \div m \in Nat /\ a = m * (a \div m) + (a % m)
OBVIOUS

LEMMA SmallRemainder == ASSUME NEW m \in Nat \ {0}, NEW x \in Nat, x < m PROVE x % m = x
OBVIOUS

IsShift(f, v, base, n) == f = [i \in 1 .. n |-> IF i = 1 THEN v ELSE f[i - 1] \div base]

LEMMA ShiftExists ==
    ASSUME NEW v, NEW base, NEW n \in Nat
    PROVE  \E f : IsShift(f, v, base, n)
<1> DEFINE S == {k \in Nat : ~\E f : IsShift(f, v, base, k)}
<1>1. SUFFICES S = {}
  OBVIOUS
<1>2. SUFFICES ASSUME S # {} PROVE FALSE
  OBVIOUS
<1>3. PICK k \in S : \A j \in S : k <= j
  <2>1. S \subseteq Nat
    OBVIOUS
  <2>2. QED
    BY <1>2, <2>1, LeastNumber
<1>4. CASE k = 0
  <2>1. IsShift([i \in 1 .. 0 |-> v], v, base, 0)
    BY DEF IsShift
  <2>2. QED
    BY <1>3, <1>4, <2>1
<1>5. CASE k # 0
  <2>1. k \in Nat /\ k - 1 \in Nat /\ k - 1 \notin S
    BY <1>3, <1>5
  <2>2. PICK f : f = [i \in 1 .. k - 1 |-> IF i = 1 THEN v ELSE f[i - 1] \div base]
    BY <2>1 DEF IsShift
  <2> DEFINE g == [i \in 1 .. k |-> IF i = 1 THEN v
                                    ELSE IF i = k THEN f[k - 1] \div base ELSE f[i]]
  <2>3. \A i \in 1 .. k - 1 : f[i] = IF i = 1 THEN v ELSE f[i - 1] \div base
    BY <2>2
  <2> HIDE DEF IsShift
  <2>4. \A i \in 1 .. k : g[i] = IF i = 1 THEN v ELSE g[i - 1] \div base
    <3>1. SUFFICES ASSUME NEW i \in 1 .. k, i # 1 PROVE g[i] = g[i - 1] \div base
      BY <2>1
    <3>2. i - 1 \in 1 .. k - 1 /\ i - 1 # k /\ i - 1 \in 1 .. k
      BY <2>1, <3>1
    <3>3. g[i - 1] = f[i - 1]
      BY <2>3, <3>2
    <3>4. CASE i = k
      BY <3>1, <3>3, <3>4
    <3>5. CASE i # k
      <4>1. i \in 1 .. k - 1
        BY <2>1, <3>1, <3>5
      <4>2. g[i] = f[i]
        BY <3>1, <3>5
      <4>3. QED
        BY <2>3, <3>1, <3>3, <4>1, <4>2
    <3>6. QED
      BY <3>4, <3>5
  <2>5. DOMAIN g = 1 .. k /\ g = [i \in 1 .. k |-> g[i]]
    OBVIOUS
  <2> HIDE DEF g
  <2>6. IsShift(g, v, base, k)
    BY <2>4, <2>5 DEF IsShift
  <2>7. QED
    BY <1>3, <2>6
<1>6. QED
  BY <1>4, <1>5

\* Every shift is the one before it, divided.
LEMMA ShiftsAre ==
    ASSUME NEW v, NEW base, NEW n \in Nat
    PROVE  \A i \in 1 .. n :
              Shifts(v, base, n)[i] = IF i = 1 THEN v ELSE Shifts(v, base, n)[i - 1] \div base
<1> DEFINE P(f) == f = [i \in 1 .. n |-> IF i = 1 THEN v ELSE f[i - 1] \div base]
           F    == CHOOSE f : P(f)
<1>1. Shifts(v, base, n) = F
  BY DEF Shifts
<1>2. \E f : P(f)
  <2>1. PICK f : IsShift(f, v, base, n)
    BY ShiftExists
  <2>2. P(f)
    BY <2>1 DEF IsShift
  <2> HIDE DEF P
  <2>3. QED
    BY <2>2
<1> HIDE DEF P
<1>3. P(F)
  BY <1>2
<1> HIDE DEF F
<1>4. F = [i \in 1 .. n |-> IF i = 1 THEN v ELSE F[i - 1] \div base]
  BY ONLY <1>3 DEF P
<1>5. \A i \in 1 .. n : F[i] = IF i = 1 THEN v ELSE F[i - 1] \div base
  BY ONLY <1>4
<1>6. QED
  BY ONLY <1>1, <1>5

LEMMA ShiftsNat ==
    ASSUME NEW v \in Nat, NEW base \in Nat \ {0}, NEW n \in Nat, NEW i \in 1 .. n
    PROVE  Shifts(v, base, n)[i] \in Nat
<1> DEFINE s == Shifts(v, base, n)
           S == {k \in 1 .. n : s[k] \notin Nat}
<1>1. SUFFICES ASSUME S # {} PROVE FALSE
  OBVIOUS
<1>2. PICK k \in S : \A j \in S : k <= j
  <2>1. S \subseteq Nat
    OBVIOUS
  <2>2. QED
    BY <1>1, <2>1, LeastNumber
<1>3. s[k] = IF k = 1 THEN v ELSE s[k - 1] \div base
  BY <1>2, ShiftsAre
<1> HIDE DEF s
<1>4. k # 1 => k - 1 \in 1 .. n /\ k - 1 \notin S
  BY <1>2
<1>5. k # 1 => s[k - 1] \in Nat
  BY <1>4
<1>6. k # 1 => s[k - 1] \div base \in Nat
  BY <1>5, Remainder
<1>7. QED
  BY <1>2, <1>3, <1>6

\* Digits are joined from the highest down.
LEMMA JoinedIs ==
    ASSUME NEW n \in Nat \ {0}, NEW d, NEW base, NEW s, s[n + 1] = 0,
           \A i \in 1 .. n : s[i] = d[i] + base * s[i + 1]
    PROVE  Joined(d, base, n) = s[1]
<1> DEFINE P(f) == f = [i \in 1 .. n + 1 |-> IF i = n + 1 THEN 0 ELSE d[i] + base * f[i + 1]]
           F    == CHOOSE f : P(f)
           g    == [i \in 1 .. n + 1 |-> s[i]]
<1>1. Joined(d, base, n) = F[1]
  BY DEF Joined
<1>2. \A i \in 1 .. n + 1 : g[i] = IF i = n + 1 THEN 0 ELSE d[i] + base * g[i + 1]
  <2>1. SUFFICES ASSUME NEW i \in 1 .. n + 1
                 PROVE  g[i] = IF i = n + 1 THEN 0 ELSE d[i] + base * g[i + 1]
    OBVIOUS
  <2>2. CASE i = n + 1
    BY <2>2
  <2>3. CASE i # n + 1
    <3>1. i \in 1 .. n /\ i + 1 \in 1 .. n + 1
      BY <2>1, <2>3
    <3>2. g[i] = s[i] /\ g[i + 1] = s[i + 1]
      BY <3>1
    <3>3. QED
      BY <2>3, <3>1, <3>2
  <2>4. QED
    BY <2>2, <2>3
<1>3. g = [i \in 1 .. n + 1 |-> g[i]]
  OBVIOUS
<1>4. P(g)
  <2> HIDE DEF g
  <2>1. QED
    BY <1>2, <1>3
<1> HIDE DEF P, g
<1>5. P(F)
  BY <1>4
<1> HIDE DEF F
<1>6. F = [i \in 1 .. n + 1 |-> IF i = n + 1 THEN 0 ELSE d[i] + base * F[i + 1]]
  BY ONLY <1>5 DEF P
<1>7. \A i \in 1 .. n + 1 : F[i] = IF i = n + 1 THEN 0 ELSE d[i] + base * F[i + 1]
  BY ONLY <1>6
<1> DEFINE S == {k \in 0 .. n : F[n + 1 - k] # s[n + 1 - k]}
<1>8. S = {}
  <2>1. SUFFICES ASSUME S # {} PROVE FALSE
    OBVIOUS
  <2>2. PICK k \in S : \A j \in S : k <= j
    <3>1. S \subseteq Nat
      OBVIOUS
    <3>2. QED
      BY <2>1, <3>1, LeastNumber
  <2> DEFINE i == n + 1 - k
  <2>3. k \in 0 .. n /\ i \in 1 .. n + 1 /\ F[i] # s[i]
    BY <2>2
  <2>4. CASE k = 0
    BY <1>7, <2>3, <2>4
  <2>5. CASE k # 0
    <3>1. k - 1 \in 0 .. n /\ k - 1 \notin S /\ n + 1 - (k - 1) = i + 1
      BY <2>2, <2>5
    <3>2. F[i + 1] = s[i + 1]
      <4> HIDE DEF i
      <4>1. QED
        BY <3>1
    <3>3. i \in 1 .. n /\ i # n + 1
      BY <2>3, <2>5
    <3> HIDE DEF i
    <3>4. F[i] = d[i] + base * F[i + 1] /\ s[i] = d[i] + base * s[i + 1]
      BY <1>7, <3>3
    <3> DEFINE x == F[i + 1]
               y == s[i + 1]
    <3>5. x = y /\ F[i] = d[i] + base * x /\ s[i] = d[i] + base * y /\ F[i] # s[i]
      BY ONLY <2>3, <3>2, <3>4
    <3> HIDE DEF x, y
    <3>6. QED
      BY ONLY <3>5
  <2>6. QED
    BY <2>4, <2>5
<1>9. F[1] = s[1]
  <2>1. n \in 0 .. n /\ n \notin S /\ n + 1 - n = 1
    <3>1. n \notin S
      BY ONLY <1>8
    <3>2. n \in 0 .. n /\ n + 1 - n = 1
      BY ONLY n \in Nat \ {0}
    <3>3. QED
      BY <3>1, <3>2
  <2>2. QED
    BY <2>1
<1>10. QED
  BY <1>1, <1>9

\* Taking a number apart and joining the digits again
LEMMA DigitsJoin ==
    ASSUME NEW v \in Nat, NEW base \in Nat \ {0}, NEW m \in Nat, NEW n \in 1 .. m, NEW d,
           \A i \in 1 .. n : i < n => d[i] = Shifts(v, base, m)[i] % base,
           d[n] = Shifts(v, base, m)[n]
    PROVE  Joined(d, base, n) = v
<1> DEFINE s == Shifts(v, base, m)
           t == [i \in 1 .. n + 1 |-> IF i = n + 1 THEN 0 ELSE s[i]]
<1>1. \A i \in 1 .. m : s[i] \in Nat /\ s[i] = IF i = 1 THEN v ELSE s[i - 1] \div base
  BY ShiftsAre, ShiftsNat
<1> HIDE DEF s
<1>2. t[n + 1] = 0 /\ t[1] = v
  BY <1>1
<1>3. \A i \in 1 .. n : t[i] = d[i] + base * t[i + 1]
  <2>1. SUFFICES ASSUME NEW i \in 1 .. n PROVE t[i] = d[i] + base * t[i + 1]
    OBVIOUS
  <2>2. i \in 1 .. m /\ i \in 1 .. n + 1 /\ i + 1 \in 1 .. n + 1 /\ i # n + 1 /\ i \in Nat /\ n \in Nat
    BY <2>1
  <2>3. t[i] = s[i] /\ s[i] \in Nat
    BY <1>1, <2>2
  <2>4. CASE i = n
    <3>1. t[i + 1] = 0 /\ d[i] = s[i]
      BY <1>2, <2>4 DEF s
    <3>2. QED
      BY <2>3, <3>1
  <2>5. CASE i # n
    <3>1. i < n /\ i + 1 \in 1 .. m /\ i + 1 # 1 /\ (i + 1) - 1 = i /\ i + 1 # n + 1
      BY <2>2, <2>5
    <3>2. s[i + 1] = s[i] \div base /\ t[i + 1] = s[i + 1]
      BY <1>1, <2>2, <3>1
    <3>3. d[i] = s[i] % base
      BY <3>1 DEF s
    <3> DEFINE q == s[i] \div base
               r == s[i] % base
    <3>4. r \in 0 .. base - 1 /\ q \in Nat /\ s[i] = base * q + r
      BY ONLY <2>3, base \in Nat \ {0}, Remainder
    <3>5. t[i] = s[i] /\ d[i] = r /\ t[i + 1] = q
      BY <2>3, <3>2, <3>3
    <3> HIDE DEF q, r, t
    <3>6. QED
      BY ONLY <3>4, <3>5, base \in Nat
  <2>6. QED
    BY <2>4, <2>5
<1> HIDE DEF t
<1>4. QED
  BY <1>2, <1>3, JoinedIs

LEMMA DivLess ==
    ASSUME NEW v \in Nat, NEW base \in Nat \ {0}, NEW x \in Nat, v < base * x
    PROVE  v \div base < x
<1> DEFINE q == v \div base
           r == v % base
<1>1. q \in Nat /\ r \in 0 .. base - 1 /\ v = base * q + r
  BY Remainder
<1> HIDE DEF q, r
<1>2. SUFFICES ASSUME q >= x PROVE FALSE
  BY <1>1 DEF q
<1>3. base * q = base * x + base * (q - x) /\ base * (q - x) >= 0
  BY <1>1, <1>2
<1>4. base * q \in Nat /\ base * x \in Nat
  BY <1>1
<1>5. QED
  BY ONLY <1>1, <1>3, <1>4, v < base * x, v \in Nat, base \in Nat

LEMMA QuotientIs ==
    ASSUME NEW m \in Nat \ {0}, NEW q \in Nat, NEW r \in 0 .. m - 1
    PROVE  (m * q + r) \div m = q /\ (m * q + r) % m = r
<1> DEFINE a == m * q + r
           p == a \div m
           s == a % m
<1>1. a \in Nat
  OBVIOUS
<1>2. p \in Nat /\ s \in 0 .. m - 1 /\ a = m * p + s
  <2> HIDE DEF a
  <2>1. QED
    BY <1>1, Remainder
<1> HIDE DEF p, s
<1>3. m * (q - p) = s - r
  BY <1>2
<1>4. CASE q > p
  <2>1. m * (q - p) >= m
    BY <1>2, <1>4
  <2>2. QED
    BY <1>2, <1>3, <2>1
<1>5. CASE q < p
  <2>1. m * (p - q) >= m /\ m * (p - q) = r - s
    BY <1>2, <1>5
  <2>2. QED
    BY <1>2, <2>1
<1>6. CASE q = p
  <2>1. s = r
    BY <1>2, <1>6
  <2>2. QED
    BY <1>6, <2>1 DEF p, s
<1>7. QED
  BY <1>2, <1>4, <1>5, <1>6

-----------------------------------------------------------------------------
(* Varints                                                                 *)

ByteSet == 0 .. 2 * Radix - 1

LEMMA RadixIs ==
    /\ Radix \in Nat \ {0} /\ Radix \in Nat /\ Radix > 1 /\ Top \in Nat \ {0} /\ Top <= Radix
    /\ Limit \in Nat \ {0}
<1>1. Radix \in Nat \ {0} /\ Radix \in Nat /\ Radix > 1 /\ Top \in Nat \ {0} /\ Top <= Radix
  BY CodingAssumption
<1>2. Radix * Radix \in Nat \ {0}
  BY <1>1
<1>3. Radix * Radix * Radix \in Nat \ {0}
  BY <1>1, <1>2
<1>4. Radix * Radix * Radix * Radix \in Nat \ {0}
  BY <1>1, <1>3
<1>5. Limit \in Nat \ {0}
  BY <1>1, <1>4 DEF Limit
<1>6. QED
  BY <1>1, <1>5

\* The fifth digit is the last.
LEMMA LastShift ==
    ASSUME NEW v \in 0 .. Limit - 1
    PROVE  /\ v \in Nat
           /\ \A i \in 1 .. 5 : Shifts(v, Radix, 5)[i] \in Nat
           /\ Shifts(v, Radix, 5)[5] < Radix
<1> DEFINE s == Shifts(v, Radix, 5)
           t == Radix * Top
           u == Radix * t
           w == Radix * u
<1>1. v \in Nat /\ v < Limit
  BY RadixIs
<1>2. \A i \in 1 .. 5 : s[i] \in Nat /\ s[i] = IF i = 1 THEN v ELSE s[i - 1] \div Radix
  <2>1. \A i \in 1 .. 5 : s[i] \in Nat
    BY <1>1, RadixIs, ShiftsNat
  <2>2. \A i \in 1 .. 5 : s[i] = IF i = 1 THEN v ELSE s[i - 1] \div Radix
    BY ShiftsAre
  <2> HIDE DEF s
  <2>3. QED
    BY <2>1, <2>2
<1> HIDE DEF s
<1>3. t \in Nat /\ u \in Nat /\ w \in Nat
  <2>1. t \in Nat
    BY RadixIs
  <2>2. u \in Nat
    BY <2>1, RadixIs
  <2>3. w \in Nat
    BY <2>2, RadixIs
  <2>4. QED
    BY <2>1, <2>2, <2>3
<1>4. Limit = Radix * w
  <2>1. /\ Radix \in Int /\ Top \in Int /\ Radix * Top \in Int /\ Radix * (Radix * Top) \in Int
        /\ Radix * (Radix * (Radix * Top)) \in Int /\ Radix * Radix \in Int
        /\ Radix * Radix * Radix \in Int /\ Radix * Radix * Radix * Radix \in Int
    BY <1>3, RadixIs
  <2>2. Radix * Radix * Radix * Radix * Top = Radix * (Radix * (Radix * (Radix * Top)))
    BY ONLY <2>1
  <2>3. QED
    BY <2>2 DEF Limit
<1>5. /\ s[1] = v /\ s[2] = s[1] \div Radix /\ s[3] = s[2] \div Radix
      /\ s[4] = s[3] \div Radix /\ s[5] = s[4] \div Radix
      /\ s[1] \in Nat /\ s[2] \in Nat /\ s[3] \in Nat /\ s[4] \in Nat /\ s[5] \in Nat
  BY <1>2
<1>6. s[2] < w
  BY ONLY <1>1, <1>3, <1>4, <1>5, RadixIs, DivLess
<1>7. s[3] < u
  BY ONLY <1>3, <1>5, <1>6, RadixIs, DivLess DEF w
<1>8. s[4] < t
  BY ONLY <1>3, <1>5, <1>7, RadixIs, DivLess DEF u
<1>9. s[5] < Top
  BY ONLY <1>3, <1>5, <1>8, RadixIs, DivLess DEF t
<1>10. s[5] < Radix
  BY ONLY <1>5, <1>9, RadixIs
<1>11. QED
  BY <1>1, <1>2, <1>10 DEF s

LEMMA BranchIs ==
    ASSUME NEW v \in 0 .. Limit - 1
    PROVE  /\ Branch(v) \in 1 .. 5
           /\ Shifts(v, Radix, 5)[Branch(v)] < Radix
           /\ \A m \in 1 .. Branch(v) - 1 : Shifts(v, Radix, 5)[m] >= Radix
<1> DEFINE s == Shifts(v, Radix, 5)
           P(n) == /\ n < 5 => s[n] < Radix
                   /\ \A m \in 1 .. n - 1 : s[m] >= Radix
           S == {n \in 1 .. 5 : s[n] < Radix}
<1>1. s[5] < Radix /\ \A i \in 1 .. 5 : s[i] \in Nat
  BY LastShift
<1>2. PICK n \in S : \A m \in S : n <= m
  <2> HIDE DEF s
  <2>1. 5 \in S /\ S \subseteq Nat
    BY <1>1
  <2>2. QED
    BY <2>1, LeastNumber
<1>3. n \in 1 .. 5 /\ P(n)
  <2> HIDE DEF s
  <2>1. \A m \in 1 .. n - 1 : m \notin S /\ m \in 1 .. 5
    BY <1>2
  <2>2. QED
    BY <1>1, <1>2, <2>1, RadixIs
<1>4. Branch(v) = CHOOSE k \in 1 .. 5 : P(k)
  BY DEF Branch
<1>5. Branch(v) \in 1 .. 5 /\ P(Branch(v))
  <2> HIDE DEF P
  <2>1. QED
    BY <1>3, <1>4
<1>6. QED
  <2> HIDE DEF s
  <2>1. Branch(v) = 5 \/ Branch(v) < 5
    BY <1>5
  <2>2. QED
    BY <1>1, <1>5, <2>1 DEF s

\* e is the varint of v: the flag is on all bytes but the last.
IsVarint(e, v) ==
    /\ e \in Seq(ByteSet) /\ Len(e) \in 1 .. 5
    /\ \A i \in 1 .. Len(e) - 1 : e[i] >= Radix /\ e[i] % Radix = Shifts(v, Radix, 5)[i] % Radix
    /\ e[Len(e)] = Shifts(v, Radix, 5)[Len(e)] /\ e[Len(e)] \in 0 .. Radix - 1

LEMMA EncodeIs ==
    ASSUME NEW v \in 0 .. Limit - 1
    PROVE  IsVarint(EncodeVarint32(v), v) /\ Len(EncodeVarint32(v)) = Branch(v)
<1> DEFINE n == Branch(v)
           s == Shifts(v, Radix, 5)
           e == EncodeVarint32(v)
<1>1. n \in 1 .. 5 /\ s[n] < Radix /\ n \in Nat
  BY BranchIs
<1>2. \A i \in 1 .. 5 : s[i] \in Nat
  BY LastShift
<1>3. e = [i \in 1 .. n |-> IF i < n THEN Radix + (s[i] % Radix) ELSE s[i]]
  BY DEF EncodeVarint32
<1> HIDE DEF n, s, e
<1>4. \A i \in 1 .. n : e[i] = IF i < n THEN Radix + (s[i] % Radix) ELSE s[i]
  BY <1>3
<1>5. ASSUME NEW i \in 1 .. n, i < n
      PROVE  /\ e[i] = Radix + (s[i] % Radix) /\ s[i] % Radix \in 0 .. Radix - 1
             /\ e[i] % Radix = s[i] % Radix
  <2>1. s[i] \in Nat /\ e[i] = Radix + (s[i] % Radix)
    BY <1>1, <1>2, <1>4, <1>5
  <2> DEFINE r == s[i] % Radix
  <2>2. r \in 0 .. Radix - 1
    BY ONLY <2>1, RadixIs, Remainder
  <2>3. e[i] = Radix + r
    BY <2>1
  <2> HIDE DEF r
  <2>4. (Radix * 1 + r) % Radix = r /\ Radix * 1 + r = Radix + r
    <3>1. (Radix * 1 + r) % Radix = r
      BY ONLY <2>2, RadixIs, 1 \in Nat, QuotientIs
    <3>2. Radix * 1 + r = Radix + r
      BY ONLY <2>2, RadixIs
    <3>3. QED
      BY <3>1, <3>2
  <2>5. e[i] % Radix = r
    BY ONLY <2>3, <2>4
  <2>6. QED
    BY ONLY <2>2, <2>3, <2>5 DEF r
<1>6. e[n] = s[n] /\ e[n] \in 0 .. Radix - 1
  BY <1>1, <1>2, <1>4, RadixIs
<1>7. \A i \in 1 .. n : e[i] \in ByteSet
  <2>1. SUFFICES ASSUME NEW i \in 1 .. n PROVE e[i] \in ByteSet
    OBVIOUS
  <2>2. CASE i < n
    BY <1>5, <2>2, RadixIs DEF ByteSet
  <2>3. CASE ~(i < n)
    <3>1. i = n
      BY <1>1, <2>3
    <3>2. QED
      BY <1>6, <3>1, RadixIs DEF ByteSet
  <2>4. QED
    BY <2>2, <2>3
<1>8. e = [i \in 1 .. n |-> e[i]]
  BY <1>3, <1>4
<1>9. e \in Seq(ByteSet) /\ Len(e) = n
  <2>1. e \in [1 .. n -> ByteSet]
    BY <1>7, <1>8
  <2>2. QED
    BY <1>1, <2>1
<1>10. \A i \in 1 .. n - 1 : i \in 1 .. n /\ i < n
  BY <1>1
<1>11. \A i \in 1 .. n - 1 : e[i] >= Radix /\ e[i] % Radix = s[i] % Radix
  BY <1>5, <1>10, RadixIs
<1>12. QED
  BY <1>1, <1>6, <1>9, <1>11 DEF IsVarint, n, s, e

\* A varint at the front of a buffer is read whole ...
LEMMA VarintBack ==
    ASSUME NEW v \in 0 .. Limit - 1, NEW e, IsVarint(e, v), NEW c \in Seq(ByteSet),
           Len(e) <= Len(c), \A i \in 1 .. Len(e) : c[i] = e[i]
    PROVE  GetVarint32(c) = [ok |-> TRUE, value |-> v, rest |-> SubSeq(c, Len(e) + 1, Len(c))]
<1> DEFINE n == Len(e)
           d == [i \in 1 .. n |-> c[i] % Radix]
<1>1. /\ n \in 1 .. 5 /\ n \in Nat /\ Len(c) \in Nat
      /\ \A i \in 1 .. n - 1 : e[i] >= Radix /\ e[i] % Radix = Shifts(v, Radix, 5)[i] % Radix
      /\ e[n] = Shifts(v, Radix, 5)[n] /\ e[n] \in 0 .. Radix - 1
  BY DEF IsVarint
<1>2. \A i \in 1 .. n : c[i] = e[i]
  OBVIOUS
<1>3. n <= Len(c)
  OBVIOUS
<1> HIDE DEF n
<1>4. n \in Ends(c) /\ \A m \in Ends(c) : n <= m
  <2>1. n \in 1 .. n
    BY <1>1
  <2>2. c[n] < Radix
    BY <1>1, <1>2, <2>1, RadixIs
  <2>3. n \in Ends(c)
    BY <1>1, <1>3, <2>2 DEF Ends
  <2>4. ASSUME NEW m \in Ends(c), ~(n <= m) PROVE FALSE
    <3>1. m \in 1 .. 5 /\ c[m] < Radix
      BY <2>4 DEF Ends
    <3>2. m \in 1 .. n - 1 /\ m \in 1 .. n
      BY <1>1, <2>4, <3>1
    <3>3. c[m] >= Radix
      BY <1>1, <1>2, <3>2
    <3>4. c[m] \in ByteSet
      BY <1>1, <1>3, <3>2, ElementOfSeq
    <3>5. QED
      BY <3>1, <3>3, <3>4, RadixIs DEF ByteSet
  <2>5. QED
    BY <2>3, <2>4
<1>5. (CHOOSE k \in Ends(c) : \A m \in Ends(c) : k <= m) = n
  <2>1. \A k \in Ends(c) : k \in Nat
    BY DEF Ends
  <2>2. \A k \in Ends(c) : (\A m \in Ends(c) : k <= m) => k = n
    BY <1>1, <1>4, <2>1
  <2>3. QED
    BY <1>4, <2>2
<1>6. GetVarint32(c) = [ok |-> TRUE, value |-> Joined(d, Radix, n) % Limit,
                        rest |-> SubSeq(c, n + 1, Len(c))]
  BY <1>4, <1>5 DEF GetVarint32
<1>7. \A i \in 1 .. n : i < n => d[i] = Shifts(v, Radix, 5)[i] % Radix
  <2>1. SUFFICES ASSUME NEW i \in 1 .. n, i < n PROVE d[i] = Shifts(v, Radix, 5)[i] % Radix
    OBVIOUS
  <2>2. i \in 1 .. n - 1
    BY <1>1, <2>1
  <2>3. e[i] % Radix = Shifts(v, Radix, 5)[i] % Radix
    BY ONLY <1>1, <2>2
  <2>4. c[i] = e[i]
    BY ONLY <1>2, i \in 1 .. n
  <2>5. d[i] = c[i] % Radix
    OBVIOUS
  <2>6. QED
    BY <2>3, <2>4, <2>5
<1>8. d[n] = Shifts(v, Radix, 5)[n]
  <2>1. n \in 1 .. n /\ e[n] < Radix /\ e[n] \in Nat
    <3>1. n \in 1 .. n
      BY ONLY <1>1
    <3>2. e[n] \in 0 .. Radix - 1 /\ Radix \in Nat
      BY <1>1, RadixIs
    <3>3. QED
      BY ONLY <3>1, <3>2
  <2>2. d[n] = e[n] % Radix
    BY <1>2, <2>1
  <2>3. e[n] % Radix = e[n]
    <3>1. Radix \in Nat \ {0}
      BY RadixIs
    <3>2. QED
      BY ONLY <2>1, <3>1, SmallRemainder
  <2>4. QED
    BY <1>1, <2>2, <2>3
<1> HIDE DEF d
<1>9. v \in Nat /\ v % Limit = v
  BY RadixIs
<1>10. Joined(d, Radix, n) = v
  <2>1. v \in Nat /\ Radix \in Nat \ {0} /\ 5 \in Nat /\ n \in 1 .. 5
    BY <1>1, <1>9, RadixIs
  <2>2. QED
    BY ONLY <2>1, <1>7, <1>8, DigitsJoin
<1>11. QED
  BY <1>6, <1>9, <1>10 DEF n

\* ... and one that is cut is not read.
LEMMA VarintCut ==
    ASSUME NEW v \in 0 .. Limit - 1, NEW e, IsVarint(e, v), NEW c \in Seq(ByteSet),
           Len(c) < Len(e), \A i \in 1 .. Len(c) : c[i] = e[i]
    PROVE  GetVarint32(c) = [ok |-> FALSE, value |-> 0, rest |-> c]
<1>1. Len(e) \in 1 .. 5 /\ Len(c) \in Nat
  BY DEF IsVarint
<1>2. ASSUME NEW m \in Ends(c) PROVE FALSE
  <2>1. m \in 1 .. 5 /\ m <= Len(c) /\ c[m] < Radix
    BY DEF Ends
  <2>2. m \in 1 .. Len(c) /\ m \in 1 .. Len(e) - 1
    BY <1>1, <2>1
  <2>3. c[m] >= Radix /\ c[m] \in ByteSet
    BY <2>2, ElementOfSeq DEF IsVarint
  <2>4. QED
    BY <2>1, <2>3, RadixIs DEF ByteSet
<1>3. Ends(c) = {}
  BY <1>2
<1>4. QED
  BY <1>3 DEF GetVarint32

-----------------------------------------------------------------------------
(* VarintLength counts as EncodeVarint32 writes                            *)

LEMMA DivBelow ==
    ASSUME NEW u \in Nat
    PROVE  u \div Radix \in 0 .. u /\ (u > 0 => u \div Radix < u)
<1> DEFINE q == u \div Radix
           r == u % Radix
<1>1. q \in Nat /\ r \in 0 .. Radix - 1 /\ u = Radix * q + r
  BY RadixIs, Remainder
<1> HIDE DEF q, r
<1>2. Radix * q = q + (Radix - 1) * q /\ (Radix - 1) * q >= 0 /\ (q > 0 => (Radix - 1) * q > 0)
  BY <1>1, RadixIs
<1>3. q <= u /\ (u > 0 => q < u)
  <2> DEFINE x == (Radix - 1) * q
             y == Radix * q
  <2>1. x \in Int /\ y \in Int
    BY <1>1, RadixIs
  <2>2. y = q + x /\ x >= 0 /\ (q > 0 => x > 0) /\ u = y + r
    BY <1>1, <1>2
  <2> HIDE DEF x, y
  <2>3. QED
    BY <1>1, <2>1, <2>2, RadixIs
<1>4. QED
  BY <1>1, <1>3 DEF q

IsLength(f, n) == f = [u \in 0 .. n |-> IF u >= Radix THEN 1 + f[u \div Radix] ELSE 1]

LEMMA LengthExists ==
    ASSUME NEW n \in Nat
    PROVE  \E f : IsLength(f, n)
<1> DEFINE S == {k \in Nat : ~\E f : IsLength(f, k)}
<1>1. SUFFICES ASSUME S # {} PROVE FALSE
  OBVIOUS
<1>2. PICK k \in S : \A j \in S : k <= j
  <2>1. S \subseteq Nat
    OBVIOUS
  <2>2. QED
    BY <1>1, <2>1, LeastNumber
<1>3. CASE k = 0
  <2> DEFINE g == [u \in 0 .. 0 |-> 1]
  <2>1. \A u \in 0 .. 0 : g[u] = IF u >= Radix THEN 1 + g[u \div Radix] ELSE 1
    BY RadixIs
  <2>2. g = [u \in 0 .. 0 |-> g[u]]
    OBVIOUS
  <2> HIDE DEF g
  <2>3. IsLength(g, 0)
    BY <2>1, <2>2 DEF IsLength
  <2>4. QED
    BY <1>2, <1>3, <2>3
<1>4. CASE k # 0
  <2>1. k \in Nat /\ k - 1 \in Nat /\ k - 1 \notin S
    BY <1>2, <1>4
  <2>2. PICK f : f = [u \in 0 .. k - 1 |-> IF u >= Radix THEN 1 + f[u \div Radix] ELSE 1]
    BY <2>1 DEF IsLength
  <2>3. \A u \in 0 .. k - 1 : f[u] = IF u >= Radix THEN 1 + f[u \div Radix] ELSE 1
    BY <2>2
  <2> DEFINE g == [u \in 0 .. k |-> IF u = k THEN IF k >= Radix THEN 1 + f[k \div Radix] ELSE 1
                                    ELSE f[u]]
  <2>4. \A u \in 0 .. k : g[u] = IF u >= Radix THEN 1 + g[u \div Radix] ELSE 1
    <3>1. SUFFICES ASSUME NEW u \in 0 .. k
                   PROVE  g[u] = IF u >= Radix THEN 1 + g[u \div Radix] ELSE 1
      OBVIOUS
    <3>2. u >= Radix => u \div Radix \in 0 .. k - 1
      <4>1. u \in Nat /\ u <= k
        BY <2>1
      <4>2. u >= Radix => u > 0
        BY <4>1, RadixIs
      <4>3. u \div Radix \in 0 .. u /\ (u > 0 => u \div Radix < u)
        BY <4>1, DivBelow
      <4> DEFINE q == u \div Radix
      <4> HIDE DEF q
      <4>4. q \in 0 .. u /\ (u > 0 => q < u)
        BY <4>3 DEF q
      <4>5. u >= Radix => q \in 0 .. k - 1
        BY <2>1, <4>1, <4>2, <4>4
      <4>6. QED
        BY <4>5 DEF q
    <3> DEFINE q == u \div Radix
    <3>3. u >= Radix => q \in 0 .. k /\ q # k /\ q \in 0 .. k - 1
      <4> HIDE DEF q
      <4>1. u >= Radix => q \in 0 .. k - 1
        BY <3>2 DEF q
      <4>2. QED
        BY <2>1, <4>1
    <3> HIDE DEF q
    <3>4. u >= Radix => g[q] = f[q]
      BY <3>3
    <3>5. g[u] = IF u >= Radix THEN 1 + f[q] ELSE 1
      <4>1. CASE u = k
        BY <4>1 DEF q
      <4>2. CASE u # k
        <5>1. u \in 0 .. k - 1 /\ g[u] = f[u]
          BY <2>1, <4>2
        <5>2. QED
          BY <2>3, <5>1 DEF q
      <4>3. QED
        BY <4>1, <4>2
    <3>6. QED
      BY <3>4, <3>5 DEF q
  <2>5. g = [u \in 0 .. k |-> g[u]]
    OBVIOUS
  <2> HIDE DEF g
  <2>6. IsLength(g, k)
    BY <2>4, <2>5 DEF IsLength
  <2>7. QED
    BY <1>2, <2>6
<1>5. QED
  BY <1>3, <1>4

LEMMA VarintLengthIs ==
    ASSUME NEW v \in 0 .. Limit - 1
    PROVE  VarintLength(v) = Branch(v)
<1> DEFINE P(f) == f = [u \in 0 .. v |-> IF u >= Radix THEN 1 + f[u \div Radix] ELSE 1]
           F    == CHOOSE f : P(f)
           s    == Shifts(v, Radix, 5)
           n    == Branch(v)
<1>1. VarintLength(v) = F[v]
  BY DEF VarintLength
<1>2. v \in Nat /\ (\A i \in 1 .. 5 : s[i] \in Nat)
  BY LastShift
<1>3. P(F)
  <2>1. PICK f : IsLength(f, v)
    BY <1>2, LengthExists
  <2>2. P(f)
    BY <2>1 DEF IsLength
  <2> HIDE DEF P
  <2>3. QED
    BY <2>2
<1> HIDE DEF P, F
<1>4. \A u \in 0 .. v : F[u] = IF u >= Radix THEN 1 + F[u \div Radix] ELSE 1
  <2>1. F = [u \in 0 .. v |-> IF u >= Radix THEN 1 + F[u \div Radix] ELSE 1]
    BY ONLY <1>3 DEF P
  <2>2. QED
    BY ONLY <2>1
<1>5. /\ n \in 1 .. 5 /\ s[n] < Radix
      /\ \A m \in 1 .. n - 1 : s[m] >= Radix
  BY BranchIs
<1>6. \A i \in 1 .. 5 : s[i] = IF i = 1 THEN v ELSE s[i - 1] \div Radix
  BY ShiftsAre
<1> HIDE DEF s, n
<1>7. \A i \in 1 .. 5 : s[i] \in 0 .. v
  <2>1. /\ s[1] = v /\ s[2] = s[1] \div Radix /\ s[3] = s[2] \div Radix
        /\ s[4] = s[3] \div Radix /\ s[5] = s[4] \div Radix
        /\ s[1] \in Nat /\ s[2] \in Nat /\ s[3] \in Nat /\ s[4] \in Nat /\ s[5] \in Nat
    BY <1>2, <1>6
  <2>2. s[2] <= s[1] /\ s[3] <= s[2] /\ s[4] <= s[3] /\ s[5] <= s[4]
    <3>1. s[2] \in 0 .. s[1]
      BY ONLY <2>1, DivBelow
    <3>2. s[3] \in 0 .. s[2]
      BY ONLY <2>1, DivBelow
    <3>3. s[4] \in 0 .. s[3]
      BY ONLY <2>1, DivBelow
    <3>4. s[5] \in 0 .. s[4]
      BY ONLY <2>1, DivBelow
    <3>5. QED
      BY ONLY <2>1, <3>1, <3>2, <3>3, <3>4
  <2>3. s[1] = v /\ s[2] <= v /\ s[3] <= v /\ s[4] <= v /\ s[5] <= v
    BY ONLY <1>2, <2>1, <2>2
  <2>4. SUFFICES ASSUME NEW i \in 1 .. 5 PROVE s[i] \in 0 .. v
    OBVIOUS
  <2>5. i = 1 \/ i = 2 \/ i = 3 \/ i = 4 \/ i = 5
    BY <2>4
  <2>6. QED
    BY <1>2, <2>1, <2>3, <2>5
<1> DEFINE S == {k \in 0 .. n - 1 : F[s[n - k]] # k + 1}
<1>8. S = {}
  <2>1. SUFFICES ASSUME S # {} PROVE FALSE
    OBVIOUS
  <2>2. PICK k \in S : \A j \in S : k <= j
    <3>1. S \subseteq Nat
      BY <1>5
    <3>2. QED
      BY <2>1, <3>1, LeastNumber
  <2> DEFINE i == n - k
  <2>3. k \in 0 .. n - 1 /\ i \in 1 .. 5 /\ i \in 1 .. n /\ F[s[i]] # k + 1 /\ n \in Nat
    BY <1>5, <2>2
  <2>4. s[i] \in 0 .. v /\ s[i] \in Nat
    BY <1>2, <1>7, <2>3
  <2>5. CASE k = 0
    <3>1. i = n
      BY <2>3, <2>5
    <3>2. ~(s[i] >= Radix)
      BY <1>2, <1>5, <3>1, RadixIs
    <3>3. F[s[i]] = 1
      BY <1>4, <2>4, <3>2
    <3>4. QED
      BY <2>3, <2>5, <3>3
  <2>6. CASE k # 0
    <3>1. i \in 1 .. n - 1 /\ i + 1 \in 1 .. 5 /\ i + 1 # 1 /\ (i + 1) - 1 = i
      BY <1>5, <2>3, <2>6
    <3>2. k - 1 \in 0 .. n - 1 /\ k - 1 \notin S /\ n - (k - 1) = i + 1
      BY <2>2, <2>3, <2>6
    <3> HIDE DEF i
    <3>3. F[s[i + 1]] = k
      BY <2>3, <3>2
    <3>4. s[i] >= Radix /\ s[i + 1] = s[i] \div Radix
      BY <1>5, <1>6, <3>1
    <3>5. F[s[i]] = 1 + F[s[i + 1]]
      BY <1>4, <2>4, <3>4
    <3>6. QED
      BY <2>3, <3>3, <3>5
  <2>7. QED
    BY <2>5, <2>6
<1>9. n - 1 \in 0 .. n - 1 /\ n - 1 \notin S /\ n - (n - 1) = 1 /\ (n - 1) + 1 = n
  <2>1. n - 1 \in 0 .. n - 1 /\ n - (n - 1) = 1 /\ (n - 1) + 1 = n
    BY <1>5
  <2>2. n - 1 \notin S
    BY ONLY <1>8
  <2>3. QED
    BY <2>1, <2>2
<1>10. F[s[1]] = n /\ s[1] = v
  <2>1. F[s[n - (n - 1)]] = (n - 1) + 1
    BY <1>9
  <2>2. s[1] = v
    BY <1>6
  <2>3. QED
    BY ONLY <1>9, <2>1, <2>2
<1>11. QED
  BY <1>1, <1>10 DEF n

-----------------------------------------------------------------------------
(* Strings behind their lengths                                            *)

ByteString == {s \in Seq(ByteSet) : Len(s) < Limit}

Coded(s) == EncodeVarint32(Len(s)) \o s

\* The buffer c begins with d.
Starts(c, d) == Len(d) <= Len(c) /\ \A i \in 1 .. Len(d) : c[i] = d[i]

\* ... or is a part of d, cut before its end.
CutOf(c, d) == Len(c) < Len(d) /\ \A i \in 1 .. Len(c) : c[i] = d[i]

LEMMA SubSeqOf ==
    ASSUME NEW c \in Seq(ByteSet), NEW m \in Nat, NEW n \in Nat, m > 0, n <= Len(c)
    PROVE  /\ SubSeq(c, m, n) \in Seq(ByteSet)
           /\ Len(SubSeq(c, m, n)) = IF m <= n THEN n - m + 1 ELSE 0
           /\ Len(SubSeq(c, m, n)) \in Nat
           /\ \A i \in 1 .. Len(SubSeq(c, m, n)) : SubSeq(c, m, n)[i] = c[m + i - 1]
<1>1. \A i \in m .. n : c[i] \in ByteSet
  <2>1. SUFFICES ASSUME NEW i \in m .. n PROVE c[i] \in ByteSet
    OBVIOUS
  <2>2. i \in 1 .. Len(c)
    BY LenProperties
  <2>3. QED
    BY <2>2, ElementOfSeq
<1>2. m \in Int /\ n \in Int
  OBVIOUS
<1>3. /\ SubSeq(c, m, n) \in Seq(ByteSet)
      /\ Len(SubSeq(c, m, n)) = IF m <= n THEN n - m + 1 ELSE 0
      /\ \A i \in 1 .. n - m + 1 : SubSeq(c, m, n)[i] = c[m + i - 1]
  BY ONLY <1>1, <1>2, SubSeqProperties
<1> DEFINE u == SubSeq(c, m, n)
<1> HIDE DEF u
<1>4. /\ Len(u) = IF m <= n THEN n - m + 1 ELSE 0
      /\ \A i \in 1 .. n - m + 1 : u[i] = c[m + i - 1]
  BY <1>3 DEF u
<1>5. Len(u) \in Nat
  BY ONLY <1>4, m \in Nat, n \in Nat
<1>6. \A i \in 1 .. Len(u) : i \in 1 .. n - m + 1
  BY ONLY <1>4, m \in Nat, n \in Nat
<1>7. QED
  BY <1>3, <1>4, <1>5, <1>6 DEF u

LEMMA CodedIs ==
    ASSUME NEW s \in ByteString
    PROVE  /\ IsVarint(EncodeVarint32(Len(s)), Len(s))
           /\ s \in Seq(ByteSet) /\ Len(s) \in Nat /\ Len(s) \in 0 .. Limit - 1
           /\ Coded(s) \in Seq(ByteSet)
           /\ Len(EncodeVarint32(Len(s))) \in 1 .. 5
           /\ Len(Coded(s)) = Len(EncodeVarint32(Len(s))) + Len(s)
           /\ \A i \in 1 .. Len(EncodeVarint32(Len(s))) : Coded(s)[i] = EncodeVarint32(Len(s))[i]
           /\ \A i \in 1 .. Len(s) : Coded(s)[Len(EncodeVarint32(Len(s))) + i] = s[i]
<1> DEFINE e == EncodeVarint32(Len(s))
<1>1. s \in Seq(ByteSet) /\ Len(s) \in Nat /\ Len(s) \in 0 .. Limit - 1
  BY LenProperties, RadixIs DEF ByteString
<1>2. IsVarint(e, Len(s))
  BY <1>1, EncodeIs
<1>3. e \in Seq(ByteSet) /\ Len(e) \in 1 .. 5 /\ Len(e) \in Nat
  BY <1>2 DEF IsVarint
<1>4. Coded(s) = e \o s
  BY DEF Coded
<1> HIDE DEF e
<1>5. /\ Coded(s) \in Seq(ByteSet) /\ Len(Coded(s)) = Len(e) + Len(s)
      /\ \A i \in 1 .. Len(e) + Len(s) :
            Coded(s)[i] = IF i <= Len(e) THEN e[i] ELSE s[i - Len(e)]
  BY <1>1, <1>3, <1>4, ConcatProperties
<1>6. ASSUME NEW i \in 1 .. Len(e) PROVE Coded(s)[i] = e[i]
  <2>1. i \in 1 .. Len(e) + Len(s) /\ i <= Len(e)
    BY ONLY i \in 1 .. Len(e), Len(e) \in Nat, Len(s) \in Nat, <1>1, <1>3
  <2>2. QED
    BY <1>5, <2>1
<1>7. ASSUME NEW i \in 1 .. Len(s) PROVE Coded(s)[Len(e) + i] = s[i]
  <2>1. Len(e) + i \in 1 .. Len(e) + Len(s) /\ ~(Len(e) + i <= Len(e)) /\ (Len(e) + i) - Len(e) = i
    BY <1>1, <1>3
  <2>2. QED
    BY <1>5, <2>1
<1>8. QED
  BY <1>1, <1>2, <1>3, <1>5, <1>6, <1>7 DEF e

\* What a reader finds in a buffer that begins with a coded string
LengthRead(c, s) ==
    LET n == Len(Coded(s)) IN
    /\ GetVarint32(c).ok /\ GetVarint32(c).value = Len(s)
    /\ Len(GetVarint32(c).rest) >= Len(s)
    /\ SubSeq(GetVarint32(c).rest, 1, Len(s)) = s
    /\ SubSeq(GetVarint32(c).rest, Len(s) + 1, Len(GetVarint32(c).rest)) = SubSeq(c, n + 1, Len(c))

LEMMA LengthBack ==
    ASSUME NEW s \in ByteString, NEW c \in Seq(ByteSet), Starts(c, Coded(s))
    PROVE  LengthRead(c, s)
<1> DEFINE e == EncodeVarint32(Len(s))
           k == Len(e)
           l == Len(s)
           r == SubSeq(c, k + 1, Len(c))
<1>1. /\ IsVarint(e, l) /\ s \in Seq(ByteSet) /\ l \in Nat /\ l \in 0 .. Limit - 1
      /\ k \in 1 .. 5 /\ k \in Nat /\ Len(Coded(s)) = k + l
      /\ \A i \in 1 .. k : Coded(s)[i] = e[i]
      /\ \A i \in 1 .. l : Coded(s)[k + i] = s[i]
  BY CodedIs
<1>2. Len(c) \in Nat /\ k + l <= Len(c) /\ \A i \in 1 .. k + l : c[i] = Coded(s)[i]
  BY <1>1, LenProperties DEF Starts
<1> HIDE DEF e, k, l
<1>3. k <= Len(c) /\ \A i \in 1 .. k : c[i] = e[i]
  BY <1>1, <1>2
<1>4. GetVarint32(c) = [ok |-> TRUE, value |-> l, rest |-> r]
  BY <1>1, <1>3, VarintBack DEF k
<1>5. /\ r \in Seq(ByteSet) /\ Len(r) = Len(c) - k
      /\ \A i \in 1 .. Len(r) : r[i] = c[k + i]
  <2>1. k + 1 \in Nat /\ k + 1 > 0
    BY <1>1
  <2>2. /\ r \in Seq(ByteSet)
        /\ Len(r) = IF k + 1 <= Len(c) THEN Len(c) - (k + 1) + 1 ELSE 0
        /\ \A i \in 1 .. Len(r) : r[i] = c[(k + 1) + i - 1]
    BY <1>2, <2>1, SubSeqOf
  <2> HIDE DEF r
  <2>3. Len(r) = Len(c) - k
    BY <1>1, <1>2, <1>3, <2>2
  <2>4. \A i \in 1 .. Len(r) : (k + 1) + i - 1 = k + i
    BY <1>1
  <2>5. QED
    BY <2>2, <2>3, <2>4
<1> HIDE DEF r
<1>6. Len(r) \in Nat /\ l <= Len(r)
  BY <1>1, <1>2, <1>5
<1>7. SubSeq(r, 1, l) = s
  <2> DEFINE u == SubSeq(r, 1, l)
  <2>1. /\ u \in Seq(ByteSet) /\ Len(u) = IF 1 <= l THEN l - 1 + 1 ELSE 0
        /\ \A i \in 1 .. Len(u) : u[i] = r[1 + i - 1]
    BY <1>1, <1>5, <1>6, SubSeqOf
  <2> HIDE DEF u
  <2>2. Len(u) = l
    BY <1>1, <2>1
  <2>3. ASSUME NEW i \in 1 .. l PROVE u[i] = s[i]
    <3>1. 1 + i - 1 = i /\ i \in 1 .. Len(r) /\ k + i \in 1 .. k + l
      BY <1>1, <1>6
    <3>2. u[i] = r[i] /\ r[i] = c[k + i] /\ c[k + i] = Coded(s)[k + i] /\ Coded(s)[k + i] = s[i]
      BY <1>1, <1>2, <1>5, <2>1, <2>2, <3>1
    <3>3. QED
      BY <3>2
  <2>4. u = s
    BY <1>1, <2>1, <2>2, <2>3, SeqEqual DEF l
  <2>5. QED
    BY <2>4 DEF u
<1>8. SubSeq(r, l + 1, Len(r)) = SubSeq(c, (k + l) + 1, Len(c))
  <2> DEFINE u == SubSeq(r, l + 1, Len(r))
             w == SubSeq(c, (k + l) + 1, Len(c))
  <2>1. /\ u \in Seq(ByteSet) /\ Len(u) = IF l + 1 <= Len(r) THEN Len(r) - (l + 1) + 1 ELSE 0
        /\ \A i \in 1 .. Len(u) : u[i] = r[(l + 1) + i - 1]
    <3>1. l + 1 \in Nat /\ l + 1 > 0
      BY <1>1
    <3>2. QED
      BY ONLY <1>5, <1>6, <3>1, SubSeqOf
  <2>2. /\ w \in Seq(ByteSet) /\ Len(w) = IF (k + l) + 1 <= Len(c) THEN Len(c) - ((k + l) + 1) + 1 ELSE 0
        /\ \A i \in 1 .. Len(w) : w[i] = c[((k + l) + 1) + i - 1]
    <3>1. (k + l) + 1 \in Nat /\ (k + l) + 1 > 0 /\ Len(c) \in Nat /\ Len(c) <= Len(c)
      BY <1>1, <1>2
    <3>2. QED
      BY ONLY c \in Seq(ByteSet), <3>1, SubSeqOf
  <2> HIDE DEF u, w
  <2>3. Len(u) = Len(c) - (k + l) /\ Len(w) = Len(u) /\ Len(u) \in Nat
    BY <1>1, <1>2, <1>5, <1>6, <2>1, <2>2
  <2>4. ASSUME NEW i \in 1 .. Len(u) PROVE u[i] = w[i]
    <3>1. /\ (l + 1) + i - 1 = l + i /\ ((k + l) + 1) + i - 1 = k + (l + i)
          /\ l + i \in 1 .. Len(r) /\ i \in 1 .. Len(w)
      <4>1. l \in Nat /\ k \in Nat /\ Len(c) \in Nat /\ Len(r) = Len(c) - k
        BY <1>1, <1>2, <1>5
      <4> HIDE DEF u, w
      <4>2. Len(u) = Len(c) - (k + l) /\ Len(w) = Len(u) /\ i \in 1 .. Len(u)
        BY <2>3
      <4>3. QED
        BY ONLY <4>1, <4>2
    <3>2. u[i] = r[l + i] /\ w[i] = c[k + (l + i)] /\ r[l + i] = c[k + (l + i)]
      BY <1>5, <2>1, <2>2, <3>1
    <3>3. QED
      BY <3>2
  <2>5. u = w
    BY <2>1, <2>2, <2>3, <2>4, SeqEqual
  <2>6. QED
    BY <2>5 DEF u, w
<1>9. QED
  BY <1>1, <1>4, <1>6, <1>7, <1>8 DEF LengthRead, l, k

LEMMA StringBack ==
    ASSUME NEW s \in ByteString, NEW c \in Seq(ByteSet), Starts(c, Coded(s))
    PROVE  GetLengthPrefixedString(c) =
              [ok |-> TRUE, input |-> SubSeq(c, Len(Coded(s)) + 1, Len(c)), result |-> s]
<1>1. LengthRead(c, s)
  BY LengthBack
<1>2. QED
  BY <1>1 DEF LengthRead, GetLengthPrefixedString

\* A string of which something is missing is not read.
LEMMA StringCut ==
    ASSUME NEW s \in ByteString, NEW c \in Seq(ByteSet), CutOf(c, Coded(s))
    PROVE  /\ GetLengthPrefixedString(c).ok = FALSE
           /\ GetLengthPrefixedString(c).input \in Seq(ByteSet)
           /\ Len(GetLengthPrefixedString(c).input) <= Len(c)
<1> DEFINE e == EncodeVarint32(Len(s))
           k == Len(e)
           l == Len(s)
<1>1. /\ IsVarint(e, l) /\ l \in Nat /\ l \in 0 .. Limit - 1
      /\ k \in 1 .. 5 /\ k \in Nat /\ Len(Coded(s)) = k + l
      /\ \A i \in 1 .. k : Coded(s)[i] = e[i]
  BY CodedIs
<1>2. Len(c) \in Nat /\ Len(c) < k + l /\ \A i \in 1 .. Len(c) : c[i] = Coded(s)[i]
  BY <1>1, LenProperties DEF CutOf
<1> HIDE DEF e, k, l
<1>3. CASE Len(c) < k
  <2>1. \A i \in 1 .. Len(c) : c[i] = e[i]
    BY <1>1, <1>2, <1>3
  <2>2. GetVarint32(c) = [ok |-> FALSE, value |-> 0, rest |-> c]
    BY <1>1, <1>3, <2>1, VarintCut DEF k
  <2>3. GetLengthPrefixedString(c) = [ok |-> FALSE, input |-> c, result |-> <<>>]
    BY <2>2 DEF GetLengthPrefixedString
  <2>4. QED
    BY <1>2, <2>3
<1>4. CASE ~(Len(c) < k)
  <2> DEFINE r == SubSeq(c, k + 1, Len(c))
  <2>1. k <= Len(c) /\ \A i \in 1 .. k : c[i] = e[i]
    BY <1>1, <1>2, <1>4
  <2>2. GetVarint32(c) = [ok |-> TRUE, value |-> l, rest |-> r]
    BY <1>1, <2>1, VarintBack DEF k
  <2>3. /\ r \in Seq(ByteSet)
        /\ Len(r) = IF k + 1 <= Len(c) THEN Len(c) - (k + 1) + 1 ELSE 0
    <3>1. k + 1 \in Nat /\ k + 1 > 0
      BY <1>1
    <3>2. QED
      BY <1>2, <3>1, SubSeqOf
  <2> HIDE DEF r
  <2>4. Len(r) < l /\ Len(r) <= Len(c) /\ Len(r) \in Nat
    BY <1>1, <1>2, <2>1, <2>3
  <2>5. ~(Len(r) >= l)
    BY <1>1, <2>4
  <2>6. GetLengthPrefixedString(c) = [ok |-> FALSE, input |-> r, result |-> <<>>]
    BY <2>2, <2>5 DEF GetLengthPrefixedString
  <2>7. QED
    BY <2>3, <2>4, <2>6
<1>5. QED
  BY <1>3, <1>4

-----------------------------------------------------------------------------
(* The buffer and its reader                                               *)

\* c is the coded strings ss one behind the other, the i-th of which ends at at[i].
Laid(c, ss, at) ==
    /\ at \in [0 .. Len(ss) -> 0 .. Len(c)]
    /\ at[0] = 0 /\ at[Len(ss)] = Len(c)
    /\ \A i \in 1 .. Len(ss) :
        /\ at[i] = at[i - 1] + Len(Coded(ss[i]))
        /\ \A j \in 1 .. Len(Coded(ss[i])) : c[at[i - 1] + j] = Coded(ss[i])[j]

Buffers == buf \in Seq(ByteSet) /\ strings \in Seq(ByteString) /\ input \in Seq(ByteSet)

\* The reader is behind a string of the buffer, and holds what follows up to the cut.
Reader(at) ==
    /\ Len(got) <= Len(strings) /\ got = SubSeq(strings, 1, Len(got))
    /\ Len(input) <= Len(buf) /\ at[Len(got)] <= cut
    /\ failed => Len(got) < Len(strings) /\ at[Len(got)] < cut /\ cut < at[Len(got) + 1]
    /\ ~failed => input = SubSeq(buf, at[Len(got)] + 1, cut)

\* The ghost says where the strings end.
Ended(at) == ends \in Seq(Nat) /\ Len(ends) = Len(strings) /\ \A i \in 1 .. Len(ends) : ends[i] = at[i]

CodingInv ==
    /\ Buffers /\ failed \in BOOLEAN /\ got \in Seq(ByteString)
    /\ \E at : /\ Laid(buf, strings, at) /\ Ended(at)
               /\ \/ cut = NotCut /\ input = <<>> /\ got = <<>> /\ ~failed
                  \/ cut \in 0 .. Len(buf) /\ Reader(at)

LEMMA StringIs == ASSUME NEW n \in Lengths PROVE String(n) \in ByteString
<1> DEFINE s == String(n)
<1>1. n \in Nat /\ n < Limit
  BY CodingAssumption, RadixIs
<1>2. ASSUME NEW i \in 1 .. n
      PROVE  (IF i = 1 THEN n % (2 * Radix) ELSE 2 * Radix - 1) \in ByteSet
  <2>1. 2 * Radix \in Nat \ {0}
    BY RadixIs
  <2>2. n % (2 * Radix) \in 0 .. 2 * Radix - 1
    BY <1>1, <2>1, Remainder
  <2>3. 2 * Radix - 1 \in 0 .. 2 * Radix - 1
    BY RadixIs
  <2>4. QED
    BY <2>2, <2>3 DEF ByteSet
<1>3. s \in [1 .. n -> ByteSet] /\ s \in Seq(ByteSet)
  <2>1. s \in [1 .. n -> ByteSet]
    BY <1>2 DEF String
  <2>2. QED
    BY <1>1, <2>1 DEF Seq
<1>4. Len(s) = n
  BY <1>1, <1>3, LenProperties
<1>5. QED
  BY <1>1, <1>3, <1>4 DEF ByteString

LEMMA AppendIs ==
    ASSUME NEW c \in Seq(ByteSet), NEW s \in ByteString
    PROVE  /\ AppendVarString(c, s) \in Seq(ByteSet)
           /\ Len(AppendVarString(c, s)) = Len(c) + Len(Coded(s))
           /\ \A i \in 1 .. Len(c) : AppendVarString(c, s)[i] = c[i]
           /\ \A i \in 1 .. Len(Coded(s)) : AppendVarString(c, s)[Len(c) + i] = Coded(s)[i]
<1> DEFINE d == Coded(s)
           e == EncodeVarint32(Len(s))
           w == AppendVarString(c, s)
<1>1. d \in Seq(ByteSet) /\ Len(d) \in Nat /\ Len(c) \in Nat
  BY CodedIs, LenProperties
<1>2. w = c \o d
  <2>1. s \in Seq(ByteSet) /\ e \in Seq(ByteSet)
    BY CodedIs DEF IsVarint
  <2> HIDE DEF e
  <2>2. (c \o e) \o s = c \o (e \o s)
    BY <2>1, ConcatAssociative
  <2>3. QED
    BY <2>2 DEF AppendVarString, Coded, e
<1> HIDE DEF d, w
<1>3. /\ w \in Seq(ByteSet) /\ Len(w) = Len(c) + Len(d)
      /\ \A i \in 1 .. Len(c) + Len(d) : w[i] = IF i <= Len(c) THEN c[i] ELSE d[i - Len(c)]
  BY <1>1, <1>2, ConcatProperties
<1>4. ASSUME NEW i \in 1 .. Len(c) PROVE w[i] = c[i]
  <2>1. i \in 1 .. Len(c) + Len(d) /\ i <= Len(c)
    BY ONLY i \in 1 .. Len(c), <1>1
  <2>2. QED
    BY <1>3, <2>1
<1>5. ASSUME NEW i \in 1 .. Len(d) PROVE w[Len(c) + i] = d[i]
  <2>1. Len(c) + i \in 1 .. Len(c) + Len(d) /\ ~(Len(c) + i <= Len(c)) /\ (Len(c) + i) - Len(c) = i
    BY ONLY i \in 1 .. Len(d), <1>1
  <2>2. QED
    BY <1>3, <2>1
<1>6. QED
  BY <1>3, <1>4, <1>5 DEF d, w

\* A string appended is a string more.
LEMMA LaidAppend ==
    ASSUME NEW c \in Seq(ByteSet), NEW ss \in Seq(ByteString), NEW at, Laid(c, ss, at),
           NEW s \in ByteString
    PROVE  \E to : /\ Laid(AppendVarString(c, s), Append(ss, s), to)
                   /\ \A i \in 0 .. Len(ss) : to[i] = at[i]
<1> DEFINE n == Len(ss)
           d == Coded(s)
           w == AppendVarString(c, s)
           t == Append(ss, s)
           to == [i \in 0 .. n + 1 |-> IF i = n + 1 THEN Len(c) + Len(d) ELSE at[i]]
<1>1. n \in Nat /\ Len(c) \in Nat /\ Len(d) \in Nat
  BY CodedIs, LenProperties
<1>2. /\ t \in Seq(ByteString) /\ Len(t) = n + 1 /\ t[n + 1] = s
      /\ \A i \in 1 .. n : t[i] = ss[i]
  BY AppendProperties
<1>3. /\ w \in Seq(ByteSet) /\ Len(w) = Len(c) + Len(d)
      /\ \A i \in 1 .. Len(c) : w[i] = c[i]
      /\ \A i \in 1 .. Len(d) : w[Len(c) + i] = d[i]
  BY AppendIs
<1>4. /\ at \in [0 .. n -> 0 .. Len(c)] /\ at[0] = 0 /\ at[n] = Len(c)
      /\ \A i \in 1 .. n : at[i] = at[i - 1] + Len(Coded(ss[i]))
      /\ \A i \in 1 .. n : \A j \in 1 .. Len(Coded(ss[i])) : c[at[i - 1] + j] = Coded(ss[i])[j]
  BY DEF Laid
<1>5. \A i \in 0 .. n : at[i] \in 0 .. Len(c)
  BY <1>4
<1> HIDE DEF n, d, w, t
<1>6. /\ \A i \in 0 .. n : to[i] = at[i]
      /\ to[n + 1] = Len(c) + Len(d)
  BY <1>1
<1>7. to \in [0 .. n + 1 -> 0 .. Len(w)]
  <2>1. ASSUME NEW i \in 0 .. n + 1
        PROVE  (IF i = n + 1 THEN Len(c) + Len(d) ELSE at[i]) \in 0 .. Len(w)
    <3>1. CASE i = n + 1
      BY <1>1, <1>3, <3>1
    <3>2. CASE i # n + 1
      <4>1. i \in 0 .. n
        BY <1>1, <3>2
      <4>2. at[i] \in 0 .. Len(c)
        BY <1>5, <4>1
      <4>3. QED
        BY <1>1, <1>3, <3>2, <4>2
    <3>3. QED
      BY <3>1, <3>2
  <2>2. QED
    BY <2>1
<1> HIDE DEF to
<1>8. to[0] = 0 /\ to[n + 1] = Len(w)
  BY <1>1, <1>3, <1>4, <1>6
<1>9. ASSUME NEW i \in 1 .. n + 1
      PROVE  /\ to[i] = to[i - 1] + Len(Coded(t[i]))
             /\ \A j \in 1 .. Len(Coded(t[i])) : w[to[i - 1] + j] = Coded(t[i])[j]
  <2>1. CASE i = n + 1
    <3>1. to[i] = Len(c) + Len(d) /\ to[i - 1] = Len(c) /\ Coded(t[i]) = d
      <4>1. i - 1 = n /\ n \in 0 .. n
        BY <1>1, <2>1
      <4>2. QED
        BY <1>2, <1>4, <1>6, <2>1, <4>1 DEF d
    <3>2. QED
      BY <1>3, <3>1
  <2>2. CASE i # n + 1
    <3>1. i \in 1 .. n /\ i \in 0 .. n /\ i - 1 \in 0 .. n
      BY <1>1, <2>2
    <3>2. to[i] = at[i] /\ to[i - 1] = at[i - 1] /\ t[i] = ss[i]
      BY <1>2, <1>6, <3>1
    <3>3. at[i] = at[i - 1] + Len(Coded(ss[i]))
      BY <1>4, <3>1
    <3>4. ASSUME NEW j \in 1 .. Len(Coded(ss[i])) PROVE w[at[i - 1] + j] = Coded(ss[i])[j]
      <4>1. ss[i] \in ByteString
        BY <3>1, ElementOfSeq DEF n
      <4>2. Len(Coded(ss[i])) \in Nat
        BY <4>1, CodedIs, LenProperties
      <4>3. at[i] \in 0 .. Len(c) /\ at[i - 1] \in 0 .. Len(c)
        BY <1>5, <3>1
      <4>4. at[i - 1] + j \in 1 .. Len(c)
        BY ONLY <1>1, <3>3, <4>2, <4>3, j \in 1 .. Len(Coded(ss[i]))
      <4>5. QED
        BY <1>3, <1>4, <3>1, <4>4
    <3>5. QED
      BY <3>2, <3>3, <3>4
  <2>3. QED
    BY <2>1, <2>2
<1>10. Laid(w, t, to)
  BY <1>2, <1>7, <1>8, <1>9 DEF Laid
<1>11. \A i \in 0 .. Len(ss) : to[i] = at[i]
  BY <1>6 DEF n
<1>12. QED
  BY <1>10, <1>11 DEF w, t

\* Sequences of the same length with the same elements, cut out of another
LEMMA SubSeqTwice ==
    ASSUME NEW c \in Seq(ByteSet), NEW a \in Nat, NEW m \in Nat, NEW n \in Nat,
           a + m <= n, n <= Len(c)
    PROVE  SubSeq(SubSeq(c, a + 1, n), m + 1, Len(SubSeq(c, a + 1, n))) = SubSeq(c, (a + m) + 1, n)
<1> DEFINE u == SubSeq(c, a + 1, n)
           v == SubSeq(u, m + 1, Len(u))
           w == SubSeq(c, (a + m) + 1, n)
<1>1. a + 1 \in Nat /\ a + 1 > 0 /\ m + 1 \in Nat /\ m + 1 > 0 /\ (a + m) + 1 \in Nat /\ (a + m) + 1 > 0
  OBVIOUS
<1>2. /\ u \in Seq(ByteSet) /\ Len(u) = IF a + 1 <= n THEN n - (a + 1) + 1 ELSE 0
      /\ \A i \in 1 .. Len(u) : u[i] = c[(a + 1) + i - 1]
  BY ONLY c \in Seq(ByteSet), n \in Nat, n <= Len(c), <1>1, SubSeqOf
<1>3. /\ w \in Seq(ByteSet) /\ Len(w) = IF (a + m) + 1 <= n THEN n - ((a + m) + 1) + 1 ELSE 0
      /\ \A i \in 1 .. Len(w) : w[i] = c[((a + m) + 1) + i - 1]
  BY ONLY c \in Seq(ByteSet), n \in Nat, n <= Len(c), <1>1, SubSeqOf
<1> HIDE DEF u, w
<1>4. Len(u) = n - a /\ Len(u) \in Nat /\ Len(w) = n - (a + m)
  BY <1>2, <1>3
<1>5. /\ v \in Seq(ByteSet) /\ Len(v) = IF m + 1 <= Len(u) THEN Len(u) - (m + 1) + 1 ELSE 0
      /\ \A i \in 1 .. Len(v) : v[i] = u[(m + 1) + i - 1]
  BY <1>1, <1>2, <1>4, SubSeqOf
<1> HIDE DEF v
<1>6. Len(v) = Len(w)
  BY <1>4, <1>5
<1>7. ASSUME NEW i \in 1 .. Len(v) PROVE v[i] = w[i]
  <2>1. /\ (m + 1) + i - 1 = m + i /\ m + i \in 1 .. Len(u)
        /\ (a + 1) + (m + i) - 1 = ((a + m) + 1) + i - 1
        /\ i \in 1 .. Len(w)
    BY ONLY <1>4, <1>6, i \in 1 .. Len(v), a \in Nat, m \in Nat, n \in Nat, a + m <= n
  <2>2. v[i] = u[m + i]
    BY <1>5, <2>1
  <2>3. u[m + i] = c[(a + 1) + (m + i) - 1]
    BY <1>2, <2>1
  <2>4. w[i] = c[((a + m) + 1) + i - 1]
    BY <1>3, <2>1
  <2>5. QED
    BY <2>1, <2>2, <2>3, <2>4
<1>8. v = w
  BY <1>2, <1>3, <1>5, <1>6, <1>7, SeqEqual
<1>9. QED
  BY <1>8 DEF v, w, u

LEMMA TakeNext ==
    ASSUME NEW ss \in Seq(ByteString), NEW g \in Nat, g < Len(ss)
    PROVE  /\ Append(SubSeq(ss, 1, g), ss[g + 1]) = SubSeq(ss, 1, g + 1)
           /\ SubSeq(ss, 1, g) \in Seq(ByteString) /\ Len(SubSeq(ss, 1, g)) = g
           /\ SubSeq(ss, 1, g + 1) \in Seq(ByteString) /\ Len(SubSeq(ss, 1, g + 1)) = g + 1
<1> DEFINE u == SubSeq(ss, 1, g)
           w == SubSeq(ss, 1, g + 1)
           x == Append(u, ss[g + 1])
<1>1. Len(ss) \in Nat /\ \A i \in 1 .. Len(ss) : ss[i] \in ByteString
  BY LenProperties, ElementOfSeq
<1>2. (\A i \in 1 .. g : ss[i] \in ByteString) /\ (\A i \in 1 .. g + 1 : ss[i] \in ByteString)
  BY <1>1
<1>3. /\ u \in Seq(ByteString) /\ Len(u) = IF 1 <= g THEN g - 1 + 1 ELSE 0
      /\ \A i \in 1 .. g - 1 + 1 : u[i] = ss[1 + i - 1]
  BY <1>2, SubSeqProperties
<1>4. /\ w \in Seq(ByteString) /\ Len(w) = IF 1 <= g + 1 THEN (g + 1) - 1 + 1 ELSE 0
      /\ \A i \in 1 .. (g + 1) - 1 + 1 : w[i] = ss[1 + i - 1]
  <2>1. g + 1 \in Int /\ 1 \in Int
    OBVIOUS
  <2>2. QED
    BY <1>2, <2>1, SubSeqProperties
<1> HIDE DEF u, w
<1>5. Len(u) = g /\ Len(w) = g + 1 /\ ss[g + 1] \in ByteString
  BY <1>1, <1>3, <1>4
<1>6. /\ \A i \in 1 .. g : u[i] = ss[i]
      /\ \A i \in 1 .. g + 1 : w[i] = ss[i]
  <2>1. ASSUME NEW i \in 1 .. g PROVE u[i] = ss[i]
    <3>1. i \in 1 .. g - 1 + 1 /\ 1 + i - 1 = i
      OBVIOUS
    <3>2. QED
      BY <1>3, <3>1
  <2>2. ASSUME NEW i \in 1 .. g + 1 PROVE w[i] = ss[i]
    <3>1. i \in 1 .. (g + 1) - 1 + 1 /\ 1 + i - 1 = i
      OBVIOUS
    <3>2. QED
      BY <1>4, <3>1
  <2>3. QED
    BY <2>1, <2>2
<1>7. /\ x \in Seq(ByteString) /\ Len(x) = g + 1 /\ x[g + 1] = ss[g + 1]
      /\ \A i \in 1 .. g : x[i] = u[i]
  BY <1>3, <1>5, AppendProperties
<1> HIDE DEF x
<1>8. ASSUME NEW i \in 1 .. g + 1 PROVE x[i] = w[i]
  <2>1. CASE i = g + 1
    BY <1>6, <1>7, <2>1
  <2>2. CASE i # g + 1
    <3>1. i \in 1 .. g
      BY <2>2
    <3>2. QED
      BY <1>6, <1>7, <3>1
  <2>3. QED
    BY <2>1, <2>2
<1>9. x = w
  BY <1>4, <1>5, <1>7, <1>8, SeqEqual
<1>10. QED
  BY <1>3, <1>4, <1>5, <1>9 DEF x, u, w

\* The reader holds the front of the next string, or the string and what follows.
LEMMA NextString ==
    ASSUME Buffers, got \in Seq(ByteString), NEW at, Laid(buf, strings, at),
           cut \in 0 .. Len(buf), Reader(at), ~failed, input # <<>>
    PROVE  LET g == Len(got)
               d == Coded(strings[g + 1])
           IN  /\ g \in Nat /\ g < Len(strings) /\ strings[g + 1] \in ByteString
               /\ at[g] \in Nat /\ at[g + 1] \in 0 .. Len(buf)
               /\ at[g + 1] = at[g] + Len(d) /\ Len(d) \in Nat
               /\ Len(input) \in Nat /\ Len(input) = cut - at[g]
               /\ Len(d) <= Len(input) => Starts(input, d)
               /\ ~(Len(d) <= Len(input)) => CutOf(input, d)
<1> DEFINE g == Len(got)
           n == Len(strings)
           d == Coded(strings[g + 1])
<1>1. n \in Nat /\ Len(buf) \in Nat /\ cut \in Nat /\ cut <= Len(buf)
  BY LenProperties DEF Buffers
<1>2. /\ at \in [0 .. n -> 0 .. Len(buf)] /\ at[n] = Len(buf)
      /\ \A i \in 1 .. n : /\ at[i] = at[i - 1] + Len(Coded(strings[i]))
                           /\ \A j \in 1 .. Len(Coded(strings[i])) : buf[at[i - 1] + j] = Coded(strings[i])[j]
  BY DEF Laid
<1>3. g <= n /\ at[g] <= cut /\ input = SubSeq(buf, at[g] + 1, cut)
  BY DEF Reader
<1>4. g \in Nat
  <2>1. got \in Seq(ByteString)
    OBVIOUS
  <2>2. QED
    BY <2>1, LenProperties
<1> HIDE DEF g, n, d
<1>5. at[g] \in Nat
  <2>1. g \in 0 .. n
    BY <1>1, <1>3, <1>4
  <2>2. at[g] \in 0 .. Len(buf)
    BY <1>2, <2>1
  <2>3. QED
    BY <1>1, <2>2
<1>6. /\ input \in Seq(ByteSet) /\ Len(input) = cut - at[g]
      /\ \A i \in 1 .. Len(input) : input[i] = buf[at[g] + i]
  <2> DEFINE x == SubSeq(buf, at[g] + 1, cut)
  <2>1. at[g] + 1 \in Nat /\ at[g] + 1 > 0
    BY <1>5
  <2>2. /\ x \in Seq(ByteSet) /\ Len(x) = IF at[g] + 1 <= cut THEN cut - (at[g] + 1) + 1 ELSE 0
        /\ \A i \in 1 .. Len(x) : x[i] = buf[(at[g] + 1) + i - 1]
    BY <1>1, <2>1, SubSeqOf DEF Buffers
  <2> HIDE DEF x
  <2>3. Len(x) = cut - at[g]
    BY <1>1, <1>3, <1>5, <2>2
  <2>4. \A i \in 1 .. Len(x) : (at[g] + 1) + i - 1 = at[g] + i
    BY <1>5
  <2>5. QED
    BY <1>3, <2>2, <2>3, <2>4 DEF x
<1>7. Len(input) \in Nat /\ Len(input) # 0
  BY <1>6, EmptySeq
<1>8. g < n
  <2>1. SUFFICES ASSUME g = n PROVE FALSE
    BY <1>1, <1>3, <1>4
  <2>2. at[g] = Len(buf)
    BY <1>2, <2>1
  <2>3. QED
    BY <1>1, <1>6, <1>7, <2>2
<1>9. g + 1 \in 1 .. n /\ g + 1 \in 0 .. n /\ (g + 1) - 1 = g
  BY <1>1, <1>4, <1>8
<1>10. strings[g + 1] \in ByteString
  BY <1>9, ElementOfSeq DEF Buffers, n
<1>11. at[g + 1] = at[g] + Len(d) /\ \A j \in 1 .. Len(d) : buf[at[g] + j] = d[j]
  BY <1>2, <1>9 DEF d
<1>12. at[g + 1] \in 0 .. Len(buf)
  BY <1>2, <1>9
<1>13. Len(d) \in Nat
  BY <1>10, CodedIs, LenProperties DEF d
<1>14. ASSUME Len(d) <= Len(input) PROVE Starts(input, d)
  <2>1. \A i \in 1 .. Len(d) : i \in 1 .. Len(input)
    BY <1>7, <1>13, <1>14
  <2>2. \A i \in 1 .. Len(d) : input[i] = d[i]
    BY <1>6, <1>11, <2>1
  <2>3. QED
    BY <1>14, <2>2 DEF Starts
<1>15. ASSUME ~(Len(d) <= Len(input)) PROVE CutOf(input, d)
  <2>1. Len(input) < Len(d) /\ \A i \in 1 .. Len(input) : i \in 1 .. Len(d)
    BY <1>7, <1>13, <1>15
  <2>2. \A i \in 1 .. Len(input) : input[i] = d[i]
    BY <1>6, <1>11, <2>1
  <2>3. QED
    BY <2>1, <2>2 DEF CutOf
<1>16. QED
  BY <1>4, <1>5, <1>6, <1>7, <1>8, <1>10, <1>11, <1>12, <1>13, <1>14, <1>15 DEF g, n, d

LEMMA CodingStart == CodingInit => CodingInv
<1> SUFFICES ASSUME CodingInit PROVE CodingInv
  OBVIOUS
<1>1. Buffers /\ failed \in BOOLEAN /\ got \in Seq(ByteString)
  BY EmptySeq DEF Buffers, CodingInit
<1> DEFINE at == [i \in 0 .. 0 |-> 0]
<1>2. Laid(buf, strings, at)
  <2>1. Len(buf) = 0 /\ Len(strings) = 0
    BY DEF CodingInit
  <2>2. at \in [0 .. 0 -> 0 .. 0] /\ at[0] = 0
    OBVIOUS
  <2> HIDE DEF at
  <2>3. QED
    BY <2>1, <2>2 DEF Laid
<1> HIDE DEF at
<1>3. Ended(at)
  BY EmptySeq DEF Ended, CodingInit
<1>4. QED
  BY <1>1, <1>2, <1>3 DEF CodingInv, CodingInit

LEMMA AppendKeeps ==
    ASSUME CodingInv, NEW n \in Lengths, AppendString(n)
    PROVE  CodingInv'
<1>1. String(n) \in ByteString
  BY StringIs
<1>2. PICK at : Laid(buf, strings, at) /\ Ended(at)
  BY DEF CodingInv
<1>3. PICK to : /\ Laid(AppendVarString(buf, String(n)), Append(strings, String(n)), to)
                /\ \A i \in 0 .. Len(strings) : to[i] = at[i]
  BY <1>1, <1>2, LaidAppend DEF CodingInv, Buffers
<1>4. Laid(buf', strings', to)
  BY <1>3 DEF AppendString
<1>5. buf' \in Seq(ByteSet) /\ strings' \in Seq(ByteString)
  <2>1. AppendVarString(buf, String(n)) \in Seq(ByteSet)
    BY <1>1, AppendIs DEF CodingInv, Buffers
  <2>2. Append(strings, String(n)) \in Seq(ByteString)
    BY <1>1, AppendProperties DEF CodingInv, Buffers
  <2>3. QED
    BY <2>1, <2>2 DEF AppendString
<1>6. Ended(to)'
  <2> DEFINE m == Len(strings)
             l == Len(buf')
  <2>1. ends \in Seq(Nat) /\ Len(ends) = m /\ \A i \in 1 .. m : ends[i] = at[i]
    BY <1>2 DEF Ended
  <2>2. m \in Nat /\ l \in Nat
    BY <1>5, LenProperties DEF CodingInv, Buffers
  <2>3. Len(strings') = m + 1 /\ to[m + 1] = l
    <3>1. Len(strings') = m + 1
      BY <1>1, AppendProperties DEF AppendString, CodingInv, Buffers
    <3>2. to[Len(strings')] = l
      BY <1>4 DEF Laid
    <3>3. QED
      BY <3>1, <3>2
  <2>4. ends' = Append(ends, l)
    BY DEF AppendString
  <2> HIDE DEF m, l
  <2>5. /\ ends' \in Seq(Nat) /\ Len(ends') = m + 1 /\ ends'[m + 1] = l
        /\ \A i \in 1 .. m : ends'[i] = ends[i]
    BY <2>1, <2>2, <2>4, AppendProperties
  <2>6. ASSUME NEW i \in 1 .. m + 1 PROVE ends'[i] = to[i]
    <3>1. CASE i = m + 1
      BY <2>3, <2>5, <3>1
    <3>2. CASE i # m + 1
      <4>1. i \in 1 .. m /\ i \in 0 .. m
        BY <2>2, <3>2
      <4>2. to[i] = at[i]
        BY <1>3, <4>1 DEF m
      <4>3. QED
        BY <2>1, <2>5, <4>1, <4>2
    <3>3. QED
      BY <3>1, <3>2
  <2>7. QED
    BY <2>3, <2>5, <2>6 DEF Ended
<1>7. cut = NotCut /\ input = <<>> /\ got = <<>> /\ ~failed
  BY DEF CodingInv, AppendString, NotCut, Reader
<1>8. UNCHANGED <<cut, input, got, failed>>
  BY DEF AppendString
<1>9. QED
  BY <1>4, <1>5, <1>6, <1>7, <1>8 DEF CodingInv, Buffers

LEMMA OpenKeeps ==
    ASSUME CodingInv, NEW n \in 0 .. Len(buf), Open(n)
    PROVE  CodingInv'
<1>1. PICK at : Laid(buf, strings, at) /\ Ended(at)
  BY DEF CodingInv
<1>2. cut = NotCut /\ input = <<>> /\ got = <<>> /\ ~failed
  BY DEF CodingInv, Open, NotCut, Reader
<1>3. buf' = buf /\ strings' = strings /\ got' = <<>> /\ ~failed' /\ cut' = n
      /\ input' = SubSeq(buf, 1, n) /\ failed' = failed
  BY <1>2 DEF Open
<1>4. Len(buf) \in Nat /\ n \in Nat /\ n <= Len(buf) /\ Len(strings) \in Nat
  BY LenProperties DEF CodingInv, Buffers
<1>5. input' \in Seq(ByteSet) /\ Len(input') <= Len(buf)
  <2>1. /\ SubSeq(buf, 1, n) \in Seq(ByteSet)
        /\ Len(SubSeq(buf, 1, n)) = IF 1 <= n THEN n - 1 + 1 ELSE 0
    BY <1>4, SubSeqOf DEF CodingInv, Buffers
  <2>2. QED
    BY <1>3, <1>4, <2>1
<1>6. SubSeq(strings, 1, 0) = <<>>
  OBVIOUS
<1>7. Len(got') = 0
  BY <1>3
<1>8. at[0] = 0
  BY <1>1 DEF Laid
<1>9. Reader(at)'
  <2>1. Reader(at)' <=> /\ Len(got') <= Len(strings') /\ got' = SubSeq(strings', 1, Len(got'))
                        /\ Len(input') <= Len(buf') /\ at[Len(got')] <= cut'
                        /\ failed' => /\ Len(got') < Len(strings') /\ at[Len(got')] < cut'
                                      /\ cut' < at[Len(got') + 1]
                        /\ ~failed' => input' = SubSeq(buf', at[Len(got')] + 1, cut')
    BY DEF Reader
  <2>2. 0 + 1 = 1
    OBVIOUS
  <2>3. QED
    BY <1>3, <1>4, <1>5, <1>6, <1>7, <1>8, <2>1, <2>2
<1>10. Laid(buf', strings', at) /\ Ended(at)'
  BY <1>1, <1>3 DEF Open, Ended
<1>11. QED
  BY <1>2, <1>3, <1>5, <1>9, <1>10 DEF CodingInv, Buffers

LEMMA GetKeeps ==
    ASSUME CodingInv, Get
    PROVE  CodingInv'
<1>1. PICK at : Laid(buf, strings, at) /\ Ended(at) /\ cut \in 0 .. Len(buf) /\ Reader(at)
  BY DEF CodingInv, Get
<1> DEFINE g == Len(got)
           s == strings[g + 1]
           d == Coded(s)
           r == GetLengthPrefixedString(input)
<1>2. Buffers /\ ~failed /\ input # <<>> /\ got \in Seq(ByteString)
  BY DEF CodingInv, Get
<1>3. /\ g \in Nat /\ g < Len(strings) /\ s \in ByteString
      /\ at[g] \in Nat /\ at[g + 1] \in 0 .. Len(buf)
      /\ at[g + 1] = at[g] + Len(d) /\ Len(d) \in Nat
      /\ Len(input) \in Nat /\ Len(input) = cut - at[g]
      /\ Len(d) <= Len(input) => Starts(input, d)
      /\ ~(Len(d) <= Len(input)) => CutOf(input, d)
  BY <1>1, <1>2, NextString
<1>4. /\ input' = r.input /\ failed' = ~r.ok
      /\ got' = IF r.ok THEN Append(got, r.result) ELSE got
      /\ buf' = buf /\ strings' = strings /\ cut' = cut
  BY DEF Get
<1>5. /\ Len(buf) \in Nat /\ Len(strings) \in Nat /\ cut \in Nat /\ cut <= Len(buf)
      /\ input \in Seq(ByteSet) /\ got \in Seq(ByteString) /\ Len(input) <= Len(buf)
      /\ got = SubSeq(strings, 1, g) /\ input = SubSeq(buf, at[g] + 1, cut)
  BY <1>1, <1>2, LenProperties DEF CodingInv, Buffers, Reader
<1>6. Reader(at)' <=> /\ Len(got') <= Len(strings') /\ got' = SubSeq(strings', 1, Len(got'))
                      /\ Len(input') <= Len(buf') /\ at[Len(got')] <= cut'
                      /\ failed' => /\ Len(got') < Len(strings') /\ at[Len(got')] < cut'
                                    /\ cut' < at[Len(got') + 1]
                      /\ ~failed' => input' = SubSeq(buf', at[Len(got')] + 1, cut')
  BY DEF Reader
<1> HIDE DEF g, d, r
<1>7. /\ Reader(at)' /\ input' \in Seq(ByteSet) /\ got' \in Seq(ByteString) /\ failed' \in BOOLEAN
  <2>1. CASE Len(d) <= Len(input)
    <3>1. r = [ok |-> TRUE, input |-> SubSeq(input, Len(d) + 1, Len(input)), result |-> s]
      <4>1. Starts(input, d)
        BY <1>3, <2>1
      <4>2. QED
        BY <1>3, <1>5, <4>1, StringBack DEF r, d
    <3>2. input' = SubSeq(input, Len(d) + 1, Len(input)) /\ ~failed' /\ got' = Append(got, s)
          /\ failed' \in BOOLEAN
      BY <1>4, <3>1
    <3>3. got' = SubSeq(strings, 1, g + 1) /\ Len(got') = g + 1 /\ got' \in Seq(ByteString)
      <4>1. /\ Append(SubSeq(strings, 1, g), strings[g + 1]) = SubSeq(strings, 1, g + 1)
            /\ SubSeq(strings, 1, g + 1) \in Seq(ByteString) /\ Len(SubSeq(strings, 1, g + 1)) = g + 1
        <5>1. strings \in Seq(ByteString) /\ g \in Nat /\ g < Len(strings)
          BY <1>2, <1>3 DEF Buffers
        <5>2. QED
          BY ONLY <5>1, TakeNext
      <4>2. got = SubSeq(strings, 1, g) /\ got' = Append(got, strings[g + 1])
        BY <1>5, <3>2
      <4>3. got' = SubSeq(strings, 1, g + 1)
        BY ONLY <4>1, <4>2
      <4>4. QED
        BY ONLY <4>1, <4>3
    <3>4. at[g + 1] <= cut /\ at[g] + Len(d) <= cut
      <4>1. /\ at[g] \in Nat /\ Len(d) \in Nat /\ cut \in Nat /\ at[g + 1] = at[g] + Len(d)
            /\ Len(d) <= cut - at[g]
        BY <1>3, <1>5, <2>1
      <4>2. QED
        BY ONLY <4>1
    <3>5. input' = SubSeq(buf, at[g + 1] + 1, cut)
      <4>1. SubSeq(SubSeq(buf, at[g] + 1, cut), Len(d) + 1, Len(SubSeq(buf, at[g] + 1, cut)))
              = SubSeq(buf, (at[g] + Len(d)) + 1, cut)
        <5>1. at[g] \in Nat /\ Len(d) \in Nat /\ cut \in Nat /\ at[g] + Len(d) <= cut /\ cut <= Len(buf)
              /\ buf \in Seq(ByteSet)
          BY <1>2, <1>3, <1>5, <3>4 DEF Buffers
        <5> DEFINE x == at[g]
                   y == Len(d)
        <5> HIDE DEF x, y
        <5>2. x \in Nat /\ y \in Nat /\ cut \in Nat /\ x + y <= cut /\ cut <= Len(buf)
              /\ buf \in Seq(ByteSet)
          BY <5>1 DEF x, y
        <5>3. SubSeq(SubSeq(buf, x + 1, cut), y + 1, Len(SubSeq(buf, x + 1, cut)))
                = SubSeq(buf, (x + y) + 1, cut)
          BY ONLY <5>2, SubSeqTwice
        <5>4. QED
          BY <5>3 DEF x, y
      <4>2. at[g + 1] = at[g] + Len(d) /\ input = SubSeq(buf, at[g] + 1, cut)
        BY <1>3, <1>5
      <4>3. input' = SubSeq(input, Len(d) + 1, Len(input))
        BY <3>2
      <4>4. input' = SubSeq(buf, (at[g] + Len(d)) + 1, cut)
        BY ONLY <4>1, <4>2, <4>3
      <4>5. (at[g] + Len(d)) + 1 = at[g + 1] + 1
        BY ONLY <4>2
      <4>6. QED
        BY ONLY <4>4, <4>5
    <3>6. input' \in Seq(ByteSet) /\ Len(input') <= Len(buf)
      <4> DEFINE x == SubSeq(buf, at[g + 1] + 1, cut)
      <4>1. at[g + 1] + 1 \in Nat /\ at[g + 1] + 1 > 0
        <5>1. at[g + 1] \in 0 .. Len(buf) /\ Len(buf) \in Nat
          BY <1>3, <1>5
        <5>2. QED
          BY ONLY <5>1
      <4>2. x \in Seq(ByteSet) /\ Len(x) = IF at[g + 1] + 1 <= cut THEN cut - (at[g + 1] + 1) + 1 ELSE 0
        BY <1>2, <1>5, <4>1, SubSeqOf DEF Buffers
      <4> HIDE DEF x
      <4>3. at[g + 1] \in Nat
        BY <1>3
      <4>4. Len(x) <= Len(buf)
        BY ONLY <1>5, <4>2, <4>3
      <4>5. QED
        BY <3>5, <4>2, <4>4 DEF x
    <3>7. g + 1 <= Len(strings)
      BY <1>3, <1>5
    <3>8. QED
      BY <1>4, <1>6, <3>2, <3>3, <3>4, <3>5, <3>6, <3>7
  <2>2. CASE ~(Len(d) <= Len(input))
    <3>1. r.ok = FALSE /\ r.input \in Seq(ByteSet) /\ Len(r.input) <= Len(input)
      <4>1. CutOf(input, d)
        BY <1>3, <2>2
      <4>2. QED
        <5>1. s \in ByteString /\ input \in Seq(ByteSet) /\ CutOf(input, Coded(s))
          BY <1>3, <1>5, <4>1 DEF d
        <5>2. QED
          BY ONLY <5>1, StringCut DEF r
    <3>2. input' = r.input /\ failed' = TRUE /\ got' = got
      BY <1>4, <3>1
    <3>3. at[g] < cut /\ cut < at[g + 1]
      <4>1. Len(input) # 0
        BY <1>2, <1>5, EmptySeq
      <4>2. /\ at[g] \in Nat /\ Len(d) \in Nat /\ cut \in Nat /\ at[g + 1] = at[g] + Len(d)
            /\ Len(input) = cut - at[g] /\ Len(input) \in Nat /\ Len(input) # 0
            /\ ~(Len(d) <= Len(input))
        BY <1>3, <1>5, <2>2, <4>1
      <4>3. QED
        BY ONLY <4>2
    <3>4. Len(input') <= Len(buf)
      <4>1. Len(r.input) \in Nat
        BY <3>1, LenProperties
      <4>2. Len(r.input) <= Len(input) /\ Len(input) <= Len(buf) /\ Len(input) \in Nat /\ Len(buf) \in Nat
        BY <1>3, <1>5, <3>1
      <4>3. Len(r.input) <= Len(buf)
        BY ONLY <4>1, <4>2
      <4>4. QED
        BY <3>2, <4>3
    <3>5. Len(got') = g /\ g < Len(strings) /\ g <= Len(strings)
      BY <1>3, <1>5, <3>2 DEF g
    <3>6. at[g] <= cut
      BY <1>3, <1>5, <3>3
    <3>7. QED
      BY <1>4, <1>5, <1>6, <3>1, <3>2, <3>3, <3>4, <3>5, <3>6
  <2>3. QED
    BY <2>1, <2>2
<1>8. Laid(buf', strings', at) /\ Ended(at)' /\ cut' \in 0 .. Len(buf')
  BY <1>1, <1>4 DEF Get, Ended
<1>9. Buffers'
  BY <1>2, <1>4, <1>7 DEF Buffers
<1>10. QED
  BY <1>7, <1>8, <1>9 DEF CodingInv

LEMMA CodingKeeps == CodingInv /\ [CodingNext]_codingVars => CodingInv'
<1> SUFFICES ASSUME CodingInv, [CodingNext]_codingVars PROVE CodingInv'
  OBVIOUS
<1>1. ASSUME NEW n \in Lengths, AppendString(n) PROVE CodingInv'
  BY <1>1, AppendKeeps
<1>2. ASSUME NEW n \in 0 .. Len(buf), Open(n) PROVE CodingInv'
  BY <1>2, OpenKeeps
<1>3. CASE Get
  BY <1>3, GetKeeps
<1>4. CASE UNCHANGED codingVars
  BY <1>4 DEF codingVars, CodingInv, Buffers, Reader, Ended
<1>5. QED
  BY <1>1, <1>2, <1>3, <1>4 DEF CodingNext

\* The ends of the strings grow.
LEMMA EndsGrow ==
    ASSUME NEW c \in Seq(ByteSet), NEW ss \in Seq(ByteString), NEW at, Laid(c, ss, at),
           NEW i \in 0 .. Len(ss), NEW j \in 0 .. Len(ss), i < j
    PROVE  at[i] < at[j]
<1> DEFINE n == Len(ss)
           bad == {k \in 0 .. n : i < k /\ ~(at[i] < at[k])}
<1>1. n \in Nat /\ Len(c) \in Nat
  BY LenProperties
<1>2. ASSUME NEW k \in 1 .. n
      PROVE  at[k - 1] < at[k] /\ at[k] \in Nat /\ at[k - 1] \in Nat
  <2>1. ss[k] \in ByteString
    BY <1>2, ElementOfSeq
  <2> DEFINE s == ss[k]
             l == Len(EncodeVarint32(Len(s)))
  <2>2. l \in 1 .. 5 /\ Len(s) \in Nat /\ Len(Coded(s)) = l + Len(s)
    BY <2>1, CodedIs
  <2>3. at[k] = at[k - 1] + Len(Coded(s))
    BY <1>2 DEF Laid
  <2>4. k \in 0 .. n /\ k - 1 \in 0 .. n
    BY <1>1
  <2>5. at[k] \in 0 .. Len(c) /\ at[k - 1] \in 0 .. Len(c)
    BY <2>4 DEF Laid
  <2> HIDE DEF s, l
  <2>6. Len(Coded(s)) \in Nat \ {0}
    BY ONLY <2>2
  <2>7. at[k] \in Nat /\ at[k - 1] \in Nat
    BY <1>1, <2>5
  <2>8. at[k - 1] < at[k]
    BY ONLY <2>3, <2>6, <2>7
  <2>9. QED
    BY <2>7, <2>8
<1> HIDE DEF n
<1>3. SUFFICES ASSUME bad # {} PROVE FALSE
  BY DEF n
<1>4. bad \subseteq Nat
  BY <1>1
<1>5. PICK k \in bad : \A m \in bad : k <= m
  BY <1>3, <1>4, LeastNumber
<1>6. /\ k \in 1 .. n /\ k - 1 \in 0 .. n /\ i <= k - 1 /\ ~(at[i] < at[k]) /\ k - 1 \notin bad
      /\ i \in Nat /\ k \in Nat
  BY <1>1, <1>5 DEF n
<1>7. at[k - 1] < at[k] /\ at[k] \in Nat /\ at[k - 1] \in Nat
  BY <1>2, <1>6
<1>8. CASE i = k - 1
  BY <1>6, <1>7, <1>8
<1>9. CASE i # k - 1
  <2>1. at[i] < at[k - 1]
    BY <1>6, <1>9
  <2>2. at[i] \in Nat
    <3>1. at[i] \in 0 .. Len(c)
      BY DEF Laid
    <3>2. QED
      BY <1>1, <3>1
  <2>3. QED
    BY <1>6, <1>7, <2>1, <2>2
<1>10. QED
  BY <1>8, <1>9

LEMMA WholeStrings == CodingInv => CodingTypeOK /\ GetsWholeStrings
<1> SUFFICES ASSUME CodingInv PROVE CodingTypeOK /\ GetsWholeStrings
  OBVIOUS
<1>1. PICK at : /\ Laid(buf, strings, at) /\ Ended(at)
                /\ \/ cut = NotCut /\ input = <<>> /\ got = <<>> /\ ~failed
                   \/ cut \in 0 .. Len(buf) /\ Reader(at)
  BY DEF CodingInv
<1>2. Len(buf) \in Nat /\ Len(strings) \in Nat /\ Buffers
  BY LenProperties DEF CodingInv, Buffers
<1>3. \A i \in 1 .. Len(buf) : buf[i] \in 0 .. 2 * Radix - 1
  BY <1>2, ElementOfSeq DEF Buffers, ByteSet
<1>4. CASE cut = NotCut /\ input = <<>> /\ got = <<>> /\ ~failed
  <2>1. Len(got) = 0 /\ Len(input) = 0 /\ SubSeq(strings, 1, 0) = <<>>
    BY <1>4
  <2>2. QED
    BY <1>2, <1>3, <1>4, <2>1 DEF CodingTypeOK, GetsWholeStrings, Done
<1>5. CASE cut \in 0 .. Len(buf) /\ Reader(at)
  <2> DEFINE g == Len(got)
             n == Len(strings)
  <2>1. /\ got = SubSeq(strings, 1, g) /\ g <= n /\ Len(input) <= Len(buf) /\ at[g] <= cut
        /\ failed => g < n /\ at[g] < cut /\ cut < at[g + 1]
        /\ ~failed => input = SubSeq(buf, at[g] + 1, cut)
    BY <1>5 DEF Reader
  <2>2. g \in Nat /\ n \in Nat /\ g \in 0 .. n /\ cut \in Nat /\ cut <= Len(buf)
    <3>1. g \in Nat
      BY LenProperties DEF CodingInv
    <3>2. QED
      BY <1>2, <1>5, <2>1, <3>1
  <2>3. \A i \in 1 .. n : ends[i] = at[i]
    BY <1>1 DEF Ended
  <2>4. \A i \in 0 .. n : at[i] \in Nat
    BY <1>1, <1>2 DEF Laid
  <2>5. at[0] = 0
    BY <1>1 DEF Laid
  <2>6. \A i, j \in 0 .. n : i < j => at[i] < at[j]
    BY <1>1, <1>2, EndsGrow DEF Buffers
  <2> HIDE DEF g, n
  <2>7. ASSUME NEW i \in 1 .. g PROVE ends[i] <= cut
    <3>1. i \in 1 .. n /\ i \in 0 .. n /\ (i = g \/ i < g)
      BY <2>2
    <3>2. at[i] <= at[g] /\ at[i] \in Nat /\ at[g] \in Nat
      BY <2>2, <2>4, <2>6, <3>1
    <3>3. QED
      BY <2>1, <2>2, <2>3, <3>1, <3>2
  <2>8. ASSUME Done
        PROVE  /\ \A i \in 1 .. n : ends[i] <= cut => i <= g
               /\ failed <=> cut # 0 /\ \A i \in 1 .. n : cut # ends[i]
    <3>1. CASE failed
      <4>1. g + 1 \in 0 .. n /\ at[g] \in Nat /\ at[g + 1] \in Nat /\ at[g] < cut /\ cut < at[g + 1]
        BY <2>1, <2>2, <2>4, <3>1
      <4>2. ASSUME NEW i \in 1 .. n
            PROVE  (i <= g => ends[i] < cut) /\ (i > g => ends[i] > cut)
        <5>1. i \in 0 .. n /\ ends[i] = at[i] /\ at[i] \in Nat
          BY <2>2, <2>3, <2>4
        <5>2. i <= g => at[i] <= at[g]
          BY <2>2, <2>6, <4>1, <5>1
        <5>3. i > g => at[g + 1] <= at[i]
          <6>1. i > g => i = g + 1 \/ g + 1 < i
            BY <2>2
          <6>2. QED
            BY <2>6, <4>1, <5>1, <6>1
        <5>4. QED
          BY <2>2, <4>1, <5>1, <5>2, <5>3
      <4>3. \A i \in 1 .. n : ends[i] <= cut => i <= g
        BY <2>2, <2>3, <2>4, <4>2
      <4>4. cut # 0 /\ \A i \in 1 .. n : cut # ends[i]
        <5>1. cut # 0
          BY <2>2, <4>1
        <5>2. ASSUME NEW i \in 1 .. n PROVE cut # ends[i]
          <6>1. ends[i] \in Nat /\ (i <= g \/ i > g)
            BY <2>2, <2>3, <2>4
          <6>2. QED
            BY <2>2, <4>2, <6>1
        <5>3. QED
          BY <5>1, <5>2
      <4>5. QED
        BY <3>1, <4>3, <4>4
    <3>2. CASE ~failed
      <4>1. at[g] = cut
        <5> DEFINE x == SubSeq(buf, at[g] + 1, cut)
        <5>1. at[g] \in Nat /\ at[g] + 1 \in Nat /\ at[g] + 1 > 0
          BY <2>2, <2>4
        <5>2. Len(x) = IF at[g] + 1 <= cut THEN cut - (at[g] + 1) + 1 ELSE 0
          BY <1>2, <2>2, <5>1, SubSeqOf DEF Buffers
        <5>3. x = <<>>
          BY <2>1, <2>8, <3>2 DEF Done
        <5> HIDE DEF x
        <5>4. Len(x) = 0
          BY <5>3
        <5> DEFINE a == at[g]
                   l == Len(x)
        <5>5. a <= cut /\ a \in Nat /\ cut \in Nat
          BY <2>1, <2>2, <5>1
        <5>6. l = IF a + 1 <= cut THEN cut - (a + 1) + 1 ELSE 0
          BY <5>2
        <5>7. l = 0
          BY <5>4
        <5> HIDE DEF a, l
        <5>8. a = cut
          BY ONLY <5>5, <5>6, <5>7
        <5>9. QED
          BY <5>8 DEF a
      <4>2. ASSUME NEW i \in 1 .. n, ends[i] <= cut PROVE i <= g
        <5>1. i \in 0 .. n /\ at[i] <= at[g] /\ at[i] \in Nat /\ at[g] \in Nat
          BY <2>2, <2>3, <2>4, <4>1, <4>2
        <5>2. ~(g < i)
          BY <2>2, <2>6, <5>1
        <5>3. QED
          BY <2>2, <5>2
      <4>3. cut = 0 \/ \E i \in 1 .. n : cut = ends[i]
        <5>1. g # 0 => g \in 1 .. n
          BY <2>2
        <5>2. QED
          BY <2>3, <2>5, <4>1, <5>1
      <4>4. QED
        BY <3>2, <4>2, <4>3
    <3>3. QED
      BY <3>1, <3>2 DEF CodingInv
  <2>9. QED
    BY <1>3, <2>1, <2>7, <2>8 DEF CodingTypeOK, GetsWholeStrings, g, n
<1>6. QED
  BY <1>1, <1>4, <1>5

-----------------------------------------------------------------------------
(* Entries of the memtable                                                 *)

\* The range of eight bytes
Wide == ByteBase * ByteBase * ByteBase * ByteBase * ByteBase * ByteBase * ByteBase * ByteBase

LEMMA BaseIs ==
    /\ ByteBase \in Nat \ {0} /\ ByteBase \in Nat /\ ByteBase > 2
    /\ ByteSet = 0 .. ByteBase - 1
BY RadixIs DEF ByteBase, ByteSet

\* What was written in eight bytes is read from them.
LEMMA FixedBack ==
    ASSUME NEW v \in Nat, v < Wide
    PROVE  /\ EncodeFixed64(v) \in Seq(ByteSet) /\ Len(EncodeFixed64(v)) = 8
           /\ DecodeFixed64(EncodeFixed64(v)) = v
<1> DEFINE B == ByteBase
           s == Shifts(v, B, 8)
           d == EncodeFixed64(v)
           p2 == B * B
           p3 == p2 * B
           p4 == p3 * B
           p5 == p4 * B
           p6 == p5 * B
           p7 == p6 * B
<1>1. B \in Nat \ {0} /\ B \in Nat
  BY BaseIs
<1>2. \A i \in 1 .. 8 : s[i] \in Nat
  BY <1>1, ShiftsNat
<1>3. \A i \in 1 .. 8 : s[i] = IF i = 1 THEN v ELSE s[i - 1] \div B
  BY ShiftsAre
<1>4. d = [i \in 1 .. 8 |-> s[i] % B]
  BY DEF EncodeFixed64
<1>5. Wide = p7 * B
  BY DEF Wide
<1>6. DecodeFixed64(d) = Joined(d, B, 8)
  BY DEF DecodeFixed64
<1> HIDE DEF B, d
<1>7. d \in [1 .. 8 -> ByteSet]
  <2>1. ASSUME NEW i \in 1 .. 8 PROVE s[i] % B \in ByteSet
    <3>1. s[i] \in Nat
      BY <1>2
    <3> HIDE DEF s
    <3>2. s[i] % B \in 0 .. B - 1
      BY <1>1, <3>1, Remainder
    <3>3. QED
      BY <3>2, BaseIs DEF B
  <2>2. QED
    BY <1>4, <2>1
<1>8. d \in Seq(ByteSet) /\ Len(d) = 8
  <2>1. d \in Seq(ByteSet)
    <3>1. \A n \in Nat : [1 .. n -> ByteSet] \subseteq Seq(ByteSet)
      BY DEF Seq
    <3>2. 8 \in Nat
      OBVIOUS
    <3>3. QED
      BY ONLY <1>7, <3>1, <3>2
  <2>2. QED
    BY <1>7, <2>1, LenProperties
<1> HIDE DEF s
<1>9. /\ s[1] = v /\ s[2] = s[1] \div B /\ s[3] = s[2] \div B /\ s[4] = s[3] \div B
      /\ s[5] = s[4] \div B /\ s[6] = s[5] \div B /\ s[7] = s[6] \div B /\ s[8] = s[7] \div B
      /\ s[1] \in Nat /\ s[2] \in Nat /\ s[3] \in Nat /\ s[4] \in Nat
      /\ s[5] \in Nat /\ s[6] \in Nat /\ s[7] \in Nat /\ s[8] \in Nat
  BY <1>2, <1>3
<1>10. p2 \in Nat /\ p3 \in Nat /\ p4 \in Nat /\ p5 \in Nat /\ p6 \in Nat /\ p7 \in Nat
  <2>1. p2 \in Nat
    BY <1>1
  <2> HIDE DEF p2
  <2>2. p3 \in Nat
    BY <1>1, <2>1
  <2> HIDE DEF p3
  <2>3. p4 \in Nat
    BY <1>1, <2>2
  <2> HIDE DEF p4
  <2>4. p5 \in Nat
    BY <1>1, <2>3
  <2> HIDE DEF p5
  <2>5. p6 \in Nat
    BY <1>1, <2>4
  <2> HIDE DEF p6
  <2>6. p7 \in Nat
    BY <1>1, <2>5
  <2>7. QED
    BY <2>1, <2>2, <2>3, <2>4, <2>5, <2>6
<1>11. ASSUME NEW a \in Nat, NEW x \in Nat, a < x * B PROVE a \div B < x
  <2>1. x * B = B * x
    BY <1>1
  <2>2. QED
    BY <1>1, <1>11, <2>1, DivLess
<1>12. p3 = p2 * B /\ p4 = p3 * B /\ p5 = p4 * B /\ p6 = p5 * B /\ p7 = p6 * B /\ p2 = B * B
  OBVIOUS
<1> HIDE DEF p2, p3, p4, p5, p6, p7
<1>13. s[2] < p7
  BY ONLY <1>5, <1>9, <1>10, <1>11, v < Wide
<1>14. s[3] < p6
  BY ONLY <1>9, <1>10, <1>11, <1>12, <1>13
<1>15. s[4] < p5
  BY ONLY <1>9, <1>10, <1>11, <1>12, <1>14
<1>16. s[5] < p4
  BY ONLY <1>9, <1>10, <1>11, <1>12, <1>15
<1>17. s[6] < p3
  BY ONLY <1>9, <1>10, <1>11, <1>12, <1>16
<1>18. s[7] < p2
  BY ONLY <1>9, <1>10, <1>11, <1>12, <1>17
<1>19. s[8] < B
  BY ONLY <1>1, <1>9, <1>11, <1>12, <1>18
<1>20. s[8] % B = s[8]
  BY ONLY <1>1, <1>9, <1>19, SmallRemainder
<1>21. Joined(d, B, 8) = v
  <2> DEFINE n == 8
  <2>1. \A i \in 1 .. n : i < n => d[i] = Shifts(v, B, n)[i] % B
    BY <1>4 DEF s
  <2>2. d[n] = Shifts(v, B, n)[n]
    BY <1>4, <1>20 DEF s
  <2>3. v \in Nat /\ n \in Nat /\ n \in 1 .. n
    OBVIOUS
  <2> HIDE DEF n
  <2>4. Joined(d, B, n) = v
    BY ONLY <1>1, <2>1, <2>2, <2>3, DigitsJoin
  <2>5. QED
    BY <2>4 DEF n
<1>22. QED
  BY <1>6, <1>8, <1>21 DEF d

\* What a record of the memtable is made of
Record ==
    [key : {k \in ByteString : Len(k) + 8 < Limit}, seq : Seqs, type : {TypeDelete, TypePut},
     value : ByteString]

TagOfRecord(r) == Tag(r.seq, r.type)
KeyOfRecord(r) == InternalKey(r.key, r.seq, r.type)
EntryOf(r)     == EntryBytes(r.seq, r.type, r.key, r.value)

LEMMA TagIs ==
    ASSUME NEW q \in Seqs, NEW t \in {TypeDelete, TypePut}
    PROVE  /\ q \in Nat /\ t \in Nat
           /\ Tag(q, t) \in Nat /\ Tag(q, t) < Wide
           /\ Tag(q, t) \div ByteBase = q /\ Tag(q, t) % ByteBase = t
<1> DEFINE B == ByteBase
           m == B * B * B * B * B * B * B
           a == q * B
           c == m * B
<1>1. B \in Nat \ {0} /\ B \in Nat /\ B > 2
  BY BaseIs
<1>2. m \in Nat
  <2>1. B * B \in Nat
    BY <1>1
  <2>2. B * B * B \in Nat
    BY <1>1, <2>1
  <2>3. B * B * B * B \in Nat
    BY <1>1, <2>2
  <2>4. B * B * B * B * B \in Nat
    BY <1>1, <2>3
  <2>5. B * B * B * B * B * B \in Nat
    BY <1>1, <2>4
  <2>6. QED
    BY <1>1, <2>5
<1>3. Wide = c
  BY DEF Wide
<1>4. q \in 0 .. m - 1
  BY FormatAssumption
<1>5. t \in Nat /\ t <= 1
  BY DEF TypeDelete, TypePut
<1> HIDE DEF m
<1>6. q \in Nat /\ q + 1 <= m
  BY <1>2, <1>4
<1>7. a \in Nat /\ c \in Nat /\ a + B <= c
  <2>1. a \in Nat /\ c \in Nat
    BY <1>1, <1>2, <1>6
  <2>2. (m - (q + 1)) * B >= 0 /\ (m - (q + 1)) * B = c - (a + B)
    BY <1>1, <1>2, <1>6
  <2> DEFINE x == (m - (q + 1)) * B
  <2>3. x \in Int
    BY <1>1, <1>2, <1>6
  <2>4. x >= 0 /\ x = c - (a + B)
    BY <2>2
  <2> HIDE DEF x, a, c
  <2>5. QED
    BY <1>1, <2>1, <2>3, <2>4
<1>8. a + t < c /\ a + t \in Nat
  <2> HIDE DEF a, c
  <2>1. QED
    BY <1>1, <1>5, <1>7
<1>9. Tag(q, t) = a + t
  BY DEF Tag
<1>10. Tag(q, t) \div B = q /\ Tag(q, t) % B = t
  <2>1. B \in Nat \ {0} /\ q \in Nat /\ t \in 0 .. B - 1
    BY <1>1, <1>5, <1>6
  <2>2. (B * q + t) \div B = q /\ (B * q + t) % B = t
    BY <2>1, QuotientIs
  <2>3. a = B * q
    BY <1>1, <1>6
  <2>4. QED
    BY <1>9, <2>2, <2>3
<1>11. QED
  BY <1>3, <1>5, <1>6, <1>8, <1>9, <1>10

\* The order of the tags is that of the numbers, then that of the types.
LEMMA TagOrder ==
    ASSUME NEW q \in Seqs, NEW t \in {TypeDelete, TypePut},
           NEW p \in Seqs, NEW u \in {TypeDelete, TypePut}
    PROVE  /\ Tag(q, t) < Tag(p, u) <=> q < p \/ (q = p /\ t < u)
           /\ Tag(q, t) = Tag(p, u) <=> q = p /\ t = u
<1> DEFINE B == ByteBase
           a == q * B
           c == p * B
<1>1. B \in Nat /\ B > 2
  BY BaseIs
<1>2. q \in Nat /\ p \in Nat /\ t \in Nat /\ u \in Nat /\ t <= 1 /\ u <= 1
  <2>1. q \in Nat /\ t \in Nat
    BY TagIs
  <2>2. p \in Nat /\ u \in Nat
    BY TagIs
  <2>3. QED
    BY <2>1, <2>2 DEF TypeDelete, TypePut
<1>3. Tag(q, t) = a + t /\ Tag(p, u) = c + u
  BY DEF Tag
<1>4. a \in Nat /\ c \in Nat
  BY <1>1, <1>2
<1>5. q < p => a + B <= c
  <2> DEFINE x == (p - (q + 1)) * B
  <2>1. SUFFICES ASSUME q < p PROVE a + B <= c
    OBVIOUS
  <2>2. x \in Int /\ x >= 0 /\ x = c - (a + B)
    BY <1>1, <1>2, <2>1
  <2> HIDE DEF x, a, c
  <2>3. QED
    BY <1>1, <1>4, <2>2
<1>6. p < q => c + B <= a
  <2> DEFINE x == (q - (p + 1)) * B
  <2>1. SUFFICES ASSUME p < q PROVE c + B <= a
    OBVIOUS
  <2>2. x \in Int /\ x >= 0 /\ x = a - (c + B)
    BY <1>1, <1>2, <2>1
  <2> HIDE DEF x, a, c
  <2>3. QED
    BY <1>1, <1>4, <2>2
<1>7. q = p => a = c
  OBVIOUS
<1> HIDE DEF a, c, B
<1>8. QED
  BY <1>1, <1>2, <1>3, <1>4, <1>5, <1>6, <1>7

-----------------------------------------------------------------------------
(* The order of strings                                                    *)

LEMMA StringLessIrreflexive == ASSUME NEW a \in Seq(ByteSet) PROVE ~StringLess(a, a)
<1>1. Len(a) \in Nat
  BY LenProperties
<1>2. \A i \in 1 .. Len(a) : a[i] \in Nat
  BY ElementOfSeq, RadixIs DEF ByteSet
<1>3. QED
  BY <1>1, <1>2 DEF StringLess

LEMMA StringLessTotal ==
    ASSUME NEW a \in Seq(ByteSet), NEW c \in Seq(ByteSet), a # c
    PROVE  StringLess(a, c) \/ StringLess(c, a)
<1> DEFINE D == {i \in 1 .. Len(a) : i <= Len(c) /\ a[i] # c[i]}
<1>1. Len(a) \in Nat /\ Len(c) \in Nat
  BY LenProperties
<1>2. CASE D # {}
  <2>1. PICK i \in D : \A j \in D : i <= j
    <3>1. D \subseteq Nat
      OBVIOUS
    <3>2. QED
      BY <1>2, <3>1, LeastNumber
  <2>2. i \in Nat /\ i \in 1 .. Len(a) /\ i \in 1 .. Len(c) /\ a[i] # c[i]
    BY <1>1, <2>1
  <2>3. a[i] < c[i] \/ c[i] < a[i]
    <3>1. a[i] \in ByteSet /\ c[i] \in ByteSet
      BY <2>2, ElementOfSeq
    <3>2. QED
      BY <2>2, <3>1, RadixIs DEF ByteSet
  <2>4. SubSeq(a, 1, i - 1) = SubSeq(c, 1, i - 1)
    <3> DEFINE u == SubSeq(a, 1, i - 1)
               w == SubSeq(c, 1, i - 1)
    <3>1. i - 1 \in Nat /\ i - 1 <= Len(a) /\ i - 1 <= Len(c)
      BY <1>1, <2>2
    <3>2. /\ u \in Seq(ByteSet) /\ Len(u) = IF 1 <= i - 1 THEN (i - 1) - 1 + 1 ELSE 0
          /\ \A j \in 1 .. Len(u) : u[j] = a[1 + j - 1]
      BY <3>1, SubSeqOf
    <3>3. /\ w \in Seq(ByteSet) /\ Len(w) = IF 1 <= i - 1 THEN (i - 1) - 1 + 1 ELSE 0
          /\ \A j \in 1 .. Len(w) : w[j] = c[1 + j - 1]
      BY <3>1, SubSeqOf
    <3> HIDE DEF u, w
    <3>4. Len(u) = i - 1 /\ Len(w) = i - 1
      BY <2>2, <3>2, <3>3
    <3>5. ASSUME NEW j \in 1 .. Len(u) PROVE u[j] = w[j]
      <4>1. 1 + j - 1 = j /\ j \in 1 .. Len(a) /\ j <= Len(c) /\ ~(i <= j) /\ j \in 1 .. Len(w)
        BY ONLY <1>1, <2>2, <3>4, j \in 1 .. Len(u)
      <4>2. j \notin D
        BY <2>1, <4>1
      <4>3. a[j] = c[j]
        BY <4>1, <4>2
      <4>4. QED
        BY <3>2, <3>3, <4>1, <4>3
    <3>6. u = w
      BY <3>2, <3>3, <3>4, <3>5, SeqEqual
    <3>7. QED
      BY <3>6 DEF u, w
  <2>5. i <= Len(a) /\ i <= Len(c)
    BY <1>1, <2>2
  <2> HIDE DEF D
  <2>6. QED
    BY <2>2, <2>3, <2>4, <2>5 DEF StringLess
<1>3. ASSUME NEW x \in Seq(ByteSet), NEW y \in Seq(ByteSet), Len(x) \in Nat, Len(y) \in Nat,
             \A i \in 1 .. Len(x) : i <= Len(y) => x[i] = y[i], Len(x) < Len(y)
      PROVE  StringLess(x, y)
  <2> DEFINE u == SubSeq(y, 1, Len(x))
  <2>1. /\ u \in Seq(ByteSet) /\ Len(u) = IF 1 <= Len(x) THEN Len(x) - 1 + 1 ELSE 0
        /\ \A j \in 1 .. Len(u) : u[j] = y[1 + j - 1]
    BY <1>3, SubSeqOf
  <2> HIDE DEF u
  <2>2. Len(u) = Len(x)
    BY <1>3, <2>1
  <2>3. ASSUME NEW j \in 1 .. Len(u) PROVE u[j] = x[j]
    <3>1. 1 + j - 1 = j /\ j \in 1 .. Len(x) /\ j <= Len(y)
      BY <1>3, <2>2
    <3>2. QED
      BY <1>3, <2>1, <3>1
  <2>4. u = x
    BY <2>1, <2>2, <2>3, SeqEqual
  <2>5. QED
    BY <1>3, <2>4 DEF StringLess, u
<1>4. CASE D = {}
  <2>1. \A i \in 1 .. Len(a) : i <= Len(c) => a[i] = c[i]
    BY <1>4
  <2>2. \A i \in 1 .. Len(c) : i <= Len(a) => c[i] = a[i]
    <3>1. SUFFICES ASSUME NEW i \in 1 .. Len(c), i <= Len(a) PROVE c[i] = a[i]
      OBVIOUS
    <3>2. i \in 1 .. Len(a) /\ i <= Len(c)
      BY <1>1, <3>1
    <3>3. QED
      BY <2>1, <3>2
  <2> HIDE DEF D
  <2>3. CASE Len(a) < Len(c)
    BY <1>1, <1>3, <2>1, <2>3
  <2>4. CASE Len(c) < Len(a)
    BY <1>1, <1>3, <2>2, <2>4
  <2>5. CASE Len(a) = Len(c)
    <3>1. \A i \in 1 .. Len(a) : a[i] = c[i]
      BY <1>1, <2>1, <2>5
    <3>2. a = c
      BY <2>5, <3>1, SeqEqual
    <3>3. QED
      BY <3>2
  <2>6. QED
    BY <1>1, <2>3, <2>4, <2>5
<1>5. QED
  BY <1>2, <1>4

-----------------------------------------------------------------------------
(* Internal keys and entries, written and read                             *)

LEMMA KeyParts ==
    ASSUME NEW k \in ByteString, Len(k) + 8 < Limit, NEW q \in Seqs, NEW t \in {TypeDelete, TypePut}
    PROVE  /\ InternalKey(k, q, t) \in ByteString /\ Len(InternalKey(k, q, t)) = Len(k) + 8
           /\ UserKey(InternalKey(k, q, t)) = k
           /\ TagOf(InternalKey(k, q, t)) = Tag(q, t)
<1> DEFINE f == EncodeFixed64(Tag(q, t))
           x == InternalKey(k, q, t)
           n == Len(k)
<1>1. f \in Seq(ByteSet) /\ Len(f) = 8 /\ DecodeFixed64(f) = Tag(q, t)
  BY TagIs, FixedBack
<1>2. k \in Seq(ByteSet) /\ n \in Nat
  BY LenProperties DEF ByteString
<1>3. x = k \o f
  BY DEF InternalKey
<1>4. UserKey(x) = SubSeq(x, 1, Len(x) - 8) /\ TagOf(x) = DecodeFixed64(SubSeq(x, Len(x) - 7, Len(x)))
  BY DEF UserKey, TagOf
<1> HIDE DEF f, x
<1>5. /\ x \in Seq(ByteSet) /\ Len(x) = n + 8
      /\ \A i \in 1 .. n + 8 : x[i] = IF i <= n THEN k[i] ELSE f[i - n]
  <2>1. /\ k \o f \in Seq(ByteSet) /\ Len(k \o f) = Len(k) + Len(f)
        /\ \A i \in 1 .. Len(k) + Len(f) : (k \o f)[i] = IF i <= Len(k) THEN k[i] ELSE f[i - Len(k)]
    BY <1>1, <1>2, ConcatProperties
  <2>2. QED
    BY ONLY <1>1, <1>3, <2>1 DEF n
<1>6. x \in ByteString
  BY <1>5 DEF ByteString
<1> HIDE DEF n
<1>7. SubSeq(x, 1, Len(x) - 8) = k
  <2> DEFINE u == SubSeq(x, 1, n)
  <2>1. Len(x) - 8 = n /\ n <= Len(x)
    BY <1>2, <1>5
  <2>2. /\ u \in Seq(ByteSet) /\ Len(u) = IF 1 <= n THEN n - 1 + 1 ELSE 0
        /\ \A j \in 1 .. Len(u) : u[j] = x[1 + j - 1]
    BY <1>2, <1>5, <2>1, SubSeqOf
  <2> HIDE DEF u
  <2>3. Len(u) = n
    BY <1>2, <2>2
  <2>4. ASSUME NEW j \in 1 .. Len(u) PROVE u[j] = k[j]
    <3>1. 1 + j - 1 = j /\ j \in 1 .. n + 8 /\ j <= n
      BY ONLY <1>2, <2>3, j \in 1 .. Len(u)
    <3>2. QED
      BY <1>5, <2>2, <3>1
  <2>5. u = k
    BY <1>2, <2>2, <2>3, <2>4, SeqEqual DEF n
  <2>6. QED
    BY <2>1, <2>5 DEF u
<1>8. SubSeq(x, Len(x) - 7, Len(x)) = f
  <2> DEFINE u == SubSeq(x, n + 1, n + 8)
  <2>1. Len(x) - 7 = n + 1 /\ n + 8 = Len(x) /\ n + 1 \in Nat /\ n + 1 > 0 /\ n + 8 \in Nat /\ n + 8 <= Len(x)
    BY <1>2, <1>5
  <2>2. /\ u \in Seq(ByteSet) /\ Len(u) = IF n + 1 <= n + 8 THEN (n + 8) - (n + 1) + 1 ELSE 0
        /\ \A j \in 1 .. Len(u) : u[j] = x[(n + 1) + j - 1]
    BY ONLY <1>5, <2>1, SubSeqOf
  <2> HIDE DEF u
  <2>3. Len(u) = 8
    BY <1>2, <2>2
  <2>4. ASSUME NEW j \in 1 .. Len(u) PROVE u[j] = f[j]
    <3>1. (n + 1) + j - 1 = n + j /\ n + j \in 1 .. n + 8 /\ ~(n + j <= n) /\ (n + j) - n = j
      BY ONLY <1>2, <2>3, j \in 1 .. Len(u)
    <3>2. u[j] = x[n + j] /\ x[n + j] = f[(n + j) - n]
      BY <1>5, <2>2, <3>1
    <3>3. QED
      BY <3>1, <3>2
  <2>5. u = f
    BY <1>1, <2>2, <2>3, <2>4, SeqEqual
  <2>6. QED
    BY <2>1, <2>5 DEF u
<1>9. QED
  BY <1>1, <1>4, <1>5, <1>6, <1>7, <1>8 DEF x, n

LEMMA CodedAlone == ASSUME NEW s \in ByteString PROVE AppendVarString(<<>>, s) = Coded(s)
<1> DEFINE e == EncodeVarint32(Len(s))
<1>1. e \in Seq(ByteSet)
  BY CodedIs DEF IsVarint
<1> HIDE DEF e
<1>2. <<>> \o e = e
  BY <1>1, ConcatEmptySeq
<1>3. QED
  BY <1>2 DEF AppendVarString, Coded, e

LEMMA CodedRead ==
    ASSUME NEW s \in ByteString, NEW c \in Seq(ByteSet), Starts(c, Coded(s))
    PROVE  /\ GetVarString(c) = s
           /\ LET v == GetVarint32(c)
              IN  SubSeq(v.rest, v.value + 1, Len(v.rest)) = SubSeq(c, Len(Coded(s)) + 1, Len(c))
<1>1. LengthRead(c, s)
  BY LengthBack
<1>2. QED
  BY <1>1 DEF LengthRead, GetVarString

LEMMA StartsItself == ASSUME NEW d \in Seq(ByteSet) PROVE Starts(d, d)
BY LenProperties DEF Starts

LEMMA CodedLength ==
    ASSUME NEW s \in ByteString
    PROVE  /\ Len(Coded(s)) = VarintLength(Len(s)) + Len(s)
           /\ VarintLength(Len(s)) \in 1 .. 5 /\ Len(s) \in Nat
<1>1. /\ Len(s) \in 0 .. Limit - 1 /\ Len(s) \in Nat
      /\ Len(EncodeVarint32(Len(s))) \in 1 .. 5
      /\ Len(Coded(s)) = Len(EncodeVarint32(Len(s))) + Len(s)
  BY CodedIs
<1>2. Len(EncodeVarint32(Len(s))) = Branch(Len(s)) /\ VarintLength(Len(s)) = Branch(Len(s))
  BY <1>1, EncodeIs, VarintLengthIs
<1>3. QED
  BY <1>1, <1>2

LEMMA EntryIs ==
    ASSUME NEW r \in Record
    PROVE  /\ EntryOf(r) \in Seq(ByteSet)
           /\ GetVarString(EntryOf(r)) = KeyOfRecord(r)
           /\ ValueOf(EntryOf(r)) = r.value
           /\ Len(EntryOf(r)) = EncodedLen(r.key, r.value)
<1> DEFINE k == KeyOfRecord(r)
           e == EntryOf(r)
           c == Coded(k)
           d == Coded(r.value)
<1>1. k \in ByteString /\ Len(k) = Len(r.key) + 8 /\ r.value \in ByteString /\ r.key \in ByteString
  BY KeyParts DEF Record, KeyOfRecord
<1>2. e = AppendVarString(c, r.value)
  BY <1>1, CodedAlone DEF EntryOf, EntryBytes, KeyOfRecord
<1>3. c \in Seq(ByteSet) /\ Len(c) \in Nat /\ d \in Seq(ByteSet) /\ Len(d) \in Nat
  BY <1>1, CodedIs, LenProperties
<1> HIDE DEF k, e
<1>4. /\ e \in Seq(ByteSet) /\ Len(e) = Len(c) + Len(d)
      /\ \A i \in 1 .. Len(c) : e[i] = c[i]
      /\ \A i \in 1 .. Len(d) : e[Len(c) + i] = d[i]
  BY <1>1, <1>2, <1>3, AppendIs
<1>5. Starts(e, c)
  <2> HIDE DEF c, d
  <2>1. QED
    BY <1>3, <1>4 DEF Starts
<1>6. GetVarString(e) = k
  BY <1>1, <1>4, <1>5, CodedRead
<1>7. SubSeq(e, Len(c) + 1, Len(e)) = d
  <2> HIDE DEF c, d
  <2> DEFINE u == SubSeq(e, Len(c) + 1, Len(e))
  <2>1. Len(c) + 1 \in Nat /\ Len(c) + 1 > 0 /\ Len(e) \in Nat
    BY <1>3, <1>4
  <2>2. /\ u \in Seq(ByteSet) /\ Len(u) = IF Len(c) + 1 <= Len(e) THEN Len(e) - (Len(c) + 1) + 1 ELSE 0
        /\ \A j \in 1 .. Len(u) : u[j] = e[(Len(c) + 1) + j - 1]
    BY <1>4, <2>1, SubSeqOf
  <2> HIDE DEF u
  <2>3. Len(u) = Len(d)
    BY <1>3, <1>4, <2>2
  <2>4. ASSUME NEW j \in 1 .. Len(u) PROVE u[j] = d[j]
    <3>1. (Len(c) + 1) + j - 1 = Len(c) + j
      BY <1>3
    <3>2. QED
      BY <1>4, <2>2, <2>3, <3>1
  <2>5. u = d
    BY <1>3, <2>2, <2>3, <2>4, SeqEqual
  <2>6. QED
    BY <2>5 DEF u
<1>8. ValueOf(e) = r.value
  <2> DEFINE v == GetVarint32(e)
  <2>1. SubSeq(v.rest, v.value + 1, Len(v.rest)) = d
    BY <1>1, <1>4, <1>5, <1>7, CodedRead
  <2>2. ValueOf(e) = GetVarString(d)
    BY <2>1 DEF ValueOf
  <2>3. GetVarString(d) = r.value
    BY <1>1, <1>3, StartsItself, CodedRead
  <2>4. QED
    BY <2>2, <2>3
<1>9. Len(e) = EncodedLen(r.key, r.value)
  <2> DEFINE x == VarintLength(Len(r.key) + 8)
             y == VarintLength(Len(r.value))
             m == Len(r.key)
             n == Len(r.value)
  <2>1. Len(c) = x + (m + 8) /\ x \in Nat
    <3>1. Len(c) = VarintLength(Len(k)) + Len(k) /\ VarintLength(Len(k)) \in 1 .. 5
      BY ONLY <1>1, CodedLength
    <3>2. Len(k) = m + 8 /\ VarintLength(Len(k)) = x
      BY <1>1
    <3> DEFINE l == Len(k)
               z == Len(c)
    <3>3. z = x + l /\ l = m + 8 /\ x \in 1 .. 5
      BY ONLY <3>1, <3>2
    <3> HIDE DEF x, l, m, z
    <3>4. z = x + (m + 8) /\ x \in Nat
      BY ONLY <3>3
    <3>5. QED
      BY ONLY <3>4 DEF z
  <2>2. Len(d) = y + n /\ y \in Nat
    <3>1. r.value \in ByteString
      BY <1>1
    <3>2. Len(d) = y + n /\ y \in 1 .. 5
      BY ONLY <3>1, CodedLength
    <3> HIDE DEF y
    <3>3. y \in Nat
      BY ONLY <3>2
    <3>4. QED
      BY ONLY <3>2, <3>3
  <2>3. m \in Nat /\ n \in Nat
    BY <1>1, CodedLength
  <2>4. EncodedLen(r.key, r.value) = x + m + 8 + y + n
    BY DEF EncodedLen
  <2> HIDE DEF x, y, m, n, c, d
  <2>5. x + m + 8 + y + n = (x + (m + 8)) + (y + n)
    BY ONLY <2>1, <2>2, <2>3
  <2>6. QED
    BY <1>4, <2>1, <2>2, <2>4, <2>5
<1>10. QED
  BY <1>4, <1>6, <1>8, <1>9 DEF k, e

LEMMA LookupIs ==
    ASSUME NEW k \in ByteString, Len(k) + 8 < Limit, NEW q \in Seqs
    PROVE  /\ GetVarString(LookupKey(k, q)) = InternalKey(k, q, TypePut)
           /\ Len(LookupKey(k, q)) <= LookupSpace(k)
<1> DEFINE x == InternalKey(k, q, TypePut)
<1>1. x \in ByteString /\ Len(x) = Len(k) + 8
  BY KeyParts
<1>2. LookupKey(k, q) = Coded(x)
  BY <1>1, CodedAlone DEF LookupKey
<1> HIDE DEF x
<1>3. GetVarString(Coded(x)) = x
  BY <1>1, CodedIs, StartsItself, CodedRead
<1>4. Len(Coded(x)) <= Len(k) + 13
  <2> DEFINE y == VarintLength(Len(x))
  <2>1. Len(Coded(x)) = y + Len(x) /\ y \in 1 .. 5
    BY <1>1, CodedLength
  <2>2. Len(k) \in Nat
    BY CodedLength
  <2> HIDE DEF y
  <2>3. QED
    BY <1>1, <2>1, <2>2
<1>5. QED
  BY <1>2, <1>3, <1>4 DEF LookupSpace, x

LEMMA ReadBack == ASSUME NEW r \in Record PROVE Read(EntryOf(r)) = r
<1> DEFINE k == KeyOfRecord(r)
           e == EntryOf(r)
<1>1. GetVarString(e) = k /\ ValueOf(e) = r.value
  BY EntryIs
<1>2. r.seq \in Seqs /\ r.type \in {TypeDelete, TypePut}
  BY DEF Record
<1>3. UserKey(k) = r.key /\ TagOf(k) = Tag(r.seq, r.type)
  BY KeyParts DEF Record, KeyOfRecord
<1>4. Tag(r.seq, r.type) \div ByteBase = r.seq /\ Tag(r.seq, r.type) % ByteBase = r.type
  BY <1>2, TagIs
<1> HIDE DEF k, e
<1>5. Read(e) = [key |-> r.key, seq |-> r.seq, type |-> r.type, value |-> r.value]
  BY <1>1, <1>3, <1>4 DEF Read
<1>6. r = [key |-> r.key, seq |-> r.seq, type |-> r.type, value |-> r.value]
  BY DEF Record
<1>7. QED
  BY <1>5, <1>6 DEF e

-----------------------------------------------------------------------------
(* The order of the entries, and their look up                             *)

LEMMA KeyOrder ==
    ASSUME NEW r \in Record, NEW s \in Record
    PROVE  /\ KeyLess(KeyOfRecord(r), KeyOfRecord(s)) <=> Before(r, s)
           /\ ~Before(r, s) /\ ~Before(s, r) <=> r.key = s.key /\ r.seq = s.seq /\ r.type = s.type
<1>1. /\ r.key \in Seq(ByteSet) /\ r.seq \in Seqs /\ r.type \in {TypeDelete, TypePut}
      /\ s.key \in Seq(ByteSet) /\ s.seq \in Seqs /\ s.type \in {TypeDelete, TypePut}
  BY DEF Record, ByteString
<1>2. UserKey(KeyOfRecord(r)) = r.key /\ TagOf(KeyOfRecord(r)) = Tag(r.seq, r.type)
  BY KeyParts DEF Record, KeyOfRecord
<1>3. UserKey(KeyOfRecord(s)) = s.key /\ TagOf(KeyOfRecord(s)) = Tag(s.seq, s.type)
  BY KeyParts DEF Record, KeyOfRecord
<1>4. Tag(r.seq, r.type) < Tag(s.seq, s.type) <=> r.seq < s.seq \/ (r.seq = s.seq /\ r.type < s.type)
  BY <1>1, TagOrder
<1>5. KeyLess(KeyOfRecord(r), KeyOfRecord(s)) <=> Before(r, s)
  BY <1>2, <1>3, <1>4 DEF KeyLess, Before
<1>6. ASSUME ~Before(r, s), ~Before(s, r) PROVE r.key = s.key /\ r.seq = s.seq /\ r.type = s.type
  <2>1. r.key = s.key
    BY <1>1, <1>6, StringLessTotal DEF Before
  <2>2. /\ ~(r.seq < s.seq \/ (r.seq = s.seq /\ r.type < s.type))
        /\ ~(s.seq < r.seq \/ (s.seq = r.seq /\ s.type < r.type))
    BY <1>6, <2>1 DEF Before
  <2>3. /\ r.seq \in Nat /\ r.type \in Nat
    BY <1>1, TagIs
  <2>4. /\ s.seq \in Nat /\ s.type \in Nat
    BY <1>1, TagIs
  <2>5. QED
    BY <2>1, <2>2, <2>3, <2>4
<1>7. ASSUME r.key = s.key, r.seq = s.seq, r.type = s.type PROVE ~Before(r, s) /\ ~Before(s, r)
  <2>1. ~StringLess(r.key, r.key)
    BY <1>1, StringLessIrreflexive
  <2>2. /\ r.seq \in Nat /\ r.type \in Nat
    BY <1>1, TagIs
  <2>3. QED
    BY <1>7, <2>1, <2>2 DEF Before
<1>8. QED
  BY <1>5, <1>6, <1>7

LEMMA EntryOrder ==
    ASSUME NEW r \in Record, NEW s \in Record
    PROVE  EntryLess(EntryOf(r), EntryOf(s)) <=> Before(r, s)
<1>1. GetVarString(EntryOf(r)) = KeyOfRecord(r)
  BY EntryIs
<1>2. GetVarString(EntryOf(s)) = KeyOfRecord(s)
  BY EntryIs
<1>3. QED
  BY <1>1, <1>2, KeyOrder DEF EntryLess

\* A LookupKey is the same as the Put of its key and number.
LEMMA LookupMeets ==
    ASSUME NEW r \in Record, NEW k \in ByteString, Len(k) + 8 < Limit, NEW q \in Seqs
    PROVE  Same(EntryOf(r), LookupKey(k, q)) <=> r.key = k /\ r.seq = q /\ r.type = TypePut
<1> DEFINE s == [key |-> k, seq |-> q, type |-> TypePut, value |-> <<>>]
<1>1. s \in Record
  <2>1. <<>> \in ByteString
    BY RadixIs, EmptySeq DEF ByteString
  <2>2. QED
    BY <2>1 DEF Record
<1>2. s.key = k /\ s.seq = q /\ s.type = TypePut
  OBVIOUS
<1> HIDE DEF s
<1>3. GetVarString(LookupKey(k, q)) = KeyOfRecord(s)
  BY <1>2, LookupIs DEF KeyOfRecord
<1>4. GetVarString(EntryOf(r)) = KeyOfRecord(r)
  BY EntryIs
<1>5. Same(EntryOf(r), LookupKey(k, q)) <=>
        ~KeyLess(KeyOfRecord(r), KeyOfRecord(s)) /\ ~KeyLess(KeyOfRecord(s), KeyOfRecord(r))
  BY <1>3, <1>4 DEF Same, EntryLess
<1>6. KeyLess(KeyOfRecord(r), KeyOfRecord(s)) <=> Before(r, s)
  BY <1>1, KeyOrder
<1>7. KeyLess(KeyOfRecord(s), KeyOfRecord(r)) <=> Before(s, r)
  BY <1>1, KeyOrder
<1>8. ~Before(r, s) /\ ~Before(s, r) <=> r.key = s.key /\ r.seq = s.seq /\ r.type = s.type
  BY <1>1, KeyOrder
<1>9. QED
  BY <1>2, <1>5, <1>6, <1>7, <1>8

FormatInv ==
    /\ CodingInv
    /\ contents \subseteq Record
    /\ arena = {EntryOf(r) : r \in contents}

LEMMA FormatStart == FormatInit => FormatInv
BY CodingStart DEF FormatInit, FormatInv

LEMMA AddEntryKeeps ==
    ASSUME FormatInv, NEW seq \in Seqs, NEW type \in {TypeDelete, TypePut},
           NEW key \in ByteString, NEW value \in ByteString, AddEntry(seq, type, key, value)
    PROVE  FormatInv'
<1> DEFINE r == [key |-> key, seq |-> seq, type |-> type, value |-> value]
<1>1. CodingInv'
  BY DEF FormatInv, AddEntry, codingVars, CodingInv, Buffers, Reader, Ended
<1>2. r \in Record
  BY DEF AddEntry, Record
<1>3. EntryOf(r) = EntryBytes(seq, type, key, value)
  BY DEF EntryOf
<1>4. CASE UNCHANGED <<arena, contents>>
  BY <1>1, <1>4 DEF FormatInv
<1>5. CASE arena' = arena \cup {EntryBytes(seq, type, key, value)} /\ contents' = contents \cup {r}
  BY <1>1, <1>2, <1>3, <1>5 DEF FormatInv
<1>6. QED
  BY <1>4, <1>5 DEF AddEntry

LEMMA FormatKeeps == FormatInv /\ [FormatNext]_<<codingVars, formatVars>> => FormatInv'
<1> SUFFICES ASSUME FormatInv, [FormatNext]_<<codingVars, formatVars>> PROVE FormatInv'
  OBVIOUS
<1>1. ASSUME NEW s \in GotStrings PROVE s \in ByteString
  BY ElementOfSeq DEF GotStrings, FormatInv, CodingInv
<1>2. <<>> \in ByteString
  BY RadixIs, EmptySeq DEF ByteString
<1>3. CASE CodingNext /\ UNCHANGED formatVars
  <2>1. CodingInv'
    BY <1>3, CodingKeeps DEF FormatInv
  <2>2. QED
    BY <1>3, <2>1 DEF FormatInv, formatVars
<1>4. ASSUME NEW seq \in Seqs, NEW key \in GotStrings, NEW value \in GotStrings,
             AddEntry(seq, TypePut, key, value)
      PROVE  FormatInv'
  BY <1>1, <1>4, AddEntryKeeps
<1>5. ASSUME NEW seq \in Seqs, NEW key \in GotStrings, AddEntry(seq, TypeDelete, key, <<>>)
      PROVE  FormatInv'
  BY <1>1, <1>2, <1>5, AddEntryKeeps
<1>6. CASE UNCHANGED <<codingVars, formatVars>>
  BY <1>6 DEF codingVars, formatVars, FormatInv, CodingInv, Buffers, Reader, Ended
<1>7. QED
  BY <1>3, <1>4, <1>5, <1>6 DEF FormatNext

LEMMA Contents ==
    ASSUME FormatInv
    PROVE  /\ {Read(e) : e \in arena} = contents
           /\ \A e, f \in arena : EntryLess(e, f) <=> Before(Read(e), Read(f))
<1>1. contents \subseteq Record /\ arena = {EntryOf(r) : r \in contents}
  BY DEF FormatInv
<1>2. \A r \in contents : Read(EntryOf(r)) = r
  BY <1>1, ReadBack
<1>3. \A r, s \in contents : EntryLess(EntryOf(r), EntryOf(s)) <=> Before(r, s)
  BY <1>1, EntryOrder
<1>4. QED
  BY <1>1, <1>2, <1>3

LEMMA FindsOnly ==
    ASSUME FormatInv, NEW r \in contents
    PROVE  FindEntries(r.key, r.seq) =
              {s \in contents : s.key = r.key /\ s.seq = r.seq /\ s.type = TypePut}
<1>1. contents \subseteq Record /\ arena = {EntryOf(s) : s \in contents} /\ r \in Record
  BY DEF FormatInv
<1>2. r.key \in ByteString /\ Len(r.key) + 8 < Limit /\ r.seq \in Seqs
  BY <1>1 DEF Record
<1>3. \A s \in contents :
        Same(EntryOf(s), LookupKey(r.key, r.seq)) <=> s.key = r.key /\ s.seq = r.seq /\ s.type = TypePut
  BY <1>1, <1>2, LookupMeets
<1>4. \A s \in contents : Read(EntryOf(s)) = s
  BY <1>1, ReadBack
<1>5. QED
  BY <1>1, <1>3, <1>4 DEF FindEntries

LEMMA ReadsBack == FormatInv => EntriesReadBack
<1> SUFFICES ASSUME FormatInv PROVE EntriesReadBack
  OBVIOUS
<1>1. CodingTypeOK
  BY WholeStrings DEF FormatInv
<1>2. ASSUME NEW r \in contents
      PROVE  /\ EncodedLen(r.key, r.value) = Len(EntryBytes(r.seq, r.type, r.key, r.value))
             /\ Len(LookupKey(r.key, r.seq)) <= LookupSpace(r.key)
  <2>1. r \in Record
    BY DEF FormatInv
  <2>2. EncodedLen(r.key, r.value) = Len(EntryBytes(r.seq, r.type, r.key, r.value))
    BY <2>1, EntryIs DEF EntryOf
  <2>3. Len(LookupKey(r.key, r.seq)) <= LookupSpace(r.key)
    BY <2>1, LookupIs DEF Record
  <2>4. QED
    BY <2>2, <2>3
<1>3. QED
  BY <1>1, <1>2, Contents, FindsOnly DEF EntriesReadBack

\* Whatever the lengths of the strings of a batch and wherever its buffer was cut,
\* GetLengthPrefixedString (coding.cpp) gives exactly the strings that end in front of
\* the cut, in order, and fails behind them if the cut is inside a string, and only then.
THEOREM WholeStringsAreRead == FormatSpec => []GetsWholeStrings
<1>1. FormatInv => GetsWholeStrings
  BY WholeStrings DEF FormatInv
<1>2. QED
  BY <1>1, FormatStart, FormatKeeps, PTL DEF FormatSpec

\* The bytes of the memtable's entries, which Memtable::Add writes and the skip list
\* compares, are read back as what was added, in the order of what they mean; an entry
\* is as long as the buffer it was given, and a LookupKey finds the Put of its number
\* and nothing else.
THEOREM EntriesAreReadBack == FormatSpec => []EntriesReadBack
BY ReadsBack, FormatStart, FormatKeeps, PTL DEF FormatSpec

=============================================================================
