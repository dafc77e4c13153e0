---------------------------- MODULE SSTableProofs ----------------------------
(***************************************************************************)
(* Proofs about table files: for every set of keys, block size, number of  *)
(* entries and restart interval, and whatever flushes and appends fail,    *)
(* the handles lead to their blocks, the blocks hold what was added, the   *)
(* separators send every key to its block, and an iterator walks over all  *)
(* of them in order.                                                       *)
(***************************************************************************)
EXTENDS TableIterator, BlockFormatProofs

LEMMA LessLeq ==
    ASSUME NEW a \in Key, NEW b \in Key, NEW c \in Key, Less(a, b), ~Less(c, b)
    PROVE  Less(a, c)
BY LessTotal, LessTransitive

LEMMA LeqLess ==
    ASSUME NEW a \in Key, NEW b \in Key, NEW c \in Key, ~Less(b, a), Less(b, c)
    PROVE  Less(a, c)
BY LessTotal, LessTransitive

\* Bytes of one sign keep their order when they are read as char.
LEMMA SignedOrder ==
    ASSUME NEW s \in Nat, NEW l \in Nat, s < l, l <= 255, Signed(s) + 1 < Signed(l)
    PROVE  s + 1 < l
BY DEF Signed

\* The separator of a block is not below start, its last key, and below limit, the
\* first key of the next.
LEMMA FindShortestSplits ==
    ASSUME NEW start \in Key, NEW limit \in Key, Less(start, limit)
    PROVE  /\ FindShortest(start, limit) \in Key
           /\ ~Less(FindShortest(start, limit), start)
           /\ Less(FindShortest(start, limit), limit)
<1> DEFINE d == SharedLen(start, limit)
           r == SubSeq(start, 1, d) \o <<start[d + 1] + 1>>
           Longer == /\ d < Lesser(Len(start), Len(limit))
                     /\ start[d + 1] < 255
                     /\ Signed(start[d + 1]) + 1 < Signed(limit[d + 1])
<1>1. /\ d \in Nat /\ d <= Len(start) /\ d <= Len(limit)
      /\ \A i \in 1 .. d : start[i] = limit[i]
      /\ (d < Len(start) /\ d < Len(limit)) => start[d + 1] # limit[d + 1]
  BY SharedFacts
<1>2. /\ Len(start) \in Nat /\ Len(limit) \in Nat
      /\ \A i \in 1 .. Len(start) : start[i] \in Nat /\ start[i] <= 255
      /\ \A i \in 1 .. Len(limit) : limit[i] \in Nat /\ limit[i] <= 255
  BY BytesAre
<1>3. FindShortest(start, limit) = IF Longer THEN r ELSE start
  BY DEF FindShortest
<1> HIDE DEF d
<1>4. CASE ~Longer
  <2>1. FindShortest(start, limit) = start
    BY <1>3, <1>4
  <2>2. QED
    BY <2>1, LessIrreflexive
<1>5. CASE Longer
  <2>1. /\ d < Len(start) /\ d < Len(limit) /\ start[d + 1] < 255
        /\ Signed(start[d + 1]) + 1 < Signed(limit[d + 1])
    BY <1>1, <1>2, <1>5 DEF Lesser
  <2>2. d + 1 \in 1 .. Len(start) /\ d + 1 \in 1 .. Len(limit)
    BY <1>1, <1>2, <2>1
  <2>3. Less(start, limit) <=> (d < Len(limit) /\ (d < Len(start) => start[d + 1] < limit[d + 1]))
    BY <1>1, LessIs
  <2>4. /\ start[d + 1] \in Nat /\ limit[d + 1] \in Nat /\ limit[d + 1] <= 255
        /\ start[d + 1] < limit[d + 1]
    BY <1>2, <2>1, <2>2, <2>3
  <2>5. start[d + 1] + 1 < limit[d + 1]
    BY ONLY <2>1, <2>4, SignedOrder
  <2>6. start[d + 1] + 1 \in Bytes
    <3>1. \A x \in Nat : x < 255 => x + 1 \in Bytes
      BY DEF Bytes
    <3>2. QED
      BY <2>1, <2>4, <3>1
  <2>7. /\ r \in Key /\ Len(r) = d + 1 /\ r[d + 1] = start[d + 1] + 1
        /\ \A i \in 1 .. d : r[i] = start[i]
    <3>1. \A i \in 1 .. d : start[i] \in Bytes
      <4>1. ASSUME NEW i \in 1 .. d PROVE start[i] \in Nat /\ start[i] <= 255
        BY <1>1, <1>2
      <4>2. \A x \in Nat : x <= 255 => x \in Bytes
        BY DEF Bytes
      <4>3. QED
        BY <4>1, <4>2
    <3>2. /\ SubSeq(start, 1, d) \in Seq(Bytes) /\ Len(SubSeq(start, 1, d)) = d
          /\ \A i \in 1 .. d : SubSeq(start, 1, d)[i] = start[i]
      <4>1. /\ SubSeq(start, 1, d) \in Seq(Bytes)
            /\ Len(SubSeq(start, 1, d)) = IF 1 <= d THEN d - 1 + 1 ELSE 0
            /\ \A i \in 1 .. d - 1 + 1 : SubSeq(start, 1, d)[i] = start[1 + i - 1]
        <5>1. 1 \in Int /\ d \in Int
          BY <1>1
        <5>2. QED
          BY ONLY <3>1, <5>1, SubSeqProperties
      <4>2. QED
        BY <1>1, <4>1
    <3>3. <<start[d + 1] + 1>> \in Seq(Bytes)
      BY <2>6
    <3> DEFINE p == SubSeq(start, 1, d)
               q == <<start[d + 1] + 1>>
    <3>4. Len(q) = 1 /\ q[1] = start[d + 1] + 1
      OBVIOUS
    <3> HIDE DEF p, q
    <3>5. p \in Seq(Bytes) /\ q \in Seq(Bytes) /\ r = p \o q /\ Len(p) = d
      BY <3>2, <3>3 DEF p, q
    <3> HIDE DEF r
    <3>6. /\ r \in Seq(Bytes) /\ Len(r) = d + 1
          /\ \A i \in 1 .. d + 1 : r[i] = IF i <= d THEN p[i] ELSE q[i - d]
      <4>1. /\ p \o q \in Seq(Bytes) /\ Len(p \o q) = Len(p) + Len(q)
            /\ \A i \in 1 .. Len(p) + Len(q) :
                 (p \o q)[i] = IF i <= Len(p) THEN p[i] ELSE q[i - Len(p)]
        BY ONLY <3>5, ConcatProperties
      <4>2. QED
        BY <3>4, <3>5, <4>1
    <3>7. d + 1 \in 1 .. d + 1 /\ ~(d + 1 <= d) /\ (d + 1) - d = 1
      BY <1>1
    <3>8. \A i \in 1 .. d : i \in 1 .. d + 1 /\ i <= d
      BY <1>1
    <3>9. QED
      BY <3>2, <3>4, <3>6, <3>7, <3>8 DEF Key, p
  <2> HIDE DEF r
  <2>8. ~Less(r, start)
    <3>1. Less(r, start) <=> d < Len(start) /\ (d < Len(r) => r[d + 1] < start[d + 1])
      <4>1. (d < Len(r) /\ d < Len(start)) => r[d + 1] # start[d + 1]
        BY <2>4, <2>7
      <4>2. d <= Len(r) /\ d <= Len(start)
        BY <1>1, <2>7
      <4>3. QED
        BY <1>1, <2>7, <4>1, <4>2, LessIs
    <3>2. QED
      BY <1>1, <2>1, <2>4, <2>7, <3>1
  <2>9. Less(r, limit)
    <3>1. Less(r, limit) <=> d < Len(limit) /\ (d < Len(r) => r[d + 1] < limit[d + 1])
      <4>1. (d < Len(r) /\ d < Len(limit)) => r[d + 1] # limit[d + 1]
        BY <2>4, <2>5, <2>7
      <4>2. d <= Len(r) /\ d <= Len(limit) /\ \A i \in 1 .. d : r[i] = limit[i]
        BY <1>1, <2>7
      <4>3. QED
        BY <1>1, <2>7, <4>1, <4>2, LessIs
    <3>2. QED
      BY <1>1, <2>1, <2>4, <2>5, <2>7, <3>1
  <2>10. QED
    BY <1>3, <1>5, <2>7, <2>8, <2>9
<1>6. QED
  BY <1>4, <1>5

-----------------------------------------------------------------------------
(* The file                                                                *)

\* What is appended lies behind what was appended before.
FileOk(F) ==
    /\ IsSeq(F)
    /\ \A i \in 1 .. Len(F) : F[i].at \in Nat /\ F[i].size \in Nat
    /\ \A i, j \in 1 .. Len(F) : i < j => F[i].at + F[i].size <= F[j].at

Grew(F, G) ==
    /\ Len(F) \in Nat /\ Len(G) \in Nat /\ Len(F) <= Len(G)
    /\ \A i \in 1 .. Len(F) : G[i] = F[i]

\* The content is in the file where handle h says ...
Written(F, h, c) ==
    /\ c # None
    /\ \E i \in 1 .. Len(F) : F[i].at = h.offset /\ F[i].size = h.size /\ F[i].content = c

\* ... or an append failed before the end of that place.
LostBefore(F, x) == \E i \in 1 .. Len(F) : F[i].content = None /\ F[i].at < x

Kept(F, h, c) == Written(F, h, c) \/ LostBefore(F, h.offset + h.size)

\* off is block_offset_, lost the number of appends that failed.
FileState(F, off, lost) ==
    /\ FileOk(F) /\ off \in Nat /\ lost \in Nat /\ FileEnd(F) <= off
    /\ lost = 0 => off = FileEnd(F) /\ \A i \in 1 .. Len(F) : F[i].content # None
    /\ lost > 0 => LostBefore(F, off + 1)

LEMMA SeqEmpty ==
    ASSUME NEW s, IsSeq(s)
    PROVE  Len(s) \in Nat /\ (s = <<>> <=> Len(s) = 0)
<1>1. PICK S : s \in Seq(S)
  BY DEF IsSeq
<1>2. Len(s) \in Nat
  BY <1>1, LenProperties
<1>3. Len(<<>>) = 0 /\ (s # <<>> => Len(s) \in Nat \ {0})
  BY <1>1, EmptySeq
<1>4. QED
  BY <1>2, <1>3

LEMMA EndIs ==
    ASSUME NEW F, FileOk(F)
    PROVE  /\ FileEnd(F) \in Nat
           /\ \A i \in 1 .. Len(F) : F[i].at + F[i].size <= FileEnd(F)
<1>1. Len(F) \in Nat /\ (F = <<>> <=> Len(F) = 0)
  BY SeqEmpty DEF FileOk
<1>2. CASE F = <<>>
  BY <1>1, <1>2 DEF FileEnd
<1>3. CASE F # <<>>
  <2>1. Len(F) \in 1 .. Len(F) /\ FileEnd(F) = F[Len(F)].at + F[Len(F)].size
    BY <1>1, <1>3 DEF FileEnd
  <2>2. FileEnd(F) \in Nat
    BY <2>1 DEF FileOk
  <2>3. ASSUME NEW i \in 1 .. Len(F) PROVE F[i].at + F[i].size <= FileEnd(F)
    <3>1. i = Len(F) \/ F[i].at + F[i].size <= F[Len(F)].at
      BY <1>1, <2>1 DEF FileOk
    <3>2. /\ F[i].at \in Nat /\ F[i].size \in Nat
          /\ F[Len(F)].at \in Nat /\ F[Len(F)].size \in Nat
      BY <2>1 DEF FileOk
    <3>3. QED
      BY <2>1, <3>1, <3>2
  <2>4. QED
    BY <2>2, <2>3
<1>4. QED
  BY <1>2, <1>3

LEMMA GrewKeeps ==
    ASSUME NEW F, NEW G, Grew(F, G), NEW h, NEW c
    PROVE  /\ Written(F, h, c) => Written(G, h, c)
           /\ LostBefore(F, h.offset + h.size) => LostBefore(G, h.offset + h.size)
           /\ Kept(F, h, c) => Kept(G, h, c)
<1>1. \A i \in 1 .. Len(F) : i \in 1 .. Len(G) /\ G[i] = F[i]
  BY DEF Grew
<1>2. Written(F, h, c) => Written(G, h, c)
  BY <1>1 DEF Written
<1>3. LostBefore(F, h.offset + h.size) => LostBefore(G, h.offset + h.size)
  BY <1>1 DEF LostBefore
<1>4. QED
  BY <1>2, <1>3 DEF Kept

LEMMA GrewOnce == ASSUME NEW F, IsSeq(F), NEW e PROVE Grew(F, Append(F, e))
BY Appended DEF Grew

LEMMA GrewTwice ==
    ASSUME NEW F, NEW G, NEW H, Grew(F, G), Grew(G, H)
    PROVE  Grew(F, H)
BY DEF Grew

\* G is F with a chunk more.
ChunkMore(F, G, c, n) ==
    /\ FileOk(G) /\ Grew(F, G)
    /\ Len(G) = Len(F) + 1 /\ Len(F) \in Nat
    /\ G[Len(G)].at = FileEnd(F) /\ G[Len(G)].size = n /\ G[Len(G)].content = c
    /\ FileEnd(G) = FileEnd(F) + n

LEMMA ChunkAppended ==
    ASSUME NEW F, FileOk(F), NEW c, NEW n \in Nat
    PROVE  ChunkMore(F, Append(F, Chunk(F, c, n)), c, n)
<1> DEFINE G == Append(F, Chunk(F, c, n))
<1> DEFINE x == Chunk(F, c, n)
<1>1. /\ IsSeq(G) /\ Len(F) \in Nat /\ Len(G) = Len(F) + 1
      /\ \A i \in 1 .. Len(F) : G[i] = F[i]
      /\ G[Len(F) + 1] = x
  BY Appended DEF FileOk
<1> HIDE DEF G
<1>2. x.at = FileEnd(F) /\ x.size = n /\ x.content = c
  BY DEF Chunk
<1>3. /\ FileEnd(F) \in Nat
      /\ \A i \in 1 .. Len(F) : F[i].at + F[i].size <= FileEnd(F)
  BY EndIs
<1> HIDE DEF x
<1>4. Grew(F, G)
  BY <1>1 DEF Grew
<1>5. \A i \in 1 .. Len(G) : i \in 1 .. Len(F) \/ i = Len(F) + 1
  BY <1>1
<1>6. \A i \in 1 .. Len(G) : G[i].at \in Nat /\ G[i].size \in Nat
  BY <1>1, <1>2, <1>3, <1>5 DEF FileOk
<1>7. ASSUME NEW i \in 1 .. Len(G), NEW j \in 1 .. Len(G), i < j
      PROVE  G[i].at + G[i].size <= G[j].at
  <2>1. i \in 1 .. Len(F) /\ G[i] = F[i]
    BY <1>1, <1>7
  <2>2. CASE j \in 1 .. Len(F)
    BY <1>1, <1>7, <2>1, <2>2 DEF FileOk
  <2>3. CASE j = Len(F) + 1
    BY <1>1, <1>2, <1>3, <2>1, <2>3
  <2>4. QED
    BY <1>5, <2>2, <2>3
<1>8. FileOk(G)
  BY <1>1, <1>6, <1>7 DEF FileOk
<1>9. G # <<>>
  BY <1>1, <1>8, SeqEmpty
<1>10. FileEnd(G) = FileEnd(F) + n
  BY <1>1, <1>2, <1>9 DEF FileEnd
<1>11. ChunkMore(F, G, c, n)
  BY <1>1, <1>2, <1>4, <1>8, <1>10 DEF ChunkMore
<1>12. QED
  BY <1>11 DEF G

\* Whatever becomes of an append, what was written before stays and the new handle is kept.
LEMMA OneWrite ==
    ASSUME NEW u, NEW off, FileState(u.file, off, u.lost), NEW c, c # None,
           NEW n \in Nat, n > 0, NEW w \in Writes(u, c, n)
    PROVE  /\ FileState(w.file, off + n, w.lost)
           /\ Grew(u.file, w.file)
           /\ Kept(w.file, [offset |-> off, size |-> n], c)
           /\ w.lost >= u.lost
<1> DEFINE F == u.file
           h == [offset |-> off, size |-> n]
<1>1. /\ FileOk(F) /\ off \in Nat /\ u.lost \in Nat /\ FileEnd(F) <= off
      /\ u.lost = 0 => off = FileEnd(F) /\ \A i \in 1 .. Len(F) : F[i].content # None
      /\ u.lost > 0 => LostBefore(F, off + 1)
  BY DEF FileState
<1>2. h.offset = off /\ h.size = n
  OBVIOUS
<1>3. FileEnd(F) \in Nat
  BY <1>1, EndIs
<1> HIDE DEF F, h
<1>4. CASE /\ w.file = Append(F, Chunk(F, c, n)) /\ w.lost = u.lost
  <2> DEFINE G == w.file
  <2>1. /\ FileOk(G) /\ Grew(F, G) /\ Len(G) = Len(F) + 1 /\ Len(F) \in Nat
        /\ G[Len(G)].at = FileEnd(F) /\ G[Len(G)].size = n /\ G[Len(G)].content = c
        /\ FileEnd(G) = FileEnd(F) + n
    <3>1. ChunkMore(F, G, c, n)
      BY <1>1, <1>4, ChunkAppended
    <3>2. QED
      BY <3>1 DEF ChunkMore
  <2> HIDE DEF G
  <2>2. Len(G) \in 1 .. Len(G) /\ \A i \in 1 .. Len(G) : i \in 1 .. Len(F) \/ i = Len(G)
    BY <2>1
  <2>3. CASE u.lost = 0
    <3>1. Written(G, h, c)
      BY <1>1, <1>2, <2>1, <2>2, <2>3 DEF Written
    <3>2. \A i \in 1 .. Len(G) : G[i].content # None
      BY <1>1, <2>1, <2>2, <2>3 DEF Grew
    <3>3. FileState(G, off + n, u.lost)
      BY <1>1, <1>3, <2>1, <2>3, <3>2 DEF FileState
    <3>4. QED
      BY <1>1, <1>4, <2>1, <3>1, <3>3 DEF Kept, G, F, h
  <2>4. CASE u.lost > 0
    <3>1. PICK i \in 1 .. Len(F) : F[i].content = None /\ F[i].at < off + 1
      BY <1>1, <2>4 DEF LostBefore
    <3>2. i \in 1 .. Len(G) /\ G[i] = F[i] /\ F[i].at \in Nat
      BY <1>1, <2>1, <3>1 DEF Grew, FileOk
    <3>3. F[i].at < off + n /\ F[i].at < off + n + 1
      BY <1>1, <3>1, <3>2
    <3>4. LostBefore(G, off + n) /\ LostBefore(G, off + n + 1)
      BY <3>1, <3>2, <3>3 DEF LostBefore
    <3>5. FileState(G, off + n, u.lost)
      BY <1>1, <1>3, <2>1, <2>4, <3>4 DEF FileState
    <3>6. QED
      BY <1>1, <1>2, <1>4, <2>1, <3>4, <3>5 DEF Kept, G, F, h
  <2>5. QED
    BY <1>1, <2>3, <2>4
<1>5. CASE /\ w.file = Append(F, Chunk(F, None, n \div 2)) /\ w.lost = u.lost + 1
  <2> DEFINE G == w.file
  <2>1. n \div 2 \in Nat /\ n \div 2 <= n
    OBVIOUS
  <2>2. /\ FileOk(G) /\ Grew(F, G) /\ Len(G) = Len(F) + 1 /\ Len(F) \in Nat
        /\ G[Len(G)].at = FileEnd(F) /\ G[Len(G)].content = None
        /\ FileEnd(G) = FileEnd(F) + n \div 2
    <3>1. ChunkMore(F, G, None, n \div 2)
      BY <1>1, <1>5, <2>1, ChunkAppended
    <3>2. QED
      BY <3>1 DEF ChunkMore
  <2> HIDE DEF G
  <2>3. /\ Len(G) \in Nat /\ Len(G) \in 1 .. Len(G)
        /\ FileEnd(F) < off + n /\ FileEnd(F) < off + n + 1
    BY <1>1, <1>3, <2>2
  <2>4. LostBefore(G, off + n) /\ LostBefore(G, off + n + 1)
    <3>1. G[Len(G)].content = None /\ G[Len(G)].at < off + n /\ G[Len(G)].at < off + n + 1
      BY ONLY <2>2, <2>3
    <3>2. QED
      BY ONLY <2>3, <3>1 DEF LostBefore
  <2>5. FileState(G, off + n, u.lost + 1)
    BY <1>1, <1>3, <2>1, <2>2, <2>4 DEF FileState
  <2>6. QED
    BY <1>1, <1>2, <1>5, <2>2, <2>4, <2>5 DEF Kept, G, F, h
<1>6. QED
  BY <1>4, <1>5 DEF Writes, F

\* With nothing lost, a handle leads to the one content written there.
LEMMA ReadIs ==
    ASSUME FileOk(file), NEW h, h.size \in Nat, h.size > 0, NEW c, Written(file, h, c)
    PROVE  IsThere(h) /\ ReadAt(h) = c
<1>1. PICK i \in 1 .. Len(file) :
        /\ file[i].at = h.offset /\ file[i].size = h.size /\ file[i].content = c
  BY DEF Written
<1>2. c # None
  BY DEF Written
<1>3. file[i] \in Chunks(h.offset, h.size)
  BY <1>1, <1>2 DEF Chunks
<1>4. ASSUME NEW x \in Chunks(h.offset, h.size) PROVE x = file[i]
  <2>1. PICK j \in 1 .. Len(file) : x = file[j]
    BY DEF Chunks
  <2>2. file[j].at = h.offset /\ file[j].size = h.size
    BY <2>1 DEF Chunks
  <2>3. Len(file) \in Nat
    BY SeqEmpty DEF FileOk
  <2>4. ~(i < j) /\ ~(j < i)
    BY <1>1, <2>2 DEF FileOk
  <2>5. QED
    BY <2>1, <2>3, <2>4
<1>5. (CHOOSE x \in Chunks(h.offset, h.size) : TRUE) = file[i]
  BY <1>3, <1>4
<1>6. QED
  BY <1>1, <1>3, <1>5 DEF IsThere, ReadAt

-----------------------------------------------------------------------------
(* Parts of what was added                                                 *)

\* The entries after the first lo up to the hi-th
Part(ad, lo, hi) == SubSeq(ad, lo + 1, hi)

IsPart(p, ad, lo, hi) ==
    /\ IsSeq(p) /\ Len(p) = hi - lo
    /\ \A i \in 1 .. hi - lo : p[i] = ad[lo + i]

LEMMA PartIs ==
    ASSUME NEW ad, IsSeq(ad), NEW lo \in Nat, NEW hi \in Nat, lo <= hi, hi <= Len(ad)
    PROVE  IsPart(Part(ad, lo, hi), ad, lo, hi)
<1>1. PICK S : ad \in Seq(S)
  BY DEF IsSeq
<1>2. Len(ad) \in Nat /\ \A i \in 1 .. Len(ad) : ad[i] \in S
  BY <1>1, LenProperties, ElementOfSeq
<1>3. /\ lo + 1 \in Int /\ hi \in Int
      /\ \A i \in lo + 1 .. hi : ad[i] \in S
  BY <1>2
<1>4. /\ SubSeq(ad, lo + 1, hi) \in Seq(S)
      /\ Len(SubSeq(ad, lo + 1, hi)) = IF lo + 1 <= hi THEN hi - (lo + 1) + 1 ELSE 0
      /\ \A i \in 1 .. hi - (lo + 1) + 1 : SubSeq(ad, lo + 1, hi)[i] = ad[lo + 1 + i - 1]
  BY ONLY <1>3, SubSeqProperties
<1>5. \A i \in Int : lo + 1 + i - 1 = lo + i
  OBVIOUS
<1>6. hi - (lo + 1) + 1 = hi - lo /\ (~(lo + 1 <= hi) => hi - lo = 0)
  OBVIOUS
<1>7. QED
  BY <1>4, <1>5, <1>6 DEF IsPart, Part, IsSeq

LEMMA PartOrdered ==
    ASSUME NEW ad, IsSeq(ad), Ordered(ad),
           NEW lo \in Nat, NEW hi \in Nat, lo <= hi, hi <= Len(ad)
    PROVE  Ordered(Part(ad, lo, hi))
<1> DEFINE p == Part(ad, lo, hi)
<1>1. /\ Len(p) = hi - lo /\ Len(p) \in Nat /\ Len(ad) \in Nat
      /\ \A i \in 1 .. Len(p) : p[i] = ad[lo + i] /\ lo + i \in 1 .. Len(ad)
  <2>1. Len(p) = hi - lo /\ \A i \in 1 .. hi - lo : p[i] = ad[lo + i]
    BY PartIs DEF IsPart
  <2>2. Len(ad) \in Nat
    BY DEF Ordered
  <2>3. \A i \in 1 .. hi - lo : lo + i \in 1 .. Len(ad)
    BY <2>2
  <2>4. QED
    BY <2>1, <2>2, <2>3
<1> HIDE DEF p
<1>2. \A i \in 1 .. Len(p) : p[i].key \in Key /\ p[i].value.size \in Nat
  BY <1>1 DEF Ordered
<1>3. ASSUME NEW i \in 1 .. Len(p), NEW j \in 1 .. Len(p), i < j
      PROVE  Less(p[i].key, p[j].key)
  <2>1. lo + i < lo + j
    BY <1>3
  <2>2. QED
    BY <1>1, <2>1 DEF Ordered
<1>4. QED
  BY <1>1, <1>2, <1>3 DEF Ordered, p

LEMMA PartStays ==
    ASSUME NEW ad, IsSeq(ad), NEW e, NEW lo \in Nat, NEW hi \in Nat, lo <= hi, hi <= Len(ad)
    PROVE  Part(Append(ad, e), lo, hi) = Part(ad, lo, hi)
<1> DEFINE ae == Append(ad, e)
           p == Part(ae, lo, hi)
           q == Part(ad, lo, hi)
<1>1. /\ IsSeq(ae) /\ Len(ad) \in Nat /\ Len(ae) = Len(ad) + 1
      /\ \A i \in 1 .. Len(ad) : ae[i] = ad[i]
  BY Appended
<1>2. PICK S : ad \in Seq(S)
  BY DEF IsSeq
<1>3. PICK T : ae \in Seq(T)
  BY <1>1 DEF IsSeq
<1> DEFINE U == S \cup T
<1>4. ad \in Seq(U) /\ ae \in Seq(U)
  <2>1. S \subseteq U /\ T \subseteq U
    OBVIOUS
  <2> HIDE DEF U, ae
  <2>2. QED
    BY <1>2, <1>3, <2>1, SeqMonotonic
<1> HIDE DEF ae, U
<1>5. /\ lo + 1 \in Int /\ hi \in Int
      /\ \A i \in lo + 1 .. hi : ad[i] \in U
      /\ \A i \in lo + 1 .. hi : ae[i] \in U
  <2>1. \A i \in lo + 1 .. hi : i \in 1 .. Len(ad) /\ i \in 1 .. Len(ae)
    BY <1>1
  <2>2. QED
    BY <1>4, <2>1, ElementOfSeq
<1>6. q \in Seq(U) /\ p \in Seq(U)
  BY <1>5, SubSeqProperties DEF Part
<1>7. /\ Len(q) = hi - lo /\ \A i \in 1 .. hi - lo : q[i] = ad[lo + i]
  BY PartIs DEF IsPart
<1>8. /\ Len(p) = hi - lo /\ \A i \in 1 .. hi - lo : p[i] = ae[lo + i]
  <2>1. hi <= Len(ae)
    BY <1>1
  <2>2. IsPart(p, ae, lo, hi)
    BY <1>1, <2>1, PartIs
  <2>3. QED
    BY <2>2 DEF IsPart
<1> HIDE DEF p, q
<1>9. \A i \in 1 .. Len(p) : p[i] = q[i]
  <2>1. SUFFICES ASSUME NEW i \in 1 .. Len(p) PROVE p[i] = q[i]
    OBVIOUS
  <2>2. i \in 1 .. hi - lo /\ lo + i \in 1 .. Len(ad)
    BY <1>1, <1>8
  <2>3. QED
    BY <1>1, <1>7, <1>8, <2>2
<1>10. p = q
  BY <1>6, <1>7, <1>8, <1>9, SeqEqual
<1>11. QED
  BY <1>10 DEF p, q, ae

LEMMA PartGrows ==
    ASSUME NEW ad, IsSeq(ad), NEW e, NEW lo \in Nat, lo <= Len(ad)
    PROVE  Part(Append(ad, e), lo, Len(ad) + 1) = Append(Part(ad, lo, Len(ad)), e)
<1> DEFINE ae == Append(ad, e)
           n == Len(ad)
           p == Part(ae, lo, n + 1)
           r == Part(ad, lo, n)
           q == Append(r, e)
<1>1. /\ IsSeq(ae) /\ n \in Nat /\ Len(ae) = n + 1
      /\ \A i \in 1 .. n : ae[i] = ad[i]
      /\ ae[n + 1] = e
  BY Appended
<1>2. IsSeq(r) /\ Len(r) = n - lo /\ \A i \in 1 .. n - lo : r[i] = ad[lo + i]
  <2>1. IsPart(r, ad, lo, n)
    BY <1>1, PartIs
  <2>2. QED
    BY <2>1 DEF IsPart
<1> HIDE DEF ae, r
<1>3. /\ IsSeq(p) /\ Len(p) = n + 1 - lo
      /\ \A i \in 1 .. n + 1 - lo : p[i] = ae[lo + i]
  <2>1. lo <= n + 1 /\ n + 1 <= Len(ae) /\ n + 1 \in Nat
    BY <1>1
  <2>2. IsPart(p, ae, lo, n + 1)
    BY <1>1, <2>1, PartIs
  <2>3. QED
    BY <2>2 DEF IsPart
<1>4. /\ IsSeq(q) /\ Len(q) = n - lo + 1
      /\ \A i \in 1 .. n - lo : q[i] = r[i]
      /\ q[n - lo + 1] = e
  BY <1>2, Appended
<1> HIDE DEF p, q
<1>5. PICK S : p \in Seq(S)
  BY <1>3 DEF IsSeq
<1>6. PICK T : q \in Seq(T)
  BY <1>4 DEF IsSeq
<1> DEFINE U == S \cup T
<1>7. p \in Seq(U) /\ q \in Seq(U)
  <2>1. S \subseteq U /\ T \subseteq U
    OBVIOUS
  <2> HIDE DEF U
  <2>2. QED
    BY <1>5, <1>6, <2>1, SeqMonotonic
<1> HIDE DEF U
<1>8. Len(p) = Len(q)
  BY <1>1, <1>3, <1>4
<1>9. \A i \in 1 .. Len(p) : p[i] = q[i]
  <2>1. SUFFICES ASSUME NEW i \in 1 .. Len(p) PROVE p[i] = q[i]
    OBVIOUS
  <2>2. i \in 1 .. n + 1 - lo
    BY <1>3
  <2>3. CASE i = n - lo + 1
    <3>1. lo + i = n + 1
      BY <1>1, <2>3
    <3>2. QED
      BY <1>1, <1>3, <1>4, <2>2, <2>3, <3>1
  <2>4. CASE i # n - lo + 1
    <3>1. i \in 1 .. n - lo /\ lo + i \in 1 .. n
      BY <1>1, <2>2, <2>4
    <3>2. QED
      BY <1>1, <1>2, <1>3, <1>4, <2>2, <3>1
  <2>5. QED
    BY <2>3, <2>4
<1>10. p = q
  BY <1>7, <1>8, <1>9, SeqEqual
<1>11. QED
  BY <1>10 DEF p, q, r, ae

-----------------------------------------------------------------------------
(* The index                                                               *)

\* Handle h is that of a block of es.
IsBlock(F, h, es) ==
    /\ h.offset \in Nat /\ h.size \in Nat /\ h.size > 0
    /\ \E c : Holds(c, es) /\ Kept(F, h, c)

\* e is the index entry of the block of the entries lo + 1 to hi.
Stored(F, ad, e, lo, hi) ==
    /\ lo \in Nat /\ hi \in Nat /\ lo < hi /\ hi <= Len(ad)
    /\ e.key \in Key /\ e.value = HandleValue(e.value.data)
    /\ ~Less(e.key, ad[hi].key)
    /\ hi < Len(ad) => Less(e.key, ad[hi + 1].key)
    /\ IsBlock(F, e.value.data, Part(ad, lo, hi))

\* ies are the index entries of consecutive blocks, cut the ends of these.
IndexOk(F, ad, ies, cut) ==
    /\ IsSeq(ies) /\ Ordered(ies)
    /\ cut[0] = 0
    /\ \A i \in 1 .. Len(ies) : Stored(F, ad, ies[i], cut[i - 1], cut[i])

\* The index block under construction, idx, covers the first m entries.
Covers(idx, F, ad, m) ==
    \E ies, cut : IndexOk(F, ad, ies, cut) /\ Building(idx, ies) /\ cut[Len(ies)] = m

LEMMA BlockStays ==
    ASSUME NEW F, NEW G, Grew(F, G), NEW h, NEW es, IsBlock(F, h, es)
    PROVE  IsBlock(G, h, es)
BY GrewKeeps DEF IsBlock

LEMMA CutsAre ==
    ASSUME NEW F, NEW ad, NEW ies, NEW cut, IndexOk(F, ad, ies, cut), Len(ad) \in Nat
    PROVE  \A i \in 0 .. Len(ies) : cut[i] \in Nat /\ cut[i] <= Len(ad)
<1>1. SUFFICES ASSUME NEW i \in 0 .. Len(ies) PROVE cut[i] \in Nat /\ cut[i] <= Len(ad)
  OBVIOUS
<1>2. Len(ies) \in Nat
  BY SeqEmpty DEF IndexOk
<1>3. i = 0 \/ i \in 1 .. Len(ies)
  BY <1>2
<1>4. QED
  BY <1>3 DEF IndexOk, Stored

LEMMA CoversGrew ==
    ASSUME NEW F, NEW G, Grew(F, G), NEW idx, NEW ad, NEW m, Covers(idx, F, ad, m)
    PROVE  Covers(idx, G, ad, m)
<1>1. PICK ies, cut : IndexOk(F, ad, ies, cut) /\ Building(idx, ies) /\ cut[Len(ies)] = m
  BY DEF Covers
<1>2. ASSUME NEW i \in 1 .. Len(ies) PROVE Stored(G, ad, ies[i], cut[i - 1], cut[i])
  <2>1. Stored(F, ad, ies[i], cut[i - 1], cut[i])
    BY <1>1 DEF IndexOk
  <2>2. QED
    BY <2>1, BlockStays DEF Stored
<1>3. IndexOk(G, ad, ies, cut)
  BY <1>1, <1>2 DEF IndexOk
<1>4. QED
  BY <1>1, <1>3 DEF Covers

\* The first entry behind a block is known already, or there is no block yet.
LEMMA CoversAppend ==
    ASSUME NEW F, NEW idx, NEW ad, IsSeq(ad), NEW m, Covers(idx, F, ad, m),
           m < Len(ad) \/ m = 0, NEW e
    PROVE  Covers(idx, F, Append(ad, e), m)
<1> DEFINE ae == Append(ad, e)
<1>1. PICK ies, cut : IndexOk(F, ad, ies, cut) /\ Building(idx, ies) /\ cut[Len(ies)] = m
  BY DEF Covers
<1>2. /\ Len(ad) \in Nat /\ Len(ae) = Len(ad) + 1
      /\ \A i \in 1 .. Len(ad) : ae[i] = ad[i]
  BY Appended
<1>3. /\ Len(ies) \in Nat
      /\ \A i \in 0 .. Len(ies) : cut[i] \in Nat /\ cut[i] <= Len(ad)
  BY <1>1, <1>2, CutsAre, SeqEmpty DEF IndexOk
<1>4. ASSUME NEW i \in 1 .. Len(ies) PROVE Stored(F, ae, ies[i], cut[i - 1], cut[i])
  <2> DEFINE lo == cut[i - 1]
             hi == cut[i]
  <2>1. Stored(F, ad, ies[i], lo, hi)
    BY <1>1 DEF IndexOk
  <2>2. hi < Len(ad)
    <3>1. CASE i = Len(ies)
      BY <1>1, <1>2, <2>1, <3>1 DEF Stored
    <3>2. CASE i # Len(ies)
      <4>1. i + 1 \in 1 .. Len(ies) /\ (i + 1) - 1 = i
        BY <1>3, <3>2
      <4>2. Stored(F, ad, ies[i + 1], cut[i], cut[i + 1])
        BY <1>1, <4>1 DEF IndexOk
      <4>3. QED
        BY <1>2, <4>2 DEF Stored
    <3>3. QED
      BY <3>1, <3>2
  <2> HIDE DEF ae, lo, hi
  <2>3. /\ lo \in Nat /\ hi \in Nat /\ lo < hi /\ hi <= Len(ad)
        /\ hi \in 1 .. Len(ad) /\ hi + 1 \in 1 .. Len(ad)
    BY <1>2, <2>1, <2>2 DEF Stored
  <2>4. Part(ae, lo, hi) = Part(ad, lo, hi)
    <3>1. lo <= hi
      BY <2>3
    <3>2. QED
      BY <2>3, <3>1, PartStays DEF ae
  <2>5. hi <= Len(ae)
    BY <1>2, <2>3
  <2>6. Stored(F, ae, ies[i], lo, hi)
    BY <1>2, <2>1, <2>2, <2>3, <2>4, <2>5 DEF Stored
  <2>7. QED
    BY <2>6 DEF lo, hi
<1> HIDE DEF ae
<1>5. IndexOk(F, ae, ies, cut)
  BY <1>1, <1>4 DEF IndexOk
<1>6. QED
  BY <1>1, <1>5 DEF Covers, ae

\* The entry of the next block
LEMMA CoversEntry ==
    ASSUME NEW F, NEW idx, NEW ad, IsSeq(ad), Ordered(ad), NEW m, Covers(idx, F, ad, m),
           NEW k, NEW h, NEW hi,
           Stored(F, ad, [key |-> k, value |-> HandleValue(h)], m, hi)
    PROVE  Covers(AddTo(idx, k, HandleValue(h)), F, ad, hi)
<1> DEFINE e == [key |-> k, value |-> HandleValue(h)]
<1>1. PICK ies, cut : IndexOk(F, ad, ies, cut) /\ Building(idx, ies) /\ cut[Len(ies)] = m
  BY DEF Covers
<1> DEFINE n == Len(ies)
           es == Append(ies, e)
           to == [i \in 0 .. n + 1 |-> IF i = n + 1 THEN hi ELSE cut[i]]
<1>2. /\ e.key = k /\ e.value = HandleValue(h) /\ e.value.size = 16
      /\ e = [key |-> e.key, value |-> e.value]
  BY DEF HandleValue, HandleSize
<1>3. Stored(F, ad, e, m, hi)
  OBVIOUS
<1> HIDE DEF e
<1>4. /\ IsSeq(es) /\ n \in Nat /\ Len(es) = n + 1
      /\ \A i \in 1 .. n : es[i] = ies[i]
      /\ es[n + 1] = e
  BY <1>1, Appended DEF IndexOk
<1>5. IsSeq(ies) /\ Ordered(ies) /\ cut[0] = 0
  BY <1>1 DEF IndexOk
<1>6. n > 0 => Less(ies[n].key, e.key)
  <2>1. SUFFICES ASSUME n > 0 PROVE Less(ies[n].key, e.key)
    OBVIOUS
  <2>2. n \in 1 .. Len(ies)
    BY <1>4, <2>1
  <2>3. Stored(F, ad, ies[n], cut[n - 1], m)
    BY <1>1, <2>2 DEF IndexOk
  <2> HIDE DEF n
  <2>4. /\ m \in Nat /\ hi \in Nat /\ m < hi /\ hi <= Len(ad) /\ Len(ad) \in Nat
        /\ e.key \in Key /\ ~Less(e.key, ad[hi].key) /\ ies[n].key \in Key
        /\ m < Len(ad) => Less(ies[n].key, ad[m + 1].key)
    BY <1>3, <2>3 DEF Stored, Ordered
  <2>5. m + 1 \in 1 .. Len(ad) /\ hi \in 1 .. Len(ad) /\ m < Len(ad) /\ (m + 1 = hi \/ m + 1 < hi)
    BY <2>4
  <2>6. ad[m + 1].key \in Key /\ ad[hi].key \in Key
    BY <2>5 DEF Ordered
  <2>7. m + 1 = hi \/ Less(ad[m + 1].key, ad[hi].key)
    BY <2>5 DEF Ordered
  <2>8. Less(ies[n].key, ad[hi].key)
    BY <2>4, <2>5, <2>6, <2>7, LessTransitive
  <2>9. QED
    BY <2>4, <2>6, <2>8, LessLeq
<1>7. Ordered(es)
  <2>1. /\ e.key \in Key /\ e.value.size \in Nat
        /\ Len(ies) > 0 => Less(ies[Len(ies)].key, e.key)
    BY <1>2, <1>3, <1>6 DEF Stored
  <2>2. QED
    BY ONLY <1>5, <2>1, OrderedAppend
<1>8. Building(AddTo(idx, k, HandleValue(h)), es)
  <2>1. Building(idx, ies) /\ Ordered(ies) /\ e = [key |-> e.key, value |-> e.value]
    BY <1>1, <1>2, <1>5
  <2>2. Building(AddTo(idx, e.key, e.value), Append(ies, e))
    BY ONLY <2>1, AddBuilds
  <2>3. QED
    BY <1>2, <2>2
<1>9. ASSUME NEW i \in 1 .. Len(es) PROVE Stored(F, ad, es[i], to[i - 1], to[i])
  <2>1. CASE i = n + 1
    <3>1. to[i] = hi /\ to[i - 1] = m
      BY <1>1, <1>4, <2>1
    <3>2. QED
      BY <1>3, <1>4, <2>1, <3>1
  <2>2. CASE i # n + 1
    <3>1. i \in 1 .. n
      BY <1>4, <2>2
    <3>2. to[i] = cut[i] /\ to[i - 1] = cut[i - 1]
      BY <1>4, <3>1
    <3>3. QED
      BY <1>1, <1>4, <3>1, <3>2 DEF IndexOk
  <2>3. QED
    BY <2>1, <2>2
<1>10. to[0] = 0 /\ to[n + 1] = hi
  BY <1>4, <1>5
<1> HIDE DEF to, es
<1>11. IndexOk(F, ad, es, to)
  BY <1>4, <1>7, <1>9, <1>10 DEF IndexOk
<1>12. to[Len(es)] = hi
  BY <1>4, <1>10
<1>13. QED
  BY <1>8, <1>11, <1>12 DEF Covers

LEMMA CoversNothing == ASSUME NEW F PROVE Covers(EmptyBuilder, F, <<>>, 0)
<1> DEFINE cut == [i \in 0 .. 0 |-> 0]
<1>1. Building(EmptyBuilder, <<>>) /\ Ordered(<<>>) /\ IsSeq(<<>>) /\ Len(<<>>) = 0
  BY EmptyIs DEF Building
<1>2. cut[0] = 0
  OBVIOUS
<1>3. IndexOk(F, <<>>, <<>>, cut)
  BY <1>1, <1>2 DEF IndexOk
<1>4. QED
  BY <1>1, <1>2, <1>3 DEF Covers

-----------------------------------------------------------------------------
(* The inductive invariant                                                 *)

\* The entries carry the values they were added with.
Stamped(ad) ==
    \A i \in 1 .. Len(ad) : ad[i] = [key |-> ad[i].key, value |-> Value(i - 1)]

AddedInv ==
    /\ IsSeq(added) /\ Ordered(added) /\ Stamped(added) /\ Len(added) <= MaxAdds
    /\ lastKey = IF added = <<>> THEN <<>> ELSE added[Len(added)].key

FileInv ==
    /\ fails = [flush |-> fails.flush, lost |-> fails.lost]
    /\ FileState(file, offset, fails.lost)

\* The index covers the first m entries, the others are in the block that is pending
\* or in the one under construction.
OpenAt(m) ==
    /\ m \in Nat /\ m <= Len(added) /\ Covers(index, file, added, m)
    /\ pending => /\ data = EmptyBuilder /\ m < Len(added)
                  /\ handle.offset + handle.size = offset
                  /\ IsBlock(file, handle, Part(added, m, Len(added)))
    /\ ~pending => /\ Building(data, Part(added, m, Len(added)))
                   /\ data.num > 0 => DataSize(data) < blockSize
                   /\ added # <<>> => m < Len(added)

\* The index block was written with handle h, and h behind it.
ClosedAt(idx, h) ==
    /\ Covers(idx, file, added, Len(added))
    /\ h.offset \in Nat /\ h.size \in Nat /\ h.size > 0
    /\ Kept(file, h, Content(idx)) /\ Kept(file, FooterAt, h)

Open == \E m : OpenAt(m)

Closed ==
    /\ data = EmptyBuilder /\ index = EmptyBuilder /\ ~pending
    /\ added # <<>> => \E idx, h : ClosedAt(idx, h)

TableInv == AddedInv /\ FileInv /\ (done => Closed) /\ (~done => Open)

-----------------------------------------------------------------------------
LEMMA NotNone ==
    /\ \A b : Content(b) # None
    /\ \A at, b : HandleAt(at, b) # None
<1>1. DOMAIN None = {}
  BY DEF None
<1>2. ASSUME NEW b PROVE Content(b) # None
  <2>1. DOMAIN Content(b) = {"entries", "restarts"}
    BY DEF Content
  <2>2. QED
    BY <1>1, <2>1
<1>3. ASSUME NEW at, NEW b PROVE HandleAt(at, b) # None
  <2>1. DOMAIN HandleAt(at, b) = {"offset", "size"}
    BY DEF HandleAt
  <2>2. QED
    BY <1>1, <2>1
<1>4. QED
  BY <1>2, <1>3

LEMMA InitTable == Init => TableInv
<1> SUFFICES ASSUME Init PROVE TableInv
  OBVIOUS
<1>1. /\ data = EmptyBuilder /\ index = EmptyBuilder /\ lastKey = <<>> /\ ~pending
      /\ offset = 0 /\ file = <<>> /\ ~done /\ added = <<>>
      /\ fails = [flush |-> 0, lost |-> 0]
  BY DEF Init
<1>2. Len(<<>>) = 0 /\ Building(EmptyBuilder, <<>>) /\ Ordered(<<>>) /\ IsSeq(<<>>)
  BY EmptyIs DEF Building
<1>3. AddedInv
  BY <1>1, <1>2, TableAssumption DEF AddedInv, Stamped
<1>4. FileInv
  <2>1. FileEnd(<<>>) = 0 /\ FileOk(<<>>)
    BY <1>2 DEF FileEnd, FileOk
  <2>2. fails.lost = 0 /\ fails.flush = 0
    BY <1>1
  <2>3. FileState(<<>>, 0, 0)
    BY <1>2, <2>1 DEF FileState
  <2>4. QED
    BY <1>1, <2>2, <2>3 DEF FileInv
<1>5. OpenAt(0)
  <2>1. Part(<<>>, 0, 0) = <<>>
    <3>1. 0 + 1 \in Int /\ 0 \in Int /\ 0 < 0 + 1
      OBVIOUS
    <3>2. QED
      BY ONLY <3>1, SubSeqEmpty DEF Part
  <2>2. EmptyBuilder.num = 0
    BY DEF EmptyBuilder
  <2>3. Covers(index, file, added, 0)
    BY <1>1, CoversNothing
  <2>4. QED
    BY <1>1, <1>2, <2>1, <2>2, <2>3 DEF OpenAt
<1>6. QED
  BY <1>1, <1>3, <1>4, <1>5 DEF TableInv, Open

\* An entry more: the index covers the blocks before the one it goes into.
LEMMA EntryAdded ==
    ASSUME TableInv, NEW key \in KeyBytes, AddEntry(key)
    PROVE  /\ AddedInv'
           /\ \E m : /\ m \in Nat /\ m < Len(added')
                     /\ Covers(index', file, added', m)
                     /\ Building(Filled(key), Part(added', m, Len(added')))
<1> DEFINE e == [key |-> key, value |-> Value(Len(added))]
           n == Len(added)
<1>1. /\ IsSeq(added) /\ Ordered(added) /\ Stamped(added)
      /\ lastKey = IF added = <<>> THEN <<>> ELSE added[n].key
      /\ ~done /\ Open /\ n < MaxAdds
  BY DEF TableInv, AddedInv, AddEntry
<1>2. n \in Nat /\ (added = <<>> <=> n = 0)
  BY <1>1, SeqEmpty
<1>3. /\ index' = Indexed(key) /\ lastKey' = key /\ added' = Append(added, e)
      /\ added # <<>> => Less(added[n].key, key)
  BY DEF AddEntry, InOrder
<1>4. /\ key \in Key /\ e.key = key /\ e.value = Value(n) /\ e.value.size \in Nat
      /\ e = [key |-> e.key, value |-> e.value]
  BY TableAssumption DEF Key, Bytes, Value
<1> HIDE DEF e, n
<1>5. /\ IsSeq(added') /\ Len(added') = n + 1
      /\ \A i \in 1 .. n : added'[i] = added[i]
      /\ added'[n + 1] = e
  BY <1>1, <1>3, Appended DEF n
<1>6. Ordered(added')
  <2>1. Len(added) > 0 => Less(added[Len(added)].key, e.key)
    BY <1>2, <1>3, <1>4 DEF n
  <2>2. Ordered(Append(added, e))
    BY <1>1, <1>4, <2>1, OrderedAppend
  <2>3. QED
    BY <1>3, <2>2
<1>7. Stamped(added')
  <2>1. SUFFICES ASSUME NEW i \in 1 .. n + 1
                 PROVE  added'[i] = [key |-> added'[i].key, value |-> Value(i - 1)]
    BY <1>5 DEF Stamped
  <2>2. CASE i = n + 1
    <3>1. i - 1 = n /\ added'[i] = e
      BY <1>2, <1>5, <2>2
    <3>2. QED
      BY <1>4, <3>1
  <2>3. CASE i # n + 1
    <3>1. i \in 1 .. n
      BY <1>2, <2>3
    <3>2. QED
      BY <1>1, <1>5, <3>1 DEF Stamped, n
  <2>4. QED
    BY <2>2, <2>3
<1>8. AddedInv'
  <2>1. added' # <<>>
    BY <1>2, <1>5, SeqEmpty
  <2>2. lastKey' = added'[Len(added')].key
    BY <1>3, <1>4, <1>5
  <2>3. Len(added') <= MaxAdds
    BY <1>1, <1>2, <1>5, TableAssumption
  <2>4. QED
    BY <1>5, <1>6, <1>7, <2>1, <2>2, <2>3 DEF AddedInv
<1>9. PICK m : OpenAt(m)
  BY <1>1 DEF Open
<1>10. m \in Nat /\ m <= n /\ Covers(index, file, added, m)
  BY <1>9 DEF OpenAt, n
<1>11. \E q : /\ q \in Nat /\ q <= n /\ Covers(index', file, added', q)
              /\ Building(data, Part(added, q, n))
  <2>1. CASE ~pending
    <3>1. /\ Building(data, Part(added, m, n)) /\ (added # <<>> => m < n)
      BY <1>9, <2>1 DEF OpenAt, n
    <3>2. m < n \/ m = 0
      BY <1>2, <1>10, <3>1
    <3>3. Covers(index, file, added', m)
      BY <1>1, <1>3, <1>10, <3>2, CoversAppend DEF n
    <3>4. index' = index
      BY <1>3, <2>1 DEF Indexed
    <3>5. QED
      BY <1>10, <3>1, <3>3, <3>4
  <2>2. CASE pending
    <3> DEFINE k == FindShortest(lastKey, key)
               x == [key |-> k, value |-> HandleValue(handle)]
    <3>1. /\ data = EmptyBuilder /\ m < n
          /\ IsBlock(file, handle, Part(added, m, n))
      BY <1>9, <2>2 DEF OpenAt, n
    <3>2. added # <<>> /\ lastKey = added[n].key /\ n \in 1 .. n
      BY <1>1, <1>2, <1>10, <3>1
    <3>3. lastKey \in Key /\ Less(lastKey, key)
      BY <1>1, <1>3, <3>2 DEF Ordered, n
    <3>4. k \in Key /\ ~Less(k, lastKey) /\ Less(k, key)
      BY <1>4, <3>3, FindShortestSplits
    <3>5. /\ x.key = k /\ x.value = HandleValue(handle)
          /\ x.value = HandleValue(x.value.data) /\ x.value.data = handle
      BY DEF HandleValue
    <3>6. index' = AddTo(index, k, HandleValue(handle))
      BY <1>3, <2>2 DEF Indexed
    <3> HIDE DEF k
    <3>7. Covers(index, file, added', m)
      BY <1>1, <1>3, <1>10, <3>1, CoversAppend DEF n
    <3>8. Part(added', m, n) = Part(added, m, n)
      <4>1. n <= Len(added)
        BY <1>2 DEF n
      <4>2. QED
        BY <1>1, <1>2, <1>3, <1>10, <4>1, PartStays
    <3>9. Stored(file, added', x, m, n)
      <4>1. added'[n].key = lastKey /\ added'[n + 1].key = key
        BY <1>4, <1>5, <3>2
      <4>2. n <= Len(added') /\ n < Len(added')
        BY <1>2, <1>5
      <4> HIDE DEF x
      <4>3. QED
        BY <1>2, <1>10, <3>1, <3>4, <3>5, <3>8, <4>1, <4>2 DEF Stored
    <3>10. Covers(index', file, added', n)
      BY <1>5, <1>6, <3>6, <3>7, <3>9, CoversEntry
    <3>11. Building(data, Part(added, n, n))
      <4>1. Part(added, n, n) = <<>>
        <5>1. n + 1 \in Int /\ n \in Int /\ n < n + 1
          BY <1>2
        <5>2. QED
          BY ONLY <5>1, SubSeqEmpty DEF Part
      <4>2. QED
        BY <3>1, <4>1, EmptyIs
    <3>12. n <= n
      BY <1>2
    <3>13. QED
      BY <1>2, <3>10, <3>11, <3>12
  <2>3. QED
    BY <2>1, <2>2
<1>12. PICK q : /\ q \in Nat /\ q <= n /\ Covers(index', file, added', q)
                /\ Building(data, Part(added, q, n))
  BY <1>11
<1>13. Building(Filled(key), Part(added', q, n + 1))
  <2>1. Ordered(Part(added, q, n))
    <3>1. n <= Len(added)
      BY <1>2 DEF n
    <3>2. QED
      BY <1>1, <1>2, <1>12, <3>1, PartOrdered
  <2>2. Building(AddTo(data, e.key, e.value), Append(Part(added, q, n), e))
    BY <1>4, <1>12, <2>1, AddBuilds
  <2>3. Part(added', q, n + 1) = Append(Part(added, q, n), e)
    BY <1>1, <1>3, <1>12, PartGrows DEF n
  <2>4. Filled(key) = AddTo(data, e.key, e.value)
    BY <1>4 DEF Filled, n
  <2>5. QED
    BY <2>2, <2>3, <2>4
<1>14. q < n + 1
  BY <1>2, <1>12
<1>15. QED
  BY <1>5, <1>8, <1>12, <1>13, <1>14

LEMMA NowIs == Now.file = file /\ Now.lost = fails.lost
BY DEF Now

\* The entries of a block that is under construction, and its size
LEMMA BlockSize ==
    ASSUME NEW b, NEW es, Building(b, es), Ordered(es)
    PROVE  /\ ContentSize(b) \in Nat /\ ContentSize(b) > 0
           /\ Holds(Content(b), es) /\ Content(b) # None
<1>1. ContentSize(b) \in Nat /\ ContentSize(b) > 0
  <2>1. ContentSize(b) \in Nat /\ ContentSize(b) >= 4
    BY SizeIs
  <2>2. QED
    BY <2>1
<1>2. Holds(Content(b), es)
  BY DEF Building, Holds, Content
<1>3. QED
  BY <1>1, <1>2, NotNone

\* A write of block b
LEMMA BlockWritten ==
    ASSUME NEW u, NEW off, FileState(u.file, off, u.lost),
           NEW b, NEW es, Building(b, es), Ordered(es),
           NEW w \in Writes(u, Content(b), ContentSize(b))
    PROVE  /\ FileState(w.file, EndOf(off, b), w.lost)
           /\ Grew(u.file, w.file)
           /\ IsBlock(w.file, HandleAt(off, b), es)
           /\ Kept(w.file, HandleAt(off, b), Content(b))
           /\ HandleAt(off, b).offset = off /\ HandleAt(off, b).size = ContentSize(b)
<1>1. /\ ContentSize(b) \in Nat /\ ContentSize(b) > 0
      /\ Holds(Content(b), es) /\ Content(b) # None
  BY BlockSize
<1>2. /\ FileState(w.file, off + ContentSize(b), w.lost)
      /\ Grew(u.file, w.file)
      /\ Kept(w.file, [offset |-> off, size |-> ContentSize(b)], Content(b))
  BY <1>1, OneWrite
<1>3. off \in Nat
  BY DEF FileState
<1>4. /\ HandleAt(off, b) = [offset |-> off, size |-> ContentSize(b)]
      /\ HandleAt(off, b).offset = off /\ HandleAt(off, b).size = ContentSize(b)
  BY DEF HandleAt
<1>5. QED
  BY <1>1, <1>2, <1>3, <1>4 DEF EndOf, IsBlock

LEMMA Flushed ==
    ASSUME FileInv, NEW b, NEW es, Building(b, es), Ordered(es), Flush(b)
    PROVE  /\ FileInv' /\ Grew(file, file')
           /\ data' = EmptyBuilder /\ pending'
           /\ handle'.offset + handle'.size = offset'
           /\ IsBlock(file', handle', es)
<1>1. PICK w \in Writes(Now, Content(b), ContentSize(b)), f \in 0 .. 1 :
        file' = w.file /\ fails' = [flush |-> fails.flush + f, lost |-> w.lost]
  BY DEF Flush
<1>2. /\ handle' = HandleAt(offset, b) /\ offset' = EndOf(offset, b)
      /\ data' = EmptyBuilder /\ pending'
  BY DEF Flush
<1>3. FileState(Now.file, offset, Now.lost)
  BY NowIs DEF FileInv
<1>4. /\ FileState(w.file, EndOf(offset, b), w.lost)
      /\ Grew(Now.file, w.file)
      /\ IsBlock(w.file, HandleAt(offset, b), es)
      /\ HandleAt(offset, b).offset = offset
      /\ HandleAt(offset, b).size = ContentSize(b)
  BY <1>3, BlockWritten
<1>5. FileInv'
  <2>1. fails'.lost = w.lost /\ fails' = [flush |-> fails'.flush, lost |-> fails'.lost]
    BY <1>1
  <2>2. QED
    BY <1>1, <1>2, <1>4, <2>1 DEF FileInv
<1>6. handle'.offset + handle'.size = offset'
  BY <1>2, <1>4 DEF EndOf
<1>7. QED
  BY <1>1, <1>2, <1>4, <1>5, <1>6, NowIs

-----------------------------------------------------------------------------
(* One lemma for each action                                               *)

LEMMA AddOnlyKeeps ==
    ASSUME TableInv, NEW key \in KeyBytes, AddOnly(key)
    PROVE  TableInv'
<1>1. /\ AddEntry(key) /\ DataSize(Filled(key)) < blockSize
      /\ data' = Filled(key) /\ ~pending' /\ blockSize' = blockSize /\ done' = done
      /\ handle' = handle /\ offset' = offset /\ file' = file /\ fails' = fails
      /\ ~done
  BY DEF AddOnly, AddEntry
<1>2. AddedInv'
  BY <1>1, EntryAdded
<1>3. PICK m : /\ m \in Nat /\ m < Len(added') /\ Covers(index', file, added', m)
               /\ Building(Filled(key), Part(added', m, Len(added')))
  BY <1>1, EntryAdded
<1>4. FileInv'
  BY <1>1 DEF TableInv, FileInv
<1>5. OpenAt(m)'
  <2>1. Len(added') \in Nat
    BY <1>2, SeqEmpty DEF AddedInv
  <2>2. m <= Len(added')
    BY <1>3, <2>1
  <2>3. QED
    BY <1>1, <1>3, <2>2 DEF OpenAt
<1>6. QED
  BY <1>1, <1>2, <1>4, <1>5 DEF TableInv, Open

LEMMA AddAndFlushKeeps ==
    ASSUME TableInv, NEW key \in KeyBytes, AddAndFlush(key)
    PROVE  TableInv'
<1>1. AddEntry(key) /\ Flush(Filled(key)) /\ ~done /\ done' = done
  BY DEF AddAndFlush, AddEntry
<1>2. AddedInv'
  BY <1>1, EntryAdded
<1>3. PICK m : /\ m \in Nat /\ m < Len(added') /\ Covers(index', file, added', m)
               /\ Building(Filled(key), Part(added', m, Len(added')))
  BY <1>1, EntryAdded
<1>4. IsSeq(added') /\ Ordered(added') /\ Len(added') \in Nat
  BY <1>2, SeqEmpty DEF AddedInv
<1>5. m <= Len(added') /\ Len(added') <= Len(added')
  BY <1>3, <1>4
<1>6. Ordered(Part(added', m, Len(added')))
  BY <1>3, <1>4, <1>5, PartOrdered
<1>7. FileInv
  BY DEF TableInv
<1>8. /\ FileInv' /\ Grew(file, file')
      /\ data' = EmptyBuilder /\ pending'
      /\ handle'.offset + handle'.size = offset'
      /\ IsBlock(file', handle', Part(added', m, Len(added')))
  BY <1>1, <1>3, <1>6, <1>7, Flushed
<1>9. Covers(index', file', added', m)
  BY <1>3, <1>8, CoversGrew
<1>10. OpenAt(m)'
  BY <1>3, <1>5, <1>8, <1>9 DEF OpenAt
<1>11. QED
  BY <1>1, <1>2, <1>8, <1>10 DEF TableInv, Open

LEMMA FinishFailsKeeps == ASSUME TableInv, FinishFails PROVE TableInv'
<1>1. /\ ~done /\ data.num > 0 /\ Flush(data)
      /\ index' = index /\ lastKey' = lastKey /\ done' = done /\ added' = added
  BY DEF FinishFails
<1>2. AddedInv /\ AddedInv' /\ FileInv
  BY <1>1 DEF TableInv, AddedInv
<1>3. PICK m : OpenAt(m)
  BY <1>1 DEF TableInv, Open
<1>4. ~pending
  BY <1>1, <1>3 DEF OpenAt, EmptyBuilder
<1>5. /\ m \in Nat /\ m <= Len(added) /\ Covers(index, file, added, m)
      /\ Building(data, Part(added, m, Len(added)))
      /\ added # <<>> => m < Len(added)
  BY <1>3, <1>4 DEF OpenAt
<1>6. IsSeq(added) /\ Ordered(added) /\ Len(added) \in Nat /\ Len(added) <= Len(added)
      /\ (added = <<>> <=> Len(added) = 0)
  <2>1. IsSeq(added) /\ Ordered(added) /\ Len(added) \in Nat /\ (added = <<>> <=> Len(added) = 0)
    BY <1>2, SeqEmpty DEF AddedInv
  <2>2. QED
    BY <2>1
<1>7. Ordered(Part(added, m, Len(added)))
  BY <1>5, <1>6, PartOrdered
<1>8. /\ FileInv' /\ Grew(file, file')
      /\ data' = EmptyBuilder /\ pending'
      /\ handle'.offset + handle'.size = offset'
      /\ IsBlock(file', handle', Part(added, m, Len(added)))
  BY <1>1, <1>2, <1>5, <1>7, Flushed
<1>9. added # <<>>
  <2>1. SUFFICES ASSUME added = <<>> PROVE FALSE
    OBVIOUS
  <2>2. m = 0 /\ Len(added) = 0
    BY <1>5, <1>6, <2>1
  <2>3. IsPart(Part(added, m, Len(added)), added, m, Len(added))
    BY <1>5, <1>6, PartIs
  <2>4. Len(Part(added, m, Len(added))) = 0
    BY <2>2, <2>3 DEF IsPart
  <2>5. QED
    BY <1>1, <1>5, <2>4 DEF Building
<1>10. Covers(index, file', added, m)
  BY <1>5, <1>8, CoversGrew
<1>11. OpenAt(m)'
  BY <1>1, <1>5, <1>8, <1>9, <1>10 DEF OpenAt
<1>12. QED
  BY <1>1, <1>2, <1>8, <1>11 DEF TableInv, Open

\* What is covered once the last block is flushed: d is the file then.
LEMMA LastCovered ==
    ASSUME TableInv, ~done, NEW d \in FlushedFiles
    PROVE  /\ FileState(d.file, FlushedOffset, d.lost) /\ Grew(file, d.file)
           /\ Covers(LastIndex, d.file, added, Len(added))
<1>1. AddedInv /\ FileInv /\ FileState(Now.file, offset, Now.lost)
  BY NowIs DEF TableInv, FileInv
<1>2. PICK m : OpenAt(m)
  BY DEF TableInv, Open
<1>3. /\ IsSeq(added) /\ Ordered(added) /\ Len(added) \in Nat
      /\ (added = <<>> <=> Len(added) = 0)
      /\ added # <<>> => lastKey = added[Len(added)].key
  BY <1>1, SeqEmpty DEF AddedInv
<1>4. m \in Nat /\ m <= Len(added) /\ Len(added) <= Len(added) /\ Covers(index, file, added, m)
  BY <1>2, <1>3 DEF OpenAt
<1> DEFINE h == FlushedHandle
           x == [key |-> lastKey, value |-> HandleValue(h)]
<1>5. /\ x.key = lastKey /\ x.value = HandleValue(h)
      /\ x.value = HandleValue(x.value.data) /\ x.value.data = h
  BY DEF HandleValue
<1>6. Grew(file, file)
  BY <1>1, SeqEmpty DEF FileInv, FileState, FileOk, Grew
<1> HIDE DEF h, x
<1>7. ASSUME m < Len(added), Grew(file, d.file), IsBlock(d.file, h, Part(added, m, Len(added))),
             LastIndex = AddTo(index, lastKey, HandleValue(h))
      PROVE  Covers(LastIndex, d.file, added, Len(added))
  <2>1. lastKey \in Key /\ lastKey = added[Len(added)].key
    <3>1. Len(added) \in 1 .. Len(added) /\ added # <<>>
      BY <1>3, <1>4, <1>7
    <3>2. QED
      BY <1>3, <3>1 DEF Ordered
  <2>2. ~Less(lastKey, lastKey)
    BY <2>1, LessIrreflexive
  <2>3. Stored(d.file, added, x, m, Len(added))
    BY <1>3, <1>4, <1>5, <1>7, <2>1, <2>2 DEF Stored
  <2>4. Covers(index, d.file, added, m)
    BY <1>4, <1>7, CoversGrew
  <2>5. Covers(AddTo(index, lastKey, HandleValue(h)), d.file, added, Len(added))
    BY <1>3, <2>3, <2>4, CoversEntry DEF x
  <2>6. QED
    BY <1>7, <2>5
<1>8. CASE pending
  <2>1. /\ data.num = 0 /\ m < Len(added)
        /\ IsBlock(file, handle, Part(added, m, Len(added)))
    BY <1>2, <1>8 DEF OpenAt, EmptyBuilder
  <2>2. d = Now /\ FlushedOffset = offset /\ h = handle
        /\ LastIndex = AddTo(index, lastKey, HandleValue(h))
    BY <1>8, <2>1 DEF FlushedFiles, FlushedOffset, FlushedHandle, LastIndex, h
  <2>3. d.file = file /\ d.lost = fails.lost
    BY <2>2, NowIs
  <2>4. QED
    BY <1>1, <1>6, <1>7, <2>1, <2>2, <2>3
<1>9. CASE ~pending
  <2>1. /\ Building(data, Part(added, m, Len(added)))
        /\ added # <<>> => m < Len(added)
    BY <1>2, <1>9 DEF OpenAt
  <2>2. IsPart(Part(added, m, Len(added)), added, m, Len(added))
    BY <1>3, <1>4, PartIs
  <2>3. data.num = Len(added) - m
    BY <2>1, <2>2 DEF Building, IsPart
  <2>4. CASE added = <<>>
    <3>1. m = 0 /\ Len(added) = 0 /\ ~(data.num > 0)
      BY <1>3, <1>4, <2>3, <2>4
    <3>2. d = Now /\ FlushedOffset = offset /\ LastIndex = index
      BY <1>9, <3>1 DEF FlushedFiles, FlushedOffset, LastIndex
    <3>3. d.file = file /\ d.lost = fails.lost
      BY <3>2, NowIs
    <3>4. QED
      BY <1>1, <1>4, <1>6, <3>1, <3>2, <3>3
  <2>5. CASE added # <<>>
    <3>1. m < Len(added) /\ data.num > 0
      BY <1>3, <1>4, <2>1, <2>3, <2>5
    <3>2. /\ d \in Writes(Now, Content(data), ContentSize(data))
          /\ FlushedOffset = EndOf(offset, data) /\ h = HandleAt(offset, data)
          /\ LastIndex = AddTo(index, lastKey, HandleValue(h))
      BY <3>1 DEF FlushedFiles, FlushedOffset, FlushedHandle, LastIndex, h
    <3>3. Ordered(Part(added, m, Len(added)))
      BY <1>3, <1>4, PartOrdered
    <3>4. /\ FileState(d.file, EndOf(offset, data), d.lost)
          /\ Grew(Now.file, d.file)
          /\ IsBlock(d.file, HandleAt(offset, data), Part(added, m, Len(added)))
      BY <1>1, <2>1, <3>2, <3>3, BlockWritten
    <3>5. Grew(file, d.file)
      BY <3>4, NowIs
    <3>6. QED
      BY <1>7, <3>1, <3>2, <3>4, <3>5
  <2>6. QED
    BY <2>4, <2>5
<1>10. QED
  BY <1>8, <1>9

LEMMA FinishKeeps == ASSUME TableInv, Finish PROVE TableInv'
<1> DEFINE at == HandleAt(FlushedOffset, LastIndex)
<1>1. PICK d \in FlushedFiles :
        \E i \in Writes(d, Content(LastIndex), ContentSize(LastIndex)) :
        \E w \in Writes(i, at, FooterSize) :
            file' = w.file /\ fails' = [fails EXCEPT !.lost = w.lost]
  BY DEF Finish
<1>2. PICK i \in Writes(d, Content(LastIndex), ContentSize(LastIndex)) :
        \E w \in Writes(i, at, FooterSize) :
            file' = w.file /\ fails' = [fails EXCEPT !.lost = w.lost]
  BY <1>1
<1>3. PICK w \in Writes(i, at, FooterSize) :
            file' = w.file /\ fails' = [fails EXCEPT !.lost = w.lost]
  BY <1>2
<1>4. /\ ~done /\ offset' = EndOf(FlushedOffset, LastIndex) + FooterSize
      /\ data' = EmptyBuilder /\ index' = EmptyBuilder /\ ~pending' /\ done'
      /\ lastKey' = lastKey /\ added' = added
  BY DEF Finish
<1>5. AddedInv /\ AddedInv' /\ FileInv
  BY <1>4 DEF TableInv, AddedInv
<1>6. /\ FileState(d.file, FlushedOffset, d.lost) /\ Grew(file, d.file)
      /\ Covers(LastIndex, d.file, added, Len(added))
  BY <1>4, LastCovered
<1>7. PICK ies, cut : IndexOk(d.file, added, ies, cut) /\ Building(LastIndex, ies)
  BY <1>6 DEF Covers
<1>8. /\ FileState(i.file, EndOf(FlushedOffset, LastIndex), i.lost)
      /\ Grew(d.file, i.file)
      /\ Kept(i.file, at, Content(LastIndex))
      /\ at.offset = FlushedOffset /\ at.size = ContentSize(LastIndex)
      /\ IsBlock(i.file, at, ies)
  <2>1. Ordered(ies)
    BY <1>7 DEF IndexOk
  <2>2. QED
    BY <1>6, <1>7, <2>1, BlockWritten
<1>9. at.offset \in Nat /\ at.size \in Nat /\ at.size > 0
  BY <1>8 DEF IsBlock
<1>10. at # None
  BY NotNone
<1> HIDE DEF at
<1>11. FooterSize \in Nat /\ FooterSize > 0
  BY DEF FooterSize
<1> DEFINE off == EndOf(FlushedOffset, LastIndex)
<1>12. /\ FileState(w.file, off + FooterSize, w.lost)
       /\ Grew(i.file, w.file)
       /\ Kept(w.file, [offset |-> off, size |-> FooterSize], at)
  BY <1>8, <1>10, <1>11, OneWrite
<1>13. FooterAt' = [offset |-> off, size |-> FooterSize]
  <2>1. off \in Nat
    BY <1>8 DEF FileState
  <2> HIDE DEF off
  <2>2. (off + FooterSize) - FooterSize = off
    BY <1>11, <2>1
  <2>3. offset' = off + FooterSize
    BY <1>4 DEF off
  <2>4. offset' - FooterSize = off
    BY <2>2, <2>3
  <2>5. FooterAt' = [offset |-> offset' - FooterSize, size |-> FooterSize]
    BY DEF FooterAt
  <2>6. QED
    BY <2>4, <2>5
<1>14. Kept(w.file, at, Content(LastIndex))
  BY <1>8, <1>12, GrewKeeps
<1>15. Covers(LastIndex, w.file, added, Len(added))
  BY <1>6, <1>8, <1>12, CoversGrew
<1>16. \E idx, h : ClosedAt(idx, h)'
  <2>1. /\ Covers(LastIndex, file', added', Len(added'))
        /\ Kept(file', at, Content(LastIndex)) /\ Kept(file', FooterAt', at)
    BY <1>3, <1>4, <1>12, <1>13, <1>14, <1>15
  <2>2. PICK idx, h : idx = LastIndex /\ h = at
    OBVIOUS
  <2>3. ClosedAt(idx, h)'
    BY <1>9, <2>1, <2>2 DEF ClosedAt
  <2>4. QED
    BY <2>3
<1>17. FileInv'
  <2>1. fails = [flush |-> fails.flush, lost |-> fails.lost]
    BY <1>5 DEF FileInv
  <2>2. fails' = [flush |-> fails.flush, lost |-> w.lost]
    BY <1>3, <2>1
  <2>3. fails'.lost = w.lost /\ fails' = [flush |-> fails'.flush, lost |-> fails'.lost]
    BY <2>2
  <2>4. QED
    BY <1>3, <1>4, <1>12, <2>3 DEF FileInv
<1>18. Closed'
  BY <1>4, <1>16 DEF Closed
<1>19. QED
  BY <1>4, <1>5, <1>17, <1>18 DEF TableInv

LEMMA TableStutters == ASSUME TableInv, UNCHANGED vars PROVE TableInv'
BY DEF vars, builderVars, TableInv, AddedInv, FileInv, Open, OpenAt, Closed, ClosedAt, FooterAt

LEMMA TableStep == ASSUME TableInv, [Next]_vars PROVE TableInv'
<1>1. ASSUME NEW key \in KeyBytes, AddOnly(key) \/ AddAndFlush(key) PROVE TableInv'
  BY <1>1, AddOnlyKeeps, AddAndFlushKeeps
<1>2. QED
  BY <1>1, FinishFailsKeeps, FinishKeeps, TableStutters DEF Next

\* The builder, the index and the file stay in step, whatever fails.
THEOREM TableInvariant == Spec => []TableInv
<1>1. TableInv /\ [Next]_vars => TableInv'
  BY TableStep
<1>2. QED
  BY <1>1, InitTable, PTL DEF Spec

-----------------------------------------------------------------------------
(* The handles while the table is built                                    *)

LEMMA FirstLossIs ==
    ASSUME FileOk(file), NEW i \in 1 .. Len(file), file[i].content = None
    PROVE  FirstLoss \in Nat /\ FirstLoss <= file[i].at
<1> DEFINE lost == {j \in DOMAIN file : file[j].content = None}
           k == CHOOSE j \in lost : \A q \in lost : j <= q
<1>1. Len(file) \in Nat /\ DOMAIN file = 1 .. Len(file)
  <2>1. PICK S : file \in Seq(S)
    BY DEF FileOk, IsSeq
  <2>2. QED
    BY <2>1, LenProperties
<1>2. i \in lost /\ lost \subseteq Nat
  BY <1>1
<1>3. FirstLoss = file[k].at
  BY <1>2 DEF FirstLoss
<1>4. k \in lost /\ k <= i
  <2>1. \E j \in lost : \A q \in lost : j <= q
    <3> HIDE DEF lost
    <3>1. lost # {}
      BY <1>2
    <3>2. QED
      BY <1>2, <3>1, LeastNumber
  <2>2. k \in lost /\ \A q \in lost : k <= q
    BY <2>1
  <2>3. QED
    BY <1>2, <2>2
<1>5. k \in 1 .. Len(file)
  BY <1>1, <1>4
<1> HIDE DEF k
<1>6. k = i \/ file[k].at + file[k].size <= file[i].at
  BY <1>1, <1>4, <1>5 DEF FileOk
<1>7. file[k].at \in Nat /\ file[k].size \in Nat /\ file[i].at \in Nat
  BY <1>5 DEF FileOk
<1>8. QED
  BY <1>3, <1>6, <1>7

\* What lies before the first loss is there.
LEMMA BlockLeads ==
    ASSUME FileOk(file), NEW h, NEW es, IsBlock(file, h, es), h.offset + h.size <= FirstLoss
    PROVE  IsThere(h)
<1>1. PICK c : Kept(file, h, c)
  BY DEF IsBlock
<1>2. h.offset \in Nat /\ h.size \in Nat /\ h.size > 0
  BY DEF IsBlock
<1>3. CASE Written(file, h, c)
  BY <1>2, <1>3, ReadIs
<1>4. CASE LostBefore(file, h.offset + h.size)
  <2>1. PICK i \in 1 .. Len(file) : file[i].content = None /\ file[i].at < h.offset + h.size
    BY <1>4 DEF LostBefore
  <2>2. file[i].at \in Nat
    BY DEF FileOk
  <2>3. FirstLoss \in Nat /\ FirstLoss <= file[i].at
    BY <2>1, FirstLossIs
  <2>4. QED
    BY <1>2, <2>1, <2>2, <2>3
<1>5. QED
  BY <1>1, <1>3, <1>4 DEF Kept

LEMMA BuilderView == ASSUME TableInv PROVE TypeOK
<1>1. AddedInv /\ FileInv /\ (done => Closed) /\ (~done => Open)
  BY DEF TableInv
<1>2. EmptyBuilder.num = 0 /\ Len(EmptyBuilder.entries) = 0
  BY DEF EmptyBuilder
<1>3. /\ pending => (data = EmptyBuilder /\ handle.offset + handle.size = offset)
      /\ data.num = Len(data.entries) /\ (data.num > 0 => DataSize(data) < blockSize)
  <2>1. CASE done
    BY <1>1, <1>2, <2>1 DEF Closed
  <2>2. CASE ~done
    <3>1. PICK m : OpenAt(m)
      BY <1>1, <2>2 DEF Open
    <3>2. CASE pending
      BY <1>2, <3>1, <3>2 DEF OpenAt
    <3>3. CASE ~pending
      BY <3>1, <3>3 DEF OpenAt, Building, Holds
    <3>4. QED
      BY <3>2, <3>3
  <2>3. QED
    BY <2>1, <2>2
<1>4. fails.lost = 0 => offset = FileEnd(file)
  BY <1>1 DEF FileInv, FileState
<1>5. QED
  BY <1>1, <1>3, <1>4 DEF TypeOK, AddedInv

LEMMA HandleIsBlock ==
    ASSUME TableInv, NEW h \in Handles
    PROVE  \E es : IsBlock(file, h, es)
<1>1. ~done
  <2>1. SUFFICES ASSUME done PROVE FALSE
    OBVIOUS
  <2>2. index.entries = <<>> /\ ~pending
    BY <2>1 DEF TableInv, Closed, EmptyBuilder
  <2>3. QED
    BY <2>2 DEF Handles
<1>2. PICK m : OpenAt(m)
  BY <1>1 DEF TableInv, Open
<1>3. CASE pending /\ h = handle
  BY <1>2, <1>3 DEF OpenAt
<1>4. CASE \E i \in DOMAIN index.entries : h = index.entries[i].value.data
  <2>1. PICK i \in DOMAIN index.entries : h = index.entries[i].value.data
    BY <1>4
  <2>2. PICK ies, cut : IndexOk(file, added, ies, cut) /\ Building(index, ies)
    BY <1>2 DEF OpenAt, Covers
  <2>3. i \in 1 .. Len(ies)
    <3>1. IsSeq(index.entries) /\ Len(index.entries) = Len(ies)
      BY <2>2 DEF Building, Holds
    <3>2. PICK S : index.entries \in Seq(S)
      BY <3>1 DEF IsSeq
    <3>3. DOMAIN index.entries = 1 .. Len(index.entries)
      BY <3>2, LenProperties
    <3>4. QED
      BY <2>1, <3>1, <3>3
  <2>4. index.entries[i].value = ies[i].value
    BY <2>2, <2>3, SuffixStays DEF IndexOk, Building
  <2>5. Stored(file, added, ies[i], cut[i - 1], cut[i])
    BY <2>2, <2>3 DEF IndexOk
  <2>6. QED
    BY <2>1, <2>4, <2>5 DEF Stored
<1>5. QED
  BY <1>3, <1>4 DEF Handles

\* While a table is built, every handle to what was written before the first append
\* that failed leads to a block that is there (SSTable_builder.cpp:171).
THEOREM HandlesLeadAlways == Spec => []HandlesLead
<1>1. TableInv => HandlesLead
  <2> SUFFICES ASSUME TableInv PROVE HandlesLead
    OBVIOUS
  <2>1. FileOk(file)
    BY DEF TableInv, FileInv, FileState
  <2>2. ASSUME NEW h \in Handles, h.offset + h.size <= FirstLoss PROVE IsThere(h)
    BY <2>1, <2>2, HandleIsBlock, BlockLeads
  <2>3. QED
    BY <2>2, BuilderView DEF HandlesLead
<1>2. QED
  BY TableInvariant, <1>1, PTL

-----------------------------------------------------------------------------
(* What a reader finds in a finished table                                 *)

\* The reader's index block holds ies, and its blocks what is between the cuts.
Opened(ies, cut) ==
    /\ IndexOk(file, added, ies, cut)
    /\ Len(ies) > 0 /\ cut[Len(ies)] = Len(added)
    /\ IsThere(FooterAt) /\ IsThere(ReadAt(FooterAt))
    /\ Holds(IndexBlock, ies)
    /\ \A i \in 1 .. Len(ies) : /\ IsThere(IndexBlock.entries[i].value.data)
                                /\ Holds(BlockAt(i), Part(added, cut[i - 1], cut[i]))

LEMMA TableOpens ==
    ASSUME TableInv, Table
    PROVE  \E ies, cut : Opened(ies, cut)
<1>1. /\ FileOk(file) /\ \A i \in 1 .. Len(file) : file[i].content # None
      /\ IsSeq(added) /\ Len(added) \in Nat /\ Len(added) > 0
  <2>1. IsSeq(added) /\ added # <<>> /\ fails.lost = 0
    BY DEF TableInv, AddedInv, Table
  <2>2. FileState(file, offset, 0)
    BY <2>1 DEF TableInv, FileInv
  <2>3. QED
    BY <2>1, <2>2, SeqEmpty DEF FileState
<1>2. ASSUME NEW h, NEW c, Kept(file, h, c) PROVE Written(file, h, c)
  BY <1>1, <1>2 DEF Kept, LostBefore
<1>3. PICK idx, h : ClosedAt(idx, h)
  BY DEF TableInv, Closed, Table
<1>4. PICK ies, cut : /\ IndexOk(file, added, ies, cut) /\ Building(idx, ies)
                      /\ cut[Len(ies)] = Len(added)
  BY <1>3 DEF ClosedAt, Covers
<1>5. Len(ies) \in Nat /\ Len(ies) > 0
  BY <1>1, <1>4, SeqEmpty DEF IndexOk
<1>6. IsThere(FooterAt) /\ ReadAt(FooterAt) = h
  <2>1. FooterAt.size \in Nat /\ FooterAt.size > 0
    BY DEF FooterAt, FooterSize
  <2>2. Written(file, FooterAt, h)
    BY <1>2, <1>3 DEF ClosedAt
  <2>3. QED
    BY <1>1, <2>1, <2>2, ReadIs
<1>7. IsThere(h) /\ ReadAt(h) = Content(idx)
  <2>1. h.size \in Nat /\ h.size > 0 /\ Written(file, h, Content(idx))
    BY <1>2, <1>3 DEF ClosedAt
  <2>2. QED
    BY <1>1, <2>1, ReadIs
<1>8. IndexBlock = Content(idx) /\ Holds(IndexBlock, ies)
  <2>1. IndexBlock = Content(idx)
    BY <1>6, <1>7 DEF IndexBlock
  <2>2. Holds(Content(idx), ies)
    BY <1>4 DEF Building, Holds, Content
  <2>3. QED
    BY <2>1, <2>2
<1>9. ASSUME NEW i \in 1 .. Len(ies)
      PROVE  /\ IsThere(IndexBlock.entries[i].value.data)
             /\ Holds(BlockAt(i), Part(added, cut[i - 1], cut[i]))
  <2> DEFINE g == IndexBlock.entries[i].value.data
  <2>1. Stored(file, added, ies[i], cut[i - 1], cut[i])
    BY <1>4 DEF IndexOk
  <2>2. IndexBlock.entries[i].value = ies[i].value
    BY <1>4, <1>8, SuffixStays DEF IndexOk
  <2>3. IsBlock(file, g, Part(added, cut[i - 1], cut[i]))
    BY <2>1, <2>2 DEF Stored
  <2> HIDE DEF g
  <2>4. PICK c : Holds(c, Part(added, cut[i - 1], cut[i])) /\ Kept(file, g, c)
    BY <2>3 DEF IsBlock
  <2>5. g.size \in Nat /\ g.size > 0 /\ Written(file, g, c)
    BY <1>2, <2>3, <2>4 DEF IsBlock
  <2>6. IsThere(g) /\ ReadAt(g) = c
    BY <1>1, <2>5, ReadIs
  <2>7. QED
    BY <2>4, <2>6 DEF BlockAt, g
<1>10. Opened(ies, cut)
  BY <1>4, <1>5, <1>6, <1>7, <1>8, <1>9 DEF Opened
<1>11. QED
  BY <1>10

\* The index of a finished table
LEMMA IndexIs ==
    ASSUME TableInv, NEW ies, NEW cut, Opened(ies, cut)
    PROVE  /\ Len(ies) \in Nat /\ Len(ies) > 0 /\ Ordered(ies) /\ Len(added) \in Nat
           /\ Len(IndexBlock.entries) = Len(ies) /\ ~Hidden(ies)
           /\ Separators = [i \in 1 .. Len(ies) |-> ies[i].key]
           /\ \A i \in 0 .. Len(ies) : cut[i] \in Nat /\ cut[i] <= Len(added)
           /\ cut[0] = 0 /\ cut[Len(ies)] = Len(added)
           /\ \A i \in 1 .. Len(ies) : Stored(file, added, ies[i], cut[i - 1], cut[i])
<1>1. /\ IndexOk(file, added, ies, cut) /\ Len(ies) > 0 /\ Holds(IndexBlock, ies)
      /\ cut[Len(ies)] = Len(added)
  BY DEF Opened
<1>2. /\ Ordered(ies) /\ Len(ies) \in Nat /\ cut[0] = 0
      /\ \A i \in 1 .. Len(ies) : Stored(file, added, ies[i], cut[i - 1], cut[i])
  BY <1>1, SeqEmpty DEF IndexOk
<1>3. Len(added) \in Nat
  BY SeqEmpty DEF TableInv, AddedInv
<1>4. \A i \in 0 .. Len(ies) : cut[i] \in Nat /\ cut[i] <= Len(added)
  BY <1>1, <1>3, CutsAre
<1>5. ~Hidden(ies)
  <2>1. 1 \in 1 .. Len(ies)
    BY <1>1, <1>2
  <2>2. ies[1].value.size = 16
    <3>1. ies[1].value = HandleValue(ies[1].value.data)
      BY <1>2, <2>1 DEF Stored
    <3>2. \A h : HandleValue(h).size = 16
      BY DEF HandleValue, HandleSize
    <3>3. QED
      BY <3>1, <3>2
  <2>3. QED
    BY <2>2 DEF Hidden
<1>6. Separators = [i \in 1 .. Len(ies) |-> ies[i].key]
  BY <1>1, <1>2, KeysAre DEF Separators
<1>7. Len(IndexBlock.entries) = Len(ies)
  BY <1>1 DEF Holds
<1>8. QED
  BY <1>1, <1>2, <1>3, <1>4, <1>5, <1>6, <1>7

\* Block i of a finished table shows its part of what was added.
BlockHas(i, part, lo, hi) ==
    /\ lo \in Nat /\ hi \in Nat /\ lo < hi /\ hi <= Len(added)
    /\ Holds(BlockAt(i), part) /\ Ordered(part) /\ IsSeq(part)
    /\ Len(part) = hi - lo /\ Len(part) \in Nat /\ Len(part) > 0
    /\ \A j \in 1 .. Len(part) : part[j] = added[lo + j]
    /\ Len(BlockAt(i).entries) = Len(part) /\ ~Hidden(part)
    /\ Keys(BlockAt(i)) = [j \in 1 .. Len(part) |-> part[j].key]
    /\ \A j \in 1 .. Len(part) : BlockAt(i).entries[j].value = part[j].value

LEMMA BlockIs ==
    ASSUME TableInv, NEW ies, NEW cut, Opened(ies, cut), NEW i \in 1 .. Len(ies)
    PROVE  BlockHas(i, Part(added, cut[i - 1], cut[i]), cut[i - 1], cut[i])
<1> DEFINE lo == cut[i - 1]
           hi == cut[i]
           part == Part(added, lo, hi)
<1>1. Stored(file, added, ies[i], lo, hi) /\ Len(added) \in Nat
  BY IndexIs
<1>2. IsSeq(added) /\ Ordered(added) /\ Stamped(added)
  BY DEF TableInv, AddedInv
<1>3. Holds(BlockAt(i), part)
  BY DEF Opened
<1>4. part = Part(added, lo, hi)
  OBVIOUS
<1> HIDE DEF lo, hi, part
<1>5. lo \in Nat /\ hi \in Nat /\ lo < hi /\ hi <= Len(added) /\ lo <= hi
  BY <1>1 DEF Stored
<1>6. Ordered(part)
  BY <1>2, <1>4, <1>5, PartOrdered
<1>7. IsPart(part, added, lo, hi)
  BY <1>2, <1>4, <1>5, PartIs
<1>8. /\ IsSeq(part) /\ Len(part) = hi - lo /\ Len(part) \in Nat /\ Len(part) > 0
      /\ \A j \in 1 .. Len(part) : part[j] = added[lo + j]
  BY <1>5, <1>7 DEF IsPart
<1>9. ~Hidden(part)
  <2>1. 1 \in 1 .. Len(part) /\ lo + 1 \in 1 .. Len(added)
    BY <1>1, <1>5, <1>8
  <2>2. part[1] = [key |-> added[lo + 1].key, value |-> Value((lo + 1) - 1)]
    BY <1>2, <1>8, <2>1 DEF Stamped
  <2>3. part[1].value.size = 1
    BY <2>2 DEF Value
  <2>4. QED
    BY <2>3 DEF Hidden
<1>10. Len(BlockAt(i).entries) = Len(part)
  BY <1>3 DEF Holds
<1>11. Keys(BlockAt(i)) = [j \in 1 .. Len(part) |-> part[j].key]
  BY <1>3, <1>6, <1>8, KeysAre
<1>12. \A j \in 1 .. Len(part) : BlockAt(i).entries[j].value = part[j].value
  BY <1>3, <1>6, SuffixStays
<1>13. QED
  BY <1>3, <1>5, <1>6, <1>8, <1>9, <1>10, <1>11, <1>12 DEF BlockHas, lo, hi, part

\* What Finish says is a table is one, whatever flushes failed before.
THEOREM FinishedTablesAreReadable == Spec => []FinishedIsReadable
<1>1. TableInv => FinishedIsReadable
  <2> SUFFICES ASSUME TableInv, Table PROVE Readable
    BY DEF FinishedIsReadable
  <2>1. PICK ies, cut : Opened(ies, cut)
    BY TableOpens
  <2>2. Len(IndexBlock.entries) = Len(ies)
    BY <2>1, IndexIs
  <2>3. QED
    BY <2>1, <2>2 DEF Opened, Readable
<1>2. QED
  BY TableInvariant, <1>1, PTL

\* Each separator is at least the last key of its block and below the first key of
\* the next.
THEOREM SeparatorsSplitKeys == Spec => []SeparatorsSplit
<1>1. TableInv => SeparatorsSplit
  <2> SUFFICES ASSUME TableInv, Table, NEW i \in 1 .. Len(IndexBlock.entries)
               PROVE  /\ ~Less(Separators[i], Keys(BlockAt(i))[Len(BlockAt(i).entries)])
                      /\ i > 1 => Less(Separators[i - 1], Keys(BlockAt(i))[1])
    BY DEF SeparatorsSplit
  <2>1. PICK ies, cut : Opened(ies, cut)
    BY TableOpens
  <2> DEFINE lo == cut[i - 1]
             hi == cut[i]
             part == Part(added, lo, hi)
  <2>2. /\ Len(ies) \in Nat /\ i \in 1 .. Len(ies) /\ Len(added) \in Nat
        /\ Separators = [j \in 1 .. Len(ies) |-> ies[j].key]
        /\ \A j \in 1 .. Len(ies) : Stored(file, added, ies[j], cut[j - 1], cut[j])
    BY <2>1, IndexIs
  <2>3. /\ lo \in Nat /\ hi \in Nat /\ lo < hi /\ hi <= Len(added)
        /\ Len(part) = hi - lo /\ Len(part) > 0 /\ Len(part) \in Nat
        /\ \A j \in 1 .. Len(part) : part[j] = added[lo + j]
        /\ Len(BlockAt(i).entries) = Len(part)
        /\ Keys(BlockAt(i)) = [j \in 1 .. Len(part) |-> part[j].key]
    <3>1. BlockHas(i, part, lo, hi)
      BY <2>1, <2>2, BlockIs
    <3> HIDE DEF part, lo, hi
    <3>2. QED
      BY <3>1 DEF BlockHas
  <2>4. Stored(file, added, ies[i], lo, hi)
    BY <2>2
  <2>5. i > 1 => /\ i - 1 \in 1 .. Len(ies)
                 /\ \E q : Stored(file, added, ies[i - 1], q, lo)
    BY <2>2
  <2> HIDE DEF lo, hi, part
  <2>6. lo + (hi - lo) = hi /\ Len(part) \in 1 .. Len(part) /\ 1 \in 1 .. Len(part)
    BY <2>3
  <2>7. /\ Keys(BlockAt(i))[Len(BlockAt(i).entries)] = added[hi].key
        /\ Keys(BlockAt(i))[1] = added[lo + 1].key
    BY <2>3, <2>6
  <2>8. ~Less(ies[i].key, added[hi].key)
    BY <2>4 DEF Stored
  <2>9. i > 1 => Less(ies[i - 1].key, added[lo + 1].key)
    BY <2>2, <2>3, <2>5 DEF Stored
  <2>10. QED
    BY <2>2, <2>5, <2>7, <2>8, <2>9
<1>2. QED
  BY TableInvariant, <1>1, PTL

-----------------------------------------------------------------------------
(* The blocks one after the other                                          *)

\* What the block holds, as BlocksHoldAdded reads it, is its part of what was added.
LEMMA BlockShows ==
    ASSUME TableInv, NEW ies, NEW cut, Opened(ies, cut), NEW i \in 1 .. Len(ies)
    PROVE  [j \in 1 .. Len(BlockAt(i).entries) |->
              [key |-> Keys(BlockAt(i))[j], value |-> BlockAt(i).entries[j].value]]
             = Part(added, cut[i - 1], cut[i])
<1> DEFINE part == Part(added, cut[i - 1], cut[i])
           lo == cut[i - 1]
<1>1. /\ lo \in Nat /\ cut[i] \in Nat /\ lo < cut[i] /\ cut[i] <= Len(added)
      /\ IsSeq(part) /\ Len(part) = cut[i] - lo /\ Len(part) \in Nat
      /\ \A j \in 1 .. Len(part) : part[j] = added[lo + j]
      /\ Len(BlockAt(i).entries) = Len(part)
      /\ Keys(BlockAt(i)) = [j \in 1 .. Len(part) |-> part[j].key]
      /\ \A j \in 1 .. Len(part) : BlockAt(i).entries[j].value = part[j].value
  <2>1. BlockHas(i, part, lo, cut[i])
    BY BlockIs
  <2> HIDE DEF part, lo
  <2>2. QED
    BY <2>1 DEF BlockHas
<1>2. Stamped(added) /\ Len(added) \in Nat
  BY SeqEmpty DEF TableInv, AddedInv
<1> HIDE DEF part, lo
<1>3. part = [j \in 1 .. Len(part) |-> part[j]]
  <2>1. PICK S : part \in Seq(S)
    BY <1>1 DEF IsSeq
  <2>2. part \in [1 .. Len(part) -> S]
    BY <2>1, LenProperties
  <2>3. QED
    BY <2>2
<1>4. ASSUME NEW j \in 1 .. Len(part)
      PROVE  [key |-> Keys(BlockAt(i))[j], value |-> BlockAt(i).entries[j].value] = part[j]
  <2>1. lo + j \in 1 .. Len(added)
    BY <1>1, <1>2
  <2>2. part[j] = [key |-> part[j].key, value |-> Value((lo + j) - 1)]
    BY <1>1, <1>2, <2>1 DEF Stamped
  <2>3. part[j] = [key |-> part[j].key, value |-> part[j].value]
    BY <2>2
  <2>4. Keys(BlockAt(i))[j] = part[j].key /\ BlockAt(i).entries[j].value = part[j].value
    BY <1>1
  <2>5. QED
    BY <2>3, <2>4
<1> DEFINE Shown(j) == [key |-> Keys(BlockAt(i))[j], value |-> BlockAt(i).entries[j].value]
<1>5. \A j \in 1 .. Len(part) : Shown(j) = part[j]
  BY <1>4
<1> HIDE DEF Shown
<1>6. [j \in 1 .. Len(part) |-> Shown(j)] = [j \in 1 .. Len(part) |-> part[j]]
  BY <1>5
<1>7. [j \in 1 .. Len(BlockAt(i).entries) |-> Shown(j)] = part
  BY <1>1, <1>3, <1>6
<1>8. QED
  BY <1>7 DEF part, Shown

\* The blocks, in the order of the index, hold what was added, in that order and once
\* each.
THEOREM BlocksHoldWhatWasAdded == Spec => []BlocksHoldAdded
<1> DEFINE Shown(i) == [j \in 1 .. Len(BlockAt(i).entries) |->
                          [key |-> Keys(BlockAt(i))[j], value |-> BlockAt(i).entries[j].value]]
           n == Len(IndexBlock.entries)
           Step(h, i) == IF i = 0 THEN <<>> ELSE h[i - 1] \o Shown(i)
           P(h) == h = [i \in 0 .. n |-> Step(h, i)]
           F == CHOOSE h : P(h)
<1>1. TableInv => BlocksHoldAdded
  <2> SUFFICES ASSUME TableInv, Table PROVE F[n] = added
    BY DEF BlocksHoldAdded
  <2>1. PICK ies, cut : Opened(ies, cut)
    BY TableOpens
  <2>2. /\ n = Len(ies) /\ n \in Nat /\ Len(added) \in Nat
        /\ \A i \in 0 .. n : cut[i] \in Nat /\ cut[i] <= Len(added)
        /\ cut[0] = 0 /\ cut[n] = Len(added)
    BY <2>1, IndexIs
  <2>3. PICK S : added \in Seq(S)
    BY DEF TableInv, AddedInv, IsSeq
  <2> DEFINE f == [i \in 0 .. n |-> SubSeq(added, 1, cut[i])]
  <2>4. f[0] = <<>>
    <3>1. 1 \in Int /\ 0 \in Int /\ 0 < 1
      OBVIOUS
    <3>2. SubSeq(added, 1, 0) = <<>>
      BY ONLY <3>1, SubSeqEmpty
    <3>3. QED
      BY <2>2, <3>2
  <2>5. ASSUME NEW i \in 1 .. n PROVE f[i] = f[i - 1] \o Shown(i)
    <3>1. Shown(i) = SubSeq(added, cut[i - 1] + 1, cut[i])
      BY <2>1, <2>2, BlockShows DEF Part
    <3>2. cut[i - 1] \in Nat /\ cut[i] \in Nat /\ cut[i - 1] < cut[i] /\ cut[i] <= Len(added)
      BY <2>1, <2>2, BlockIs DEF BlockHas
    <3>3. /\ 1 \in 1 .. Len(added) + 1 /\ cut[i - 1] \in 1 - 1 .. Len(added)
          /\ cut[i] \in cut[i - 1] .. Len(added)
      BY <2>2, <3>2
    <3>4. SubSeq(added, 1, cut[i - 1]) \o SubSeq(added, cut[i - 1] + 1, cut[i])
            = SubSeq(added, 1, cut[i])
      BY ONLY <2>3, <3>3, ConcatAdjacentSubSeq
    <3>5. i \in 0 .. n /\ i - 1 \in 0 .. n
      BY <2>2
    <3> HIDE DEF Shown
    <3>6. QED
      BY <3>1, <3>4, <3>5
  <2>6. f[n] = added
    <3>1. SubSeq(added, 1, Len(added)) = added
      BY <2>3, SubSeqFull
    <3>2. n \in 0 .. n
      BY <2>2
    <3>3. QED
      BY <2>2, <3>1, <3>2
  <2> HIDE DEF Shown, n
  <2>7. P(f)
    <3>1. ASSUME NEW i \in 0 .. n PROVE f[i] = Step(f, i)
      <4>1. i = 0 \/ i \in 1 .. n
        BY <2>2
      <4> HIDE DEF f
      <4>2. QED
        BY <2>4, <2>5, <4>1
    <3>2. f = [i \in 0 .. n |-> f[i]]
      OBVIOUS
    <3> HIDE DEF f, Step
    <3>3. QED
      BY <3>1, <3>2
  <2>8. P(F)
    <3> HIDE DEF P
    <3>1. QED
      BY <2>7
  <2> HIDE DEF F, f
  <2>9. \A i \in 0 .. n : F[i] = f[i]
    <3> DEFINE Bad == {i \in 0 .. n : F[i] # f[i]}
    <3>1. SUFFICES ASSUME Bad # {} PROVE FALSE
      OBVIOUS
    <3>2. Bad \subseteq Nat
      BY <2>2
    <3>3. PICK i \in Bad : \A j \in Bad : i <= j
      <4> HIDE DEF Bad
      <4>1. QED
        BY <3>1, <3>2, LeastNumber
    <3>4. i \in 0 .. n /\ F[i] = Step(F, i) /\ f[i] = Step(f, i)
      BY <2>7, <2>8, <3>3
    <3>5. i # 0 => F[i - 1] = f[i - 1]
      <4>1. i # 0 => i - 1 \in 0 .. n /\ ~(i <= i - 1)
        BY <2>2, <3>4
      <4>2. QED
        BY <3>3, <4>1
    <3>6. QED
      BY <3>3, <3>4, <3>5
  <2>10. n \in 0 .. n
    BY <2>2
  <2>11. QED
    BY <2>6, <2>9, <2>10
<1>2. QED
  BY TableInvariant, <1>1, PTL

-----------------------------------------------------------------------------
(* The two finds of a finished table                                       *)

\* The search of a block for a key that is in it ...
LEMMA FindInBlock ==
    ASSUME TableInv, NEW ies, NEW cut, Opened(ies, cut), NEW i \in 1 .. Len(ies),
           NEW t \in 1 .. Len(added), cut[i - 1] < t, t <= cut[i]
    PROVE  /\ Find(BlockAt(i), added[t].key) = t - cut[i - 1]
           /\ FindIn(BlockAt(i), added[t].key) = added[t].value
<1> DEFINE lo == cut[i - 1]
           hi == cut[i]
           part == Part(added, lo, hi)
           c == BlockAt(i)
           q == t - lo
<1>1. BlockHas(i, part, lo, hi)
  BY BlockIs
<1> HIDE DEF lo, hi, part, c
<1>2. /\ lo \in Nat /\ hi \in Nat
      /\ Holds(c, part) /\ Ordered(part)
      /\ Len(part) = hi - lo /\ Len(part) \in Nat /\ Len(part) > 0
      /\ \A j \in 1 .. Len(part) : part[j] = added[lo + j]
      /\ ~Hidden(part)
      /\ \A j \in 1 .. Len(part) : c.entries[j].value = part[j].value
  BY <1>1 DEF BlockHas, c
<1>3. lo < t /\ t <= hi /\ t \in Nat
  BY DEF lo, hi
<1>4. q \in 1 .. Len(part) /\ q \in 1 .. Len(part) + 1 /\ q # Len(part) + 1 /\ lo + q = t
  BY <1>2, <1>3
<1> HIDE DEF q
<1>5. part[q] = added[t]
  BY <1>2, <1>4
<1>6. Find(c, added[t].key) = q
  BY <1>2, <1>4, <1>5, FindThere
<1>7. ~AtEnd(c, q)
  BY <1>2, <1>4, EndIsPast
<1>8. FindIn(c, added[t].key) = added[t].value
  BY <1>2, <1>4, <1>5, <1>6, <1>7 DEF FindIn
<1>9. QED
  BY <1>6, <1>8 DEF q, lo, c

\* ... and for any key.
LEMMA FindInAny ==
    ASSUME TableInv, NEW ies, NEW cut, Opened(ies, cut), NEW i \in 1 .. Len(ies),
           NEW key \in Key, FindIn(BlockAt(i), key) # None
    PROVE  \E t \in 1 .. Len(added) : /\ cut[i - 1] < t /\ t <= cut[i]
                                      /\ added[t].key = key
                                      /\ FindIn(BlockAt(i), key) = added[t].value
<1> DEFINE lo == cut[i - 1]
           hi == cut[i]
           part == Part(added, lo, hi)
           c == BlockAt(i)
<1>1. BlockHas(i, part, lo, hi)
  BY BlockIs
<1> HIDE DEF lo, hi, part
<1>2. /\ lo \in Nat /\ hi \in Nat /\ hi <= Len(added)
      /\ Holds(c, part) /\ Ordered(part)
      /\ Len(part) = hi - lo /\ Len(part) \in Nat /\ Len(part) > 0
      /\ \A j \in 1 .. Len(part) : part[j] = added[lo + j]
      /\ ~Hidden(part)
  BY <1>1 DEF BlockHas
<1>3. Len(added) \in Nat
  BY IndexIs
<1> HIDE DEF c
<1>4. CASE \A q \in 1 .. Len(part) : part[q].key # key
  <2>1. Find(c, key) = Len(part) + 1
    BY <1>2, <1>4, FindAbsent
  <2>2. Len(part) + 1 \in 1 .. Len(part) + 1
    BY <1>2
  <2>3. AtEnd(c, Find(c, key))
    BY <1>2, <2>1, <2>2, EndIsPast
  <2>4. FindIn(c, key) = None
    BY <2>3 DEF FindIn
  <2>5. QED
    BY <2>4 DEF c
<1>5. CASE \E q \in 1 .. Len(part) : part[q].key = key
  <2>1. PICK q \in 1 .. Len(part) : part[q].key = key
    BY <1>5
  <2> DEFINE t == lo + q
  <2>2. t \in 1 .. Len(added) /\ lo < t /\ t <= hi
    BY <1>2, <1>3
  <2>3. added[t].key = key
    BY <1>2, <2>1
  <2> HIDE DEF t
  <2>4. FindIn(BlockAt(i), added[t].key) = added[t].value
    BY <2>2, FindInBlock DEF lo, hi
  <2>5. QED
    BY <2>2, <2>3, <2>4 DEF lo, hi
<1>6. QED
  BY <1>4, <1>5

\* A key of the table has one value.
LEMMA ValueIs ==
    ASSUME TableInv, NEW t \in 1 .. Len(added)
    PROVE  added[t].key \in TableKeys /\ ValueOf(added[t].key) = added[t].value
<1>1. added[t] \in {added[n] : n \in 1 .. Len(added)}
  OBVIOUS
<1>2. ASSUME NEW e \in {added[n] : n \in 1 .. Len(added)}, e.key = added[t].key
      PROVE  e = added[t]
  <2>1. PICK n \in 1 .. Len(added) : e = added[n]
    OBVIOUS
  <2>2. Ordered(added)
    BY DEF TableInv, AddedInv
  <2>3. n = t
    BY <1>2, <2>1, <2>2, OnePlace
  <2>4. QED
    BY <2>1, <2>3
<1>3. (CHOOSE e \in {added[n] : n \in 1 .. Len(added)} : e.key = added[t].key) = added[t]
  BY <1>1, <1>2
<1>4. QED
  BY <1>3 DEF ValueOf, TableKeys

\* The block that an entry is in
LEMMA BlockOf ==
    ASSUME TableInv, NEW ies, NEW cut, Opened(ies, cut), NEW t \in 1 .. Len(added)
    PROVE  \E i \in 1 .. Len(ies) : cut[i - 1] < t /\ t <= cut[i]
<1> DEFINE n == Len(ies)
           S == {i \in 0 .. n : t <= cut[i]}
<1>1. /\ n \in Nat /\ n > 0 /\ Len(added) \in Nat
      /\ \A i \in 0 .. n : cut[i] \in Nat /\ cut[i] <= Len(added)
      /\ cut[0] = 0 /\ cut[n] = Len(added)
  BY IndexIs
<1>2. PICK i \in S : \A j \in S : i <= j
  <2>1. n \in S /\ S \subseteq Nat
    BY <1>1
  <2> HIDE DEF S
  <2>2. QED
    BY <2>1, LeastNumber
<1>3. i \in 0 .. n /\ t <= cut[i] /\ i # 0
  BY <1>1, <1>2
<1>4. i \in 1 .. n /\ i - 1 \in 0 .. n /\ ~(i <= i - 1)
  BY <1>1, <1>3
<1>5. ~(t <= cut[i - 1])
  BY <1>2, <1>4
<1>6. cut[i - 1] < t
  BY <1>1, <1>4, <1>5
<1>7. QED
  BY <1>3, <1>4, <1>6

\* From the first separator on the index leads to the block a key is in.
LEMMA IndexLeads ==
    ASSUME TableInv, NEW ies, NEW cut, Opened(ies, cut), NEW i \in 1 .. Len(ies),
           NEW t \in 1 .. Len(added), cut[i - 1] < t, t <= cut[i],
           ~Less(added[t].key, ies[1].key)
    PROVE  LowerBound(IndexBlock, added[t].key) = i
<1> DEFINE n == Len(ies)
           key == added[t].key
           lo == cut[i - 1]
           hi == cut[i]
<1>1. /\ n \in Nat /\ n > 0 /\ Ordered(ies) /\ Len(added) \in Nat /\ ~Hidden(ies)
      /\ \A j \in 1 .. n : Stored(file, added, ies[j], cut[j - 1], cut[j])
  BY IndexIs
<1>2. Ordered(added)
  BY DEF TableInv, AddedInv
<1>3. /\ lo \in Nat /\ hi \in Nat /\ hi <= Len(added)
      /\ ies[i].key \in Key /\ ~Less(ies[i].key, added[hi].key)
  BY <1>1 DEF Stored
<1>4. i > 1 => /\ i - 1 \in 1 .. n
               /\ ies[i - 1].key \in Key /\ Less(ies[i - 1].key, added[lo + 1].key)
  <2>1. SUFFICES ASSUME i > 1
                 PROVE  /\ i - 1 \in 1 .. n
                        /\ ies[i - 1].key \in Key /\ Less(ies[i - 1].key, added[lo + 1].key)
    OBVIOUS
  <2>2. i - 1 \in 1 .. n
    BY <1>1, <2>1
  <2>3. PICK q : Stored(file, added, ies[i - 1], q, lo)
    BY <1>1, <2>2
  <2>4. lo < Len(added)
    BY <1>1, <1>3
  <2> HIDE DEF lo
  <2>5. QED
    BY <2>2, <2>3, <2>4 DEF Stored
<1>5. lo < t /\ t <= hi /\ t \in Nat
  OBVIOUS
<1>6. \A a \in 1 .. Len(added) : added[a].key \in Key
  BY <1>2 DEF Ordered
<1> HIDE DEF lo, hi
<1>7. /\ key \in Key /\ hi \in 1 .. Len(added) /\ lo + 1 \in 1 .. Len(added)
      /\ added[hi].key \in Key /\ added[lo + 1].key \in Key
  <2>1. hi \in 1 .. Len(added) /\ lo + 1 \in 1 .. Len(added)
    BY <1>1, <1>3, <1>5
  <2>2. QED
    BY <1>6, <2>1
<1>8. ~Less(ies[i].key, key)
  <2>1. t = hi \/ Less(key, added[hi].key)
    <3>1. t = hi \/ t < hi
      BY <1>3, <1>5
    <3>2. QED
      BY <1>2, <1>7, <3>1 DEF Ordered
  <2>2. SUFFICES ASSUME Less(ies[i].key, key) PROVE FALSE
    OBVIOUS
  <2>3. Less(ies[i].key, added[hi].key)
    BY <1>3, <1>7, <2>1, <2>2, LessTransitive
  <2>4. QED
    BY <1>3, <2>3
<1>9. i > 1 => Less(ies[i - 1].key, key)
  <2>1. lo + 1 = t \/ Less(added[lo + 1].key, key)
    <3>1. lo + 1 = t \/ lo + 1 < t
      BY <1>3, <1>5
    <3>2. QED
      BY <1>2, <1>7, <3>1 DEF Ordered
  <2>2. QED
    BY <1>4, <1>7, <2>1, LessTransitive
<1> HIDE DEF key
<1>10. LeastNotBelow(ies, key, i)
  <2>1. ASSUME NEW j \in 1 .. i - 1 PROVE Less(ies[j].key, key)
    <3>1. i > 1 /\ i - 1 \in 1 .. n /\ j \in 1 .. n /\ (j = i - 1 \/ j < i - 1)
      BY <1>1
    <3>2. ies[j].key \in Key /\ (j = i - 1 \/ Less(ies[j].key, ies[i - 1].key))
      BY <1>1, <3>1 DEF Ordered
    <3>3. QED
      BY <1>4, <1>7, <1>9, <3>1, <3>2, LessTransitive
  <2>2. i \in 1 .. Len(ies) + 1
    BY <1>1
  <2>3. QED
    BY <1>8, <2>1, <2>2 DEF LeastNotBelow
<1>11. ~Less(key, ies[1].key)
  BY DEF key
<1>12. Holds(IndexBlock, ies)
  BY DEF Opened
<1>13. LowerBound(IndexBlock, key) = i
  BY <1>1, <1>7, <1>10, <1>11, <1>12, LowerBoundIs
<1>14. QED
  BY <1>13 DEF key

\* Where either search of the index ends
LEMMA IndexPlaces ==
    ASSUME TableInv, NEW ies, NEW cut, Opened(ies, cut), NEW key \in Key
    PROVE  /\ LowerBound(IndexBlock, key) \in 1 .. Len(ies) + 1
           /\ FindIf(IndexBlock, key) \in 1 .. Len(ies) + 1
           /\ \A i \in 1 .. Len(ies) + 1 : AtEnd(IndexBlock, i) <=> i = Len(ies) + 1
           /\ BelowAll(IndexBlock, key) <=> Less(key, ies[1].key)
<1>1. /\ Len(ies) \in Nat /\ Len(ies) > 0 /\ Ordered(ies) /\ ~Hidden(ies)
      /\ Holds(IndexBlock, ies)
  BY IndexIs DEF Opened
<1>2. \A i \in 1 .. Len(ies) + 1 : AtEnd(IndexBlock, i) <=> i = Len(ies) + 1
  BY <1>1, EndIsPast
<1>3. /\ LowerBound(IndexBlock, key) \in 1 .. Len(ies) + 1
      /\ BelowAll(IndexBlock, key) <=> Less(key, ies[1].key)
  <2>1. PICK p : LeastNotBelow(ies, key, p)
    BY <1>1, LeastNotBelowExists
  <2>2. /\ \/ LowerBound(IndexBlock, key) = Len(ies) + 1
           \/ LowerBound(IndexBlock, key) = p
        /\ BelowAll(IndexBlock, key) <=> Less(key, ies[1].key)
    BY <1>1, <2>1, LowerBoundIs
  <2>3. p \in 1 .. Len(ies) + 1 /\ Len(ies) + 1 \in 1 .. Len(ies) + 1
    BY <1>1, <2>1 DEF LeastNotBelow
  <2>4. QED
    BY <2>2, <2>3
<1>4. FindIf(IndexBlock, key) \in 1 .. Len(ies) + 1
  <2>1. CASE \E i \in 1 .. Len(ies) : ies[i].key = key
    <3>1. PICK i \in 1 .. Len(ies) : ies[i].key = key
      BY <2>1
    <3>2. FindIf(IndexBlock, key) = i
      BY <1>1, <3>1, FindThere
    <3>3. QED
      BY <1>1, <3>2
  <2>2. CASE \A i \in 1 .. Len(ies) : ies[i].key # key
    <3>1. FindIf(IndexBlock, key) = Len(ies) + 1
      BY <1>1, <2>2, FindAbsent
    <3>2. QED
      BY <1>1, <3>1
  <2>3. QED
    BY <2>1, <2>2
<1>5. QED
  BY <1>2, <1>3, <1>4

\* Neither find returns a value that was not added under the key; from the first separator
\* on the iterator's find returns, with the value if there is one (SSTable.cpp:132-160).
THEOREM FindsAreSound == Spec => []FindIsSound
<1>1. TableInv => FindIsSound
  <2> SUFFICES ASSUME TableInv, Table, NEW key \in KeyBytes
               PROVE  /\ \A o \in FindIter(key) :
                            o.value # None => key \in TableKeys /\ o.value = ValueOf(key)
                      /\ FindValue(key) # None =>
                            key \in TableKeys /\ FindValue(key) = ValueOf(key)
                      /\ ~Less(key, Separators[1]) =>
                            FindIter(key) =
                                {Returns(IF key \in TableKeys THEN ValueOf(key) ELSE None)}
    BY DEF FindIsSound
  <2>1. PICK ies, cut : Opened(ies, cut)
    BY TableOpens
  <2>2. key \in Key
    BY TableAssumption DEF Key, Bytes
  <2> DEFINE n == Len(ies)
             at == LowerBound(IndexBlock, key)
             value == FindIn(BlockAt(at), key)
  <2>3. /\ at \in 1 .. n + 1
        /\ FindIf(IndexBlock, key) \in 1 .. n + 1
        /\ \A i \in 1 .. n + 1 : AtEnd(IndexBlock, i) <=> i = n + 1
        /\ BelowAll(IndexBlock, key) <=> Less(key, ies[1].key)
    BY <2>1, <2>2, IndexPlaces
  <2>4. n \in Nat /\ n > 0 /\ Separators = [i \in 1 .. n |-> ies[i].key]
    BY <2>1, IndexIs
  <2>5. ASSUME NEW i \in 1 .. n + 1, ~AtEnd(IndexBlock, i), FindIn(BlockAt(i), key) # None
        PROVE  key \in TableKeys /\ FindIn(BlockAt(i), key) = ValueOf(key)
    <3>1. i \in 1 .. n
      BY <2>3, <2>4, <2>5
    <3>2. PICK t \in 1 .. Len(added) : /\ added[t].key = key
                                       /\ FindIn(BlockAt(i), key) = added[t].value
      BY <2>1, <2>2, <2>5, <3>1, FindInAny
    <3>3. QED
      BY <3>2, ValueIs
  <2>6. /\ ~AtEnd(IndexBlock, at) => FindIter(key) = {Returns(value)}
        /\ AtEnd(IndexBlock, at) =>
               FindIter(key) = IF BelowAll(IndexBlock, key) THEN {Returns(None), Aborts}
                               ELSE {Returns(None)}
    BY DEF FindIter
  <2>7. /\ \A v : Returns(v).value = v
        /\ Aborts.value = None
    BY DEF Returns, Aborts
  <2>8. ~AtEnd(IndexBlock, at) /\ value # None => key \in TableKeys /\ value = ValueOf(key)
    BY <2>3, <2>5
  <2> HIDE DEF value, at
  <2>9. ASSUME NEW o \in FindIter(key), o.value # None
        PROVE  key \in TableKeys /\ o.value = ValueOf(key)
    <3>1. CASE ~AtEnd(IndexBlock, at)
      BY <2>6, <2>7, <2>8, <2>9, <3>1
    <3>2. CASE AtEnd(IndexBlock, at)
      BY <2>6, <2>7, <2>9, <3>2
    <3>3. QED
      BY <3>1, <3>2
  <2>10. FindValue(key) # None => key \in TableKeys /\ FindValue(key) = ValueOf(key)
    BY <2>3, <2>5 DEF FindValue
  <2>11. ASSUME key \in TableKeys, ~Less(key, Separators[1])
         PROVE  ~AtEnd(IndexBlock, at) /\ value # None
    <3>1. PICK t \in 1 .. Len(added) : key = added[t].key
      BY <2>11 DEF TableKeys
    <3>2. PICK i \in 1 .. n : cut[i - 1] < t /\ t <= cut[i]
      BY <2>1, BlockOf
    <3>3. ~Less(added[t].key, ies[1].key)
      BY <2>4, <2>11, <3>1
    <3>4. at = i
      BY <2>1, <3>1, <3>2, <3>3, IndexLeads DEF at
    <3>5. i \in 1 .. n + 1 /\ i # n + 1
      BY <2>4
    <3>6. value = FindIn(BlockAt(i), key)
      BY <3>4 DEF value
    <3>7. FindIn(BlockAt(i), key) = added[t].value
      BY <2>1, <3>1, <3>2, FindInBlock
    <3>8. added[t].value # None
      <4>1. Stamped(added)
        BY DEF TableInv, AddedInv
      <4>2. added[t].value = Value(t - 1)
        <5>1. added[t] = [key |-> added[t].key, value |-> Value(t - 1)]
          BY <4>1 DEF Stamped
        <5>2. QED
          BY <5>1
      <4>3. DOMAIN Value(t - 1) = {"size", "data"} /\ DOMAIN None = {}
        BY DEF Value, None
      <4>4. QED
        BY <4>2, <4>3
    <3>9. QED
      BY <2>3, <3>4, <3>5, <3>6, <3>7, <3>8
  <2>12. ASSUME ~Less(key, Separators[1])
         PROVE  FindIter(key) = {Returns(IF key \in TableKeys THEN ValueOf(key) ELSE None)}
    <3>1. CASE key \in TableKeys
      BY <2>6, <2>8, <2>11, <2>12, <3>1
    <3>2. CASE key \notin TableKeys
      <4>1. ~BelowAll(IndexBlock, key)
        BY <2>3, <2>4, <2>12
      <4>2. AtEnd(IndexBlock, at) \/ value = None
        BY <2>8, <3>2
      <4>3. FindIter(key) = {Returns(None)}
        BY <2>6, <4>1, <4>2
      <4>4. QED
        BY <3>2, <4>3
    <3>3. QED
      BY <3>1, <3>2
  <2>13. QED
    BY <2>9, <2>10, <2>12
<1>2. QED
  BY TableInvariant, <1>1, PTL

-----------------------------------------------------------------------------
(* The iterator                                                            *)

\* Iterator i points to the t-th entry that was added.
Points(i, ies, cut, t) ==
    /\ i = [index |-> i.index, pos |-> i.pos, block |-> i.block]
    /\ i.index \in 1 .. Len(ies)
    /\ i.pos \in 1 .. cut[i.index] - cut[i.index - 1]
    /\ t = cut[i.index - 1] + i.pos

\* The iterator has shown the entries from from on, and the block it is in is the one
\* it owns, if it had to obtain one.
ItInv ==
    /\ TableInv /\ from \in Nat /\ seen \in Nat
    /\ ~Table => it = NotYet
    /\ it = NotYet => old = NotYet /\ seen = 0
    /\ At(it) => /\ seen > 0 /\ from > 0
                 /\ \A ies, cut : Opened(ies, cut) => Points(it, ies, cut, from + seen - 1)
    /\ it = End /\ seen > 0 => from + seen - 1 = Len(added)
    /\ At(it) /\ it.block = "table" => it.index = 1
    /\ At(it) /\ it.block = "own" /\ ~crashed => owned = it.index
    /\ At(old) => /\ old.index \in Nat /\ old.index > 0
                  /\ At(it) /\ ~assigned => old.index <= it.index
    /\ At(old) /\ old.block = "own" /\ old.index = it.index /\ ~assigned /\ ~crashed =>
           owned = old.index

LEMMA NotAt == ~At(NotYet) /\ ~At(End) /\ NotYet # End /\ NotYet.index = 0 /\ End.index = 0
BY DEF At, NotYet, End

LEMMA OpenedStays ==
    ASSUME UNCHANGED vars, NEW ies, NEW cut
    PROVE  Opened(ies, cut)' <=> Opened(ies, cut)
<1>1. file' = file /\ added' = added /\ FooterAt' = FooterAt
  BY DEF vars, builderVars, FooterAt
<1>2. \A at, size : Chunks(at, size)' = Chunks(at, size)
  BY <1>1 DEF Chunks
<1>3. IsThere(FooterAt)' <=> IsThere(FooterAt)
  BY <1>1, <1>2 DEF IsThere
<1>4. ReadAt(FooterAt)' = ReadAt(FooterAt)
  BY <1>1, <1>2 DEF ReadAt
<1>5. IsThere(ReadAt(FooterAt))' <=> IsThere(ReadAt(FooterAt))
  BY <1>4, <1>2 DEF IsThere
<1>6. IndexBlock' = IndexBlock
  BY <1>2, <1>4 DEF ReadAt, IndexBlock
<1>7. ASSUME NEW i
      PROVE  /\ BlockAt(i)' = BlockAt(i)
             /\ IsThere(IndexBlock.entries[i].value.data)' <=>
                    IsThere(IndexBlock.entries[i].value.data)
  BY <1>2, <1>6 DEF BlockAt, IsThere, ReadAt
<1>8. QED
  BY <1>1, <1>3, <1>5, <1>6, <1>7 DEF Opened

LEMMA PointShows ==
    ASSUME TableInv, NEW ies, NEW cut, Opened(ies, cut), NEW i, NEW t, Points(i, ies, cut, t)
    PROVE  /\ t \in 1 .. Len(added) /\ Shows(i) = added[t] /\ At(i)
           /\ (CHOOSE n \in 1 .. Len(added) : added[n] = Shows(i)) = t
           /\ i.index \in 1 .. Len(IndexBlock.entries)
           /\ i.pos \in 1 .. Len(BlockAt(i.index).entries)
<1> DEFINE lo == cut[i.index - 1]
           hi == cut[i.index]
           part == Part(added, lo, hi)
           c == BlockAt(i.index)
<1>1. /\ i = [index |-> i.index, pos |-> i.pos, block |-> i.block]
      /\ i.index \in 1 .. Len(ies)
      /\ i.pos \in 1 .. hi - lo /\ t = lo + i.pos
  BY DEF Points
<1>2. BlockHas(i.index, part, lo, hi)
  BY <1>1, BlockIs
<1>3. Len(ies) \in Nat /\ Len(added) \in Nat /\ Len(IndexBlock.entries) = Len(ies)
  BY IndexIs
<1> HIDE DEF lo, hi, part
<1>4. /\ lo \in Nat /\ hi \in Nat /\ lo < hi /\ hi <= Len(added)
      /\ Len(part) = hi - lo /\ Len(part) \in Nat
      /\ \A j \in 1 .. Len(part) : part[j] = added[lo + j]
      /\ Len(c.entries) = Len(part)
      /\ Keys(c) = [j \in 1 .. Len(part) |-> part[j].key]
      /\ \A j \in 1 .. Len(part) : c.entries[j].value = part[j].value
  BY <1>2 DEF BlockHas
<1>5. t \in 1 .. Len(added) /\ i.pos \in 1 .. Len(part)
  BY <1>1, <1>3, <1>4
<1>6. Ordered(added) /\ Stamped(added)
  BY DEF TableInv, AddedInv
<1> HIDE DEF c
<1>7. Shows(i) = added[t]
  <2>1. added[t] = [key |-> added[t].key, value |-> Value(t - 1)]
    BY <1>5, <1>6 DEF Stamped
  <2>2. added[t] = [key |-> added[t].key, value |-> added[t].value]
    BY <2>1
  <2>3. Keys(c)[i.pos] = added[t].key /\ c.entries[i.pos].value = added[t].value
    BY <1>1, <1>4, <1>5
  <2>4. Shows(i) = [key |-> Keys(c)[i.pos], value |-> c.entries[i.pos].value]
    BY DEF Shows, c
  <2>5. QED
    BY <2>2, <2>3, <2>4
<1>8. ASSUME NEW n \in 1 .. Len(added), added[n] = Shows(i) PROVE n = t
  <2>1. added[n].key = added[t].key
    BY <1>7, <1>8
  <2>2. QED
    BY <1>5, <1>6, <2>1, OnePlace
<1>9. (CHOOSE n \in 1 .. Len(added) : added[n] = Shows(i)) = t
  BY <1>5, <1>7, <1>8
<1>10. At(i)
  <2>1. i.index # 0
    BY <1>1, <1>3
  <2>2. QED
    BY <2>1, NotAt DEF At
<1>11. QED
  BY <1>1, <1>3, <1>4, <1>5, <1>7, <1>9, <1>10 DEF c

\* begin points to the first entry.
LEMMA FirstPoints ==
    ASSUME TableInv, NEW ies, NEW cut, Opened(ies, cut)
    PROVE  Points(First, ies, cut, 1)
<1>1. Len(ies) \in Nat /\ Len(ies) > 0 /\ cut[0] = 0
  BY IndexIs
<1>2. 1 \in 1 .. Len(ies)
  BY <1>1
<1>3. BlockHas(1, Part(added, cut[1 - 1], cut[1]), cut[1 - 1], cut[1])
  BY <1>2, BlockIs
<1>4. cut[1] \in Nat /\ cut[1 - 1] = 0 /\ cut[1 - 1] < cut[1]
  BY <1>1, <1>3 DEF BlockHas
<1>5. First.index = 1 /\ First.pos = 1 /\ First = [index |-> 1, pos |-> 1, block |-> First.block]
  BY DEF First
<1>6. QED
  BY <1>2, <1>4, <1>5 DEF Points

\* The iterator that find returns points to the entry of the key, or is the end.
LEMMA FoundPoints ==
    ASSUME TableInv, NEW ies, NEW cut, Opened(ies, cut), NEW key \in KeyBytes,
           NEW f \in Found(key), f # End
    PROVE  f.block = "found" /\ \E t : Points(f, ies, cut, t)
<1> DEFINE i == LowerBound(IndexBlock, key)
<1>1. key \in Key
  BY TableAssumption DEF Key, Bytes
<1>2. /\ i \in 1 .. Len(ies) + 1 /\ Len(ies) \in Nat
      /\ \A j \in 1 .. Len(ies) + 1 : AtEnd(IndexBlock, j) <=> j = Len(ies) + 1
  BY <1>1, IndexPlaces, IndexIs
<1>3. /\ \E o \in FindIter(key) : o.value # None
      /\ f = [index |-> i, pos |-> Find(BlockAt(i), key), block |-> "found"]
  BY DEF Found, Place
<1>4. ~AtEnd(IndexBlock, i) /\ FindIn(BlockAt(i), key) # None
  BY <1>3 DEF FindIter, Returns, Aborts
<1> HIDE DEF i
<1>5. i \in 1 .. Len(ies)
  BY <1>2, <1>4
<1>6. PICK t \in 1 .. Len(added) : cut[i - 1] < t /\ t <= cut[i] /\ added[t].key = key
  BY <1>1, <1>4, <1>5, FindInAny
<1>7. Find(BlockAt(i), key) = t - cut[i - 1]
  BY <1>5, <1>6, FindInBlock
<1>8. cut[i - 1] \in Nat /\ cut[i] \in Nat
  <2>1. BlockHas(i, Part(added, cut[i - 1], cut[i]), cut[i - 1], cut[i])
    BY <1>5, BlockIs
  <2>2. QED
    BY <2>1 DEF BlockHas
<1>9. t - cut[i - 1] \in 1 .. cut[i] - cut[i - 1] /\ t = cut[i - 1] + (t - cut[i - 1])
  BY <1>6, <1>8
<1>10. f.block = "found" /\ Points(f, ies, cut, t)
  BY <1>3, <1>5, <1>7, <1>9 DEF Points
<1>11. QED
  BY <1>10

LEMMA TableSame == ASSUME TableInv, UNCHANGED vars PROVE TableInv' /\ (Table' <=> Table)
BY TableStutters DEF vars, Table

\* The walk begins where the iterator points to.
LEMMA WalkFrom ==
    ASSUME TableInv, Table, UNCHANGED vars, NEW i, Walks(i),
           \A ies, cut : Opened(ies, cut) => \E t : Points(i, ies, cut, t)
    PROVE  /\ it' = i /\ At(it') /\ seen' \in Nat /\ seen' > 0 /\ from' \in Nat /\ from' > 0
           /\ \A ies, cut : Opened(ies, cut)' => Points(it', ies, cut, from' + seen' - 1)
<1>1. /\ it' = i /\ seen' = 1
      /\ from' = CHOOSE n \in 1 .. Len(added) : added[n] = Shows(i)
  BY DEF Walks
<1>2. ASSUME NEW ies, NEW cut, Opened(ies, cut)
      PROVE  Points(i, ies, cut, from') /\ from' \in 1 .. Len(added) /\ At(i)
  <2>1. PICK t : Points(i, ies, cut, t)
    BY <1>2
  <2>2. /\ t \in 1 .. Len(added) /\ At(i)
        /\ (CHOOSE n \in 1 .. Len(added) : added[n] = Shows(i)) = t
    BY <1>2, <2>1, PointShows
  <2>3. QED
    BY <1>1, <2>1, <2>2
<1>3. PICK ies, cut : Opened(ies, cut)
  BY TableOpens
<1>4. Len(added) \in Nat
  BY SeqEmpty DEF TableInv, AddedInv
<1>5. from' \in Nat /\ from' > 0 /\ At(it')
  <2>1. from' \in 1 .. Len(added) /\ At(i)
    BY <1>2, <1>3
  <2>2. At(it')
    BY ONLY <1>1, <2>1
  <2>3. QED
    BY ONLY <1>4, <2>1, <2>2
<1>6. from' + seen' - 1 = from' /\ seen' \in Nat /\ seen' > 0
  BY <1>1, <1>5
<1>7. ASSUME NEW jes, NEW tuc, Opened(jes, tuc)'
      PROVE  Points(it', jes, tuc, from' + seen' - 1)
  <2>1. Opened(jes, tuc)
    BY <1>7, OpenedStays
  <2>2. QED
    BY <1>1, <1>2, <1>6, <2>1
<1>8. QED
  BY <1>1, <1>5, <1>6, <1>7

LEMMA InitIt == ItInit => ItInv
<1> SUFFICES ASSUME ItInit PROVE ItInv
  OBVIOUS
<1>1. TableInv /\ it = NotYet /\ old = NotYet /\ from = 0 /\ seen = 0
  BY InitTable DEF ItInit
<1>2. QED
  BY <1>1, NotAt DEF ItInv

LEMMA TableStepKeeps == ASSUME ItInv, Next, UNCHANGED iterVars PROVE ItInv'
<1>1. TableInv' /\ ~Table
  <2>1. TableInv'
    BY TableStep DEF ItInv
  <2>2. ~done
    BY DEF Next, AddOnly, AddAndFlush, AddEntry, FinishFails, Finish
  <2>3. QED
    BY <2>1, <2>2 DEF Table
<1>2. /\ it' = it /\ owned' = owned /\ old' = old /\ assigned' = assigned
      /\ crashed' = crashed /\ from' = from /\ seen' = seen
  BY DEF iterVars
<1>3. it = NotYet /\ old = NotYet /\ from \in Nat /\ seen = 0
  BY <1>1 DEF ItInv
<1>4. ~At(it') /\ ~At(old') /\ it' # End
  BY <1>2, <1>3, NotAt DEF At
<1>5. QED
  BY <1>1, <1>2, <1>3, <1>4 DEF ItInv

LEMMA BeginKeeps == ASSUME ItInv, Begin PROVE ItInv'
<1>1. /\ Table /\ it = NotYet /\ Walks(First)
      /\ UNCHANGED vars /\ old' = old
  BY DEF Begin
<1>2. TableInv /\ TableInv' /\ Table' /\ old' = NotYet
  BY <1>1, TableSame DEF ItInv
<1>3. \A ies, cut : Opened(ies, cut) => \E t : Points(First, ies, cut, t)
  BY <1>2, FirstPoints
<1>4. /\ it' = First /\ At(it') /\ seen' \in Nat /\ seen' > 0 /\ from' \in Nat /\ from' > 0
      /\ \A ies, cut : Opened(ies, cut)' => Points(it', ies, cut, from' + seen' - 1)
  BY <1>1, <1>2, <1>3, WalkFrom
<1>5. it'.index = 1 /\ it'.block = "table" /\ it' # NotYet /\ it' # End /\ ~At(old')
  BY <1>2, <1>4, NotAt DEF First, At
<1>6. QED
  BY <1>2, <1>4, <1>5 DEF ItInv

LEMMA SeekKeeps == ASSUME ItInv, NEW key \in KeyBytes, Seek(key) PROVE ItInv'
<1>1. /\ Table /\ it = NotYet /\ UNCHANGED vars /\ old' = old
  BY DEF Seek
<1> PICK f \in Found(key) : IF f = End THEN it' = End /\ UNCHANGED <<from, seen>> ELSE Walks(f)
  BY DEF Seek
<1>2. TableInv /\ TableInv' /\ Table' /\ old' = NotYet /\ seen = 0 /\ from \in Nat
  BY <1>1, TableSame DEF ItInv
<1>3. ~At(old')
  BY <1>2, NotAt DEF At
<1>4. CASE f = End
  <2>1. it' = End /\ from' = from /\ seen' = 0
    BY <1>1, <1>2, <1>4
  <2>2. ~At(it') /\ it' # NotYet
    BY <2>1, NotAt DEF At
  <2>3. QED
    BY <1>2, <1>3, <2>1, <2>2 DEF ItInv
<1>5. CASE f # End
  <2>1. \A ies, cut : Opened(ies, cut) => f.block = "found" /\ \E t : Points(f, ies, cut, t)
    BY <1>2, <1>5, FoundPoints
  <2>2. /\ it' = f /\ At(it') /\ seen' \in Nat /\ seen' > 0 /\ from' \in Nat /\ from' > 0
        /\ \A ies, cut : Opened(ies, cut)' => Points(it', ies, cut, from' + seen' - 1)
    BY <1>1, <1>2, <1>5, <2>1, WalkFrom
  <2>3. it'.block = "found" /\ it' # NotYet /\ it' # End
    <3>1. \E ies, cut : Opened(ies, cut)
      BY <1>1, <1>2, TableOpens
    <3>2. QED
      BY <2>1, <2>2, <3>1, NotAt DEF At
  <2>4. QED
    BY <1>2, <1>3, <2>2, <2>3 DEF ItInv
<1>6. QED
  BY <1>4, <1>5

LEMMA SeekAbortsKeeps == ASSUME ItInv, NEW key \in KeyBytes, SeekAborts(key) PROVE ItInv'
<1>1. /\ UNCHANGED vars /\ it' = it /\ owned' = owned /\ old' = old /\ assigned' = assigned
      /\ ~crashed /\ crashed' /\ from' = from /\ seen' = seen
  BY DEF SeekAborts
<1>2. TableInv' /\ (Table' <=> Table) /\ added' = added
  BY <1>1, TableSame DEF ItInv, vars
<1>3. At(it') => \A ies, cut : Opened(ies, cut)' => Points(it', ies, cut, from' + seen' - 1)
  BY <1>1, OpenedStays DEF ItInv, At
<1>4. QED
  BY <1>1, <1>2, <1>3 DEF ItInv, At

LEMMA AssignKeeps == ASSUME ItInv, NEW key \in KeyBytes, Assign(key) PROVE ItInv'
<1>1. /\ Table /\ At(it) /\ ~crashed /\ assigned' = TRUE /\ UNCHANGED vars
      /\ owned' = owned /\ old' = old /\ crashed' = crashed
  BY DEF Assign
<1> PICK f \in Found(key) : IF f = End THEN UNCHANGED <<it, from, seen>> ELSE Walks(f)
  BY DEF Assign
<1>2. TableInv /\ TableInv' /\ Table'
  BY <1>1, TableSame DEF ItInv
<1>3. At(old') => old'.index \in Nat /\ old'.index > 0
  BY <1>1 DEF ItInv, At
<1>4. CASE f = End
  <2>1. it' = it /\ from' = from /\ seen' = seen
    BY <1>1, <1>4
  <2>2. At(it') /\ it' # NotYet /\ it' # End
    BY <1>1, <2>1, NotAt DEF At
  <2>3. \A ies, cut : Opened(ies, cut)' => Points(it', ies, cut, from' + seen' - 1)
    BY <1>1, <2>1, OpenedStays DEF ItInv
  <2>4. /\ from' \in Nat /\ seen' \in Nat /\ seen' > 0 /\ from' > 0
        /\ it'.block = "table" => it'.index = 1
        /\ (it'.block = "own" /\ ~crashed') => owned' = it'.index
    BY <1>1, <2>1 DEF ItInv
  <2>5. QED
    BY <1>1, <1>2, <1>3, <2>2, <2>3, <2>4 DEF ItInv
<1>5. CASE f # End
  <2>1. \A ies, cut : Opened(ies, cut) => f.block = "found" /\ \E t : Points(f, ies, cut, t)
    BY <1>2, <1>5, FoundPoints
  <2>2. /\ it' = f /\ At(it') /\ seen' \in Nat /\ seen' > 0 /\ from' \in Nat /\ from' > 0
        /\ \A ies, cut : Opened(ies, cut)' => Points(it', ies, cut, from' + seen' - 1)
    BY <1>1, <1>2, <1>5, <2>1, WalkFrom
  <2>3. it'.block = "found" /\ it' # NotYet /\ it' # End
    <3>1. \E ies, cut : Opened(ies, cut)
      BY <1>1, <1>2, TableOpens
    <3>2. QED
      BY <2>1, <2>2, <3>1, NotAt DEF At
  <2>4. QED
    BY <1>1, <1>2, <1>3, <2>2, <2>3 DEF ItInv
<1>6. QED
  BY <1>4, <1>5

\* Where the block, and the table, end
LEMMA EndsAre ==
    ASSUME TableInv, NEW ies, NEW cut, Opened(ies, cut), NEW t, Points(it, ies, cut, t)
    PROVE  /\ LastInBlock <=> it.pos = cut[it.index] - cut[it.index - 1]
           /\ LastBlock <=> it.index = Len(ies)
<1> DEFINE lo == cut[it.index - 1]
           hi == cut[it.index]
           part == Part(added, lo, hi)
<1>1. it.index \in 1 .. Len(ies) /\ it.pos \in 1 .. hi - lo
  BY DEF Points
<1>2. BlockHas(it.index, part, lo, hi)
  BY <1>1, BlockIs
<1> HIDE DEF lo, hi, part
<1>3. /\ Holds(BlockAt(it.index), part) /\ Ordered(part) /\ ~Hidden(part)
      /\ Len(part) = hi - lo /\ Len(part) \in Nat
  BY <1>2 DEF BlockHas
<1>4. /\ Len(ies) \in Nat /\ Ordered(ies) /\ ~Hidden(ies) /\ Holds(IndexBlock, ies)
  BY IndexIs DEF Opened
<1>5. it.pos + 1 \in 1 .. Len(part) + 1 /\ it.index + 1 \in 1 .. Len(ies) + 1
  BY <1>1, <1>3, <1>4
<1>6. LastInBlock <=> it.pos + 1 = Len(part) + 1
  BY <1>3, <1>5, EndIsPast DEF LastInBlock
<1>7. LastBlock <=> it.index + 1 = Len(ies) + 1
  BY <1>4, <1>5, EndIsPast DEF LastBlock
<1>8. QED
  BY <1>1, <1>3, <1>4, <1>6, <1>7 DEF lo, hi

\* ++ in each of the ways it can go
LEMMA IncrementKeeps == ASSUME ItInv, Increment PROVE ItInv'
<1>1. /\ Table /\ At(it) /\ ~crashed
      /\ Within \/ ToEnd \/ ToNext \/ ToNothing
      /\ old' \in {it, old}
      /\ seen' = IF it' = End \/ crashed' THEN seen ELSE Lesser(seen + 1, MaxAdds + 1)
      /\ UNCHANGED vars /\ assigned' = assigned /\ from' = from
  BY DEF Increment
<1>2. TableInv /\ TableInv' /\ Table'
  BY <1>1, TableSame DEF ItInv
<1>3. PICK ies, cut : Opened(ies, cut)
  BY <1>1, <1>2, TableOpens
<1>4. /\ from \in Nat /\ seen \in Nat /\ seen > 0 /\ from > 0
      /\ \A jes, tuc : Opened(jes, tuc) => Points(it, jes, tuc, from + seen - 1)
      /\ it.block = "table" => it.index = 1
      /\ it.block = "own" => owned = it.index
      /\ At(old) => /\ old.index \in Nat /\ old.index > 0
                    /\ ~assigned => old.index <= it.index
      /\ At(old) /\ old.block = "own" /\ old.index = it.index /\ ~assigned =>
             owned = old.index
  BY <1>1 DEF ItInv
<1>5. /\ it.index \in 1 .. Len(ies) /\ Len(ies) \in Nat /\ it.index > 0
  BY <1>2, <1>3, <1>4, IndexIs DEF Points
<1>6. Len(added) \in Nat /\ MaxAdds \in Nat /\ Len(added) <= MaxAdds /\ added' = added
  BY <1>1, <1>2, SeqEmpty, TableAssumption DEF TableInv, AddedInv, vars
<1>7. ASSUME NEW jes, NEW tuc, Opened(jes, tuc)'
      PROVE  Opened(jes, tuc) /\ Points(it, jes, tuc, from + seen - 1)
  BY <1>1, <1>4, <1>7, OpenedStays
<1>8. At(old') => old'.index \in Nat /\ old'.index > 0
  BY <1>1, <1>4, <1>5 DEF At
\* A step to the next entry, at which the iterator is j
<1>9. ASSUME NEW j, it' = j, ~crashed', j.index > 0,
             \A jes, tuc : (Opened(jes, tuc) /\ Points(it, jes, tuc, from + seen - 1)) =>
                               Points(j, jes, tuc, from + seen)
      PROVE  /\ At(it') /\ it' # End /\ it' # NotYet
             /\ seen' \in Nat /\ seen' > 0
             /\ \A jes, tuc : Opened(jes, tuc)' => Points(it', jes, tuc, from' + seen' - 1)
  <2>1. Points(j, ies, cut, from + seen)
    BY <1>3, <1>4, <1>9
  <2>2. from + seen \in 1 .. Len(added) /\ At(j)
    BY <1>2, <1>3, <2>1, PointShows
  <2>3. it' # End /\ it' # NotYet /\ At(it')
    BY <1>9, <2>2, NotAt DEF At
  <2>4. seen' = Lesser(seen + 1, MaxAdds + 1)
    BY <1>1, <1>9, <2>3
  <2>5. seen' = seen + 1
    BY <1>4, <1>6, <2>2, <2>4 DEF Lesser
  <2>6. from' + seen' - 1 = from + seen /\ seen' \in Nat /\ seen' > 0
    BY <1>1, <1>4, <2>5
  <2>7. ASSUME NEW jes, NEW tuc, Opened(jes, tuc)'
        PROVE  Points(it', jes, tuc, from' + seen' - 1)
    BY <1>7, <1>9, <2>6, <2>7
  <2>8. QED
    BY <2>3, <2>6, <2>7
<1>10. CASE Within
  <2> DEFINE j == [index |-> it.index, pos |-> it.pos + 1, block |-> it.block]
  <2>1. /\ ~LastInBlock /\ it' = [it EXCEPT !.pos = @ + 1]
        /\ owned' = owned /\ crashed' = crashed
    BY <1>10 DEF Within
  <2>2. it = [index |-> it.index, pos |-> it.pos, block |-> it.block]
    BY <1>3, <1>4 DEF Points
  <2>3. it' = j
    BY <2>1, <2>2
  <2>4. j.index = it.index /\ j.pos = it.pos + 1 /\ j.block = it.block
        /\ j = [index |-> j.index, pos |-> j.pos, block |-> j.block]
    OBVIOUS
  <2> HIDE DEF j
  <2>5. ASSUME NEW jes, NEW tuc, Opened(jes, tuc), Points(it, jes, tuc, from + seen - 1)
        PROVE  Points(j, jes, tuc, from + seen)
    <3> DEFINE lo == tuc[it.index - 1]
               hi == tuc[it.index]
    <3>1. it.pos # hi - lo
      BY <1>2, <2>1, <2>5, EndsAre
    <3>2. /\ it.index \in 1 .. Len(jes) /\ it.pos \in 1 .. hi - lo
          /\ from + seen - 1 = lo + it.pos
      BY <2>5 DEF Points
    <3>3. lo \in Nat /\ hi \in Nat
      <4>1. BlockHas(it.index, Part(added, lo, hi), lo, hi)
        BY <1>2, <2>5, <3>2, BlockIs
      <4>2. QED
        BY <4>1 DEF BlockHas
    <3> HIDE DEF lo, hi
    <3>4. it.pos + 1 \in 1 .. hi - lo /\ from + seen = lo + (it.pos + 1)
      BY <1>4, <3>1, <3>2, <3>3
    <3>5. QED
      BY <2>4, <3>2, <3>4 DEF Points, lo, hi
  <2>6. j.index > 0 /\ ~crashed'
    BY <1>1, <1>5, <2>1, <2>4
  <2>7. /\ At(it') /\ it' # End /\ it' # NotYet /\ seen' \in Nat /\ seen' > 0
        /\ \A jes, tuc : Opened(jes, tuc)' => Points(it', jes, tuc, from' + seen' - 1)
    BY <1>9, <2>3, <2>5, <2>6
  <2>8. it'.index = it.index /\ it'.block = it.block
    BY <2>3, <2>4
  <2>9. (At(old') /\ ~assigned') => old'.index <= it'.index
    BY <1>1, <1>4, <1>5, <2>8 DEF At
  <2>10. (At(old') /\ old'.block = "own" /\ old'.index = it'.index /\ ~assigned') =>
             owned' = old'.index
    BY <1>1, <1>4, <2>1, <2>8 DEF At
  <2>11. QED
    BY <1>1, <1>2, <1>4, <1>8, <2>1, <2>7, <2>8, <2>9, <2>10 DEF ItInv
<1>11. CASE ToEnd
  <2>1. LastInBlock /\ LastBlock /\ it' = End /\ owned' = owned /\ crashed' = crashed
    BY <1>11 DEF ToEnd
  <2>2. seen' = seen /\ ~At(it') /\ it' # NotYet /\ it'.index = 0
    BY <1>1, <2>1, NotAt DEF At
  <2>3. from' + seen' - 1 = Len(added')
    <3>1. Points(it, ies, cut, from + seen - 1)
      BY <1>3, <1>4
    <3>2. it.pos = cut[it.index] - cut[it.index - 1] /\ it.index = Len(ies)
      BY <1>2, <1>3, <2>1, <3>1, EndsAre
    <3>3. from + seen - 1 = cut[it.index - 1] + it.pos
      BY <3>1 DEF Points
    <3>4. cut[it.index - 1] \in Nat /\ cut[it.index] = Len(added)
      <4>1. BlockHas(it.index, Part(added, cut[it.index - 1], cut[it.index]),
                     cut[it.index - 1], cut[it.index])
        BY <1>2, <1>3, <1>5, BlockIs
      <4>2. cut[Len(ies)] = Len(added)
        BY <1>3 DEF Opened
      <4>3. QED
        BY <3>2, <4>1, <4>2 DEF BlockHas
    <3>5. from + seen - 1 = Len(added)
      BY <1>6, <3>2, <3>3, <3>4
    <3>6. QED
      BY <1>1, <1>6, <2>2, <3>5
  <2>4. At(old') => old'.index # it'.index
    BY <1>8, <2>2
  <2>5. from' \in Nat /\ seen' \in Nat
    BY <1>1, <1>4, <2>2
  <2>6. QED
    BY <1>2, <1>8, <2>1, <2>2, <2>3, <2>4, <2>5 DEF ItInv
<1>12. CASE ToNext
  <2> DEFINE j == [index |-> it.index + 1, pos |-> 1, block |-> "own"]
  <2>1. /\ LastInBlock /\ ~LastBlock /\ it' = j
        /\ owned' = it.index + 1 /\ crashed' = crashed
    BY <1>12 DEF ToNext
  <2>2. j.index = it.index + 1 /\ j.pos = 1 /\ j.block = "own"
        /\ j = [index |-> j.index, pos |-> j.pos, block |-> j.block]
    OBVIOUS
  <2> HIDE DEF j
  <2>3. ASSUME NEW jes, NEW tuc, Opened(jes, tuc), Points(it, jes, tuc, from + seen - 1)
        PROVE  Points(j, jes, tuc, from + seen)
    <3> DEFINE lo == tuc[it.index - 1]
               hi == tuc[it.index]
               up == tuc[it.index + 1]
    <3>1. it.pos = hi - lo /\ it.index # Len(jes)
      BY <1>2, <2>1, <2>3, EndsAre
    <3>2. /\ it.index \in 1 .. Len(jes) /\ it.pos \in 1 .. hi - lo
          /\ from + seen - 1 = lo + it.pos
      BY <2>3 DEF Points
    <3>3. /\ it.index + 1 \in 1 .. Len(jes) /\ (it.index + 1) - 1 = it.index
      <4>1. Len(jes) \in Nat
        BY <1>2, <2>3, IndexIs
      <4>2. QED
        BY <3>1, <3>2, <4>1
    <3>4. lo \in Nat /\ hi \in Nat
      <4>1. BlockHas(it.index, Part(added, lo, hi), lo, hi)
        BY <1>2, <2>3, <3>2, BlockIs
      <4>2. QED
        BY <4>1 DEF BlockHas
    <3>5. up \in Nat /\ hi < up
      <4>1. BlockHas(it.index + 1, Part(added, tuc[(it.index + 1) - 1], up),
                     tuc[(it.index + 1) - 1], up)
        BY <1>2, <2>3, <3>3, BlockIs
      <4>2. QED
        BY <3>3, <4>1 DEF BlockHas
    <3> HIDE DEF lo, hi, up
    <3>6. 1 \in 1 .. up - hi /\ from + seen = hi + 1
      BY <1>4, <3>1, <3>2, <3>4, <3>5
    <3>7. QED
      BY <2>2, <3>3, <3>6 DEF Points, hi, up
  <2>4. j.index > 0 /\ ~crashed'
    BY <1>1, <1>5, <2>1, <2>2
  <2>5. /\ At(it') /\ it' # End /\ it' # NotYet /\ seen' \in Nat /\ seen' > 0
        /\ \A jes, tuc : Opened(jes, tuc)' => Points(it', jes, tuc, from' + seen' - 1)
    BY <1>9, <2>1, <2>3, <2>4
  <2>6. it'.index = it.index + 1 /\ it'.block = "own" /\ owned' = it'.index
    BY <2>1, <2>2
  <2>7. (At(old') /\ ~assigned') => /\ old'.index <= it'.index
                                    /\ old'.index # it'.index
    BY <1>1, <1>4, <1>5, <1>8, <2>6 DEF At
  <2>8. QED
    BY <1>1, <1>2, <1>4, <1>8, <2>1, <2>5, <2>6, <2>7 DEF ItInv
<1>13. CASE ToNothing
  <2>1. it' = it /\ crashed' = TRUE
    BY <1>13 DEF ToNothing
  <2>2. seen' = seen /\ from' = from /\ At(it') /\ it' # End /\ it' # NotYet
    BY <1>1, <2>1, NotAt DEF At
  <2>3. \A jes, tuc : Opened(jes, tuc)' => Points(it', jes, tuc, from' + seen' - 1)
    BY <1>7, <2>1, <2>2
  <2>4. (At(old') /\ ~assigned') => old'.index <= it'.index
    BY <1>1, <1>4, <1>5, <2>1 DEF At
  <2>5. /\ from' \in Nat /\ seen' \in Nat /\ seen' > 0 /\ from' > 0
        /\ it'.block = "table" => it'.index = 1
    BY <1>4, <2>1, <2>2
  <2>6. QED
    BY <1>2, <1>8, <2>1, <2>2, <2>3, <2>4, <2>5 DEF ItInv
<1>14. QED
  BY <1>1, <1>10, <1>11, <1>12, <1>13

LEMMA ItStutters == ASSUME ItInv, UNCHANGED itVars PROVE ItInv'
<1>1. /\ UNCHANGED vars /\ it' = it /\ owned' = owned /\ old' = old /\ assigned' = assigned
      /\ crashed' = crashed /\ from' = from /\ seen' = seen
  BY DEF itVars, iterVars
<1>2. TableInv' /\ (Table' <=> Table) /\ added' = added
  BY <1>1, TableSame DEF ItInv, vars
<1>3. At(it') => \A ies, cut : Opened(ies, cut)' => Points(it', ies, cut, from' + seen' - 1)
  BY <1>1, OpenedStays DEF ItInv, At
<1>4. QED
  BY <1>1, <1>2, <1>3 DEF ItInv, At

\* The iterator knows where it is, whatever it is told to do.
THEOREM IteratorInvariant == ItSpec => []ItInv
<1>1. ItInv /\ [ItNext]_itVars => ItInv'
  <2> SUFFICES ASSUME ItInv, [ItNext]_itVars PROVE ItInv'
    OBVIOUS
  <2>1. ASSUME NEW key \in KeyBytes, Seek(key) \/ SeekAborts(key) \/ Assign(key) PROVE ItInv'
    BY <2>1, SeekKeeps, SeekAbortsKeeps, AssignKeeps
  <2>2. QED
    BY <2>1, TableStepKeeps, BeginKeeps, IncrementKeeps, ItStutters DEF ItNext
<1>2. QED
  BY InitIt, <1>1, PTL DEF ItSpec

\* The iterator is at an entry that is there, in a block it can reach; what it++ returned
\* can be used as long as the iterator is in that block (SSTable.cpp:318).
THEOREM IteratorsReachAlways == ItSpec => []IteratorsReach
<1>1. ItInv => IteratorsReach
  <2> SUFFICES ASSUME ItInv PROVE IteratorsReach
    OBVIOUS
  <2>1. ASSUME At(it)
        PROVE  /\ it.index \in 1 .. Len(IndexBlock.entries)
               /\ it.pos \in 1 .. Len(BlockAt(it.index).entries)
    <3>1. TableInv /\ Table
      BY <2>1, NotAt DEF ItInv
    <3>2. PICK ies, cut : Opened(ies, cut)
      BY <3>1, TableOpens
    <3>3. Points(it, ies, cut, from + seen - 1)
      BY <2>1, <3>2 DEF ItInv
    <3>4. QED
      BY <3>1, <3>2, <3>3, PointShows
  <2>2. QED
    BY <2>1 DEF ItInv, IteratorsReach
<1>2. QED
  BY IteratorInvariant, <1>1, PTL

\* A walk from begin or from a key that was found shows the entries from there on in
\* the order they were added, over every block, and ends with the last.
THEOREM WalksGoInOrder == ItSpec => []WalksInOrder
<1>1. ItInv => WalksInOrder
  <2> SUFFICES ASSUME ItInv PROVE WalksInOrder
    OBVIOUS
  <2>1. ASSUME At(it)
        PROVE  from + seen - 1 <= Len(added) /\ Shows(it) = added[from + seen - 1]
    <3>1. TableInv /\ Table
      BY <2>1, NotAt DEF ItInv
    <3>2. PICK ies, cut : Opened(ies, cut)
      BY <3>1, TableOpens
    <3>3. Points(it, ies, cut, from + seen - 1)
      BY <2>1, <3>2 DEF ItInv
    <3>4. from + seen - 1 \in 1 .. Len(added) /\ Shows(it) = added[from + seen - 1]
      BY <3>1, <3>2, <3>3, PointShows
    <3>5. Len(added) \in Nat
      BY <3>1, SeqEmpty DEF TableInv, AddedInv
    <3>6. QED
      BY <3>4, <3>5
  <2>2. QED
    BY <2>1 DEF ItInv, WalksInOrder
<1>2. QED
  BY IteratorInvariant, <1>1, PTL
=============================================================================
