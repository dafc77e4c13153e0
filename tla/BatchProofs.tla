----------------------------- MODULE BatchProofs ----------------------------
(***************************************************************************)
(* Batches, the memtable they are inserted into and an iterator that      *)
(* walks meanwhile: for every set of keys, values, batches and threads,    *)
(* batches of every length, any number of calls and of entries.            *)
(***************************************************************************)
EXTENDS MemtableReads, WellFoundedInduction, TLAPS

USE MemtableAssumption, BatchAssumption

BatchSet == [seq : Nat, count : Nat, recs : Seq(Records), torn : BOOLEAN]
RunSet   == [of : Batches, batch : BatchSet, at : Nat, status : {"running", "ok", "corrupt"}]

Shape ==
    /\ batch \in [Batches -> BatchSet]
    /\ \A b \in Batches : Len(batch[b].recs) <= MaxRecords
    /\ plain \subseteq Batches
    /\ runs \in Seq(RunSet) /\ Len(runs) <= MaxRuns
    /\ \A r \in DOMAIN runs : /\ Len(runs[r].batch.recs) <= MaxRecords
                              /\ runs[r].at <= Len(runs[r].batch.recs)
    /\ running \in [Threads -> 0 .. Len(runs)]

\* Every record that was handled has an entry under its key, and there is no other.
Present == \A r \in DOMAIN runs : \A i \in 1 .. runs[r].at : KeyOf(r, i) \in DOMAIN table
Grown   == \A ik \in DOMAIN table : \E r \in DOMAIN runs : \E i \in 1 .. runs[r].at :
                ik = KeyOf(r, i) /\ table[ik] = EntryOf(r, i)

\* The node being linked is for the next record of a call, and for a key not there yet.
Half ==
    /\ DOMAIN linking \cap DOMAIN table = {}
    /\ \A ik \in DOMAIN linking : \E r \in DOMAIN runs :
           /\ runs[r].at + 1 \in 1 .. Len(runs[r].batch.recs)
           /\ ik = KeyOf(r, runs[r].at + 1) /\ linking[ik] = EntryOf(r, runs[r].at + 1)

Sound == \A b \in plain : batch[b].count = Len(batch[b].recs) /\ ~batch[b].torn

BatchInv == Shape /\ Present /\ Grown /\ Sound /\ Half

-----------------------------------------------------------------------------
(* Tags and their order                                                     *)

LEMMA Remainder ==
    ASSUME NEW m \in Nat \ {0}, NEW a \in Nat
    PROVE  a % m \in 0 .. m - 1 /\ a \div m \in Nat /\ a = m * (a \div m) + (a % m)
  OBVIOUS

\* Numbers less than m apart have different remainders.
LEMMA Apart ==
    ASSUME NEW m \in Nat \ {0}, NEW a \in Nat, NEW b \in Nat, a < b, b - a < m
    PROVE  a % m # b % m
<1> SUFFICES ASSUME a % m = b % m PROVE FALSE
  OBVIOUS
<1> DEFINE p == a \div m
           q == b \div m
           r == a % m
<1>1. p \in Nat /\ q \in Nat /\ r \in Nat /\ a = m * p + r /\ b = m * q + r
  <2>1. r \in 0 .. m - 1 /\ p \in Nat /\ a = m * p + r
    BY Remainder
  <2>2. q \in Nat /\ b = m * q + (b % m)
    BY Remainder
  <2> QED
    BY <2>1, <2>2
<1> HIDE DEF p, q, r
<1>2. b - a = m * q - m * p
  BY <1>1
<1>3. m * q - m * p = m * (q - p)
  BY <1>1
<1>4. CASE q <= p
  <2>1. m * q <= m * p
    BY <1>1, <1>4
  <2> QED
    BY <1>2, <2>1, <1>1
<1>5. CASE p < q
  <2>1. m <= m * (q - p)
    BY <1>1, <1>5
  <2> QED
    BY <1>2, <1>3, <2>1, <1>1
<1> QED
  BY <1>1, <1>4, <1>5

\* Parsed undoes packSequenceAndType but for the high byte of the sequence number.
LEMMA TagParts ==
    ASSUME NEW seq \in Nat, NEW type \in Types
    PROVE  /\ Tag(seq, type) \in 0 .. 2 * SeqMod - 1
           /\ TagType(Tag(seq, type)) = type
           /\ TagSeq(Tag(seq, type)) = seq % SeqMod
<1> DEFINE n == seq % SeqMod
<1>1. n \in 0 .. SeqMod - 1
  BY Remainder DEF n
<1> HIDE DEF n
<1>2. TypeCode(type) \in {0, 1} /\ (TypeCode(type) = 1 <=> type = "put")
  BY DEF TypeCode
<1>3. (n * 2 + TypeCode(type)) % 2 = TypeCode(type) /\ (n * 2 + TypeCode(type)) \div 2 = n
  BY <1>1, <1>2
<1>4. Tag(seq, type) = n * 2 + TypeCode(type)
  BY DEF Tag, n
<1> QED
  BY <1>1, <1>2, <1>3, <1>4 DEF TagType, TagSeq, Types, n

LEMMA KeyParts ==
    ASSUME NEW ik \in InternalKeys
    PROVE  ik.key \in Nat /\ ik.key \in Keys /\ ik.tag \in Nat
<1>1. ik.key \in Keys /\ ik.tag \in 0 .. 2 * SeqMod - 1
  BY DEF InternalKeys
<1>2. ik.key \in Nat
  BY <1>1
<1>3. ik.tag \in Nat
  BY <1>1
<1> QED
  BY <1>1, <1>2, <1>3

LEMMA EndIsNoKey == End \notin InternalKeys
<1>1. End.tag = -1
  BY DEF End
<1> QED
  BY <1>1, KeyParts

-----------------------------------------------------------------------------
(* Batches                                                                  *)

LEMMA RecordParts ==
    ASSUME NEW rec \in Records
    PROVE  rec.type \in Types /\ rec.key \in Keys
  BY DEF Records, Types

LEMMA InitBatch == Init => BatchInv
<1> SUFFICES ASSUME Init PROVE BatchInv
  OBVIOUS
<1>1. Empty \in BatchSet /\ Empty.recs = <<>>
  BY DEF Empty, BatchSet
<1>2. Shape
  BY <1>1 DEF Init, Shape
<1>3. Present /\ Grown /\ Half
  BY DEF Init, Present, Grown, Half
<1>4. Sound
  BY DEF Init, Sound, Empty
<1> QED
  BY <1>2, <1>3, <1>4 DEF BatchInv

\* What the calls have done says nothing of the batches.
LEMMA CallsStay ==
    ASSUME UNCHANGED <<table, linking, runs>>, Present, Grown, Half
    PROVE  Present' /\ Grown' /\ Half'
<1>1. \A r, i : KeyOf(r, i)' = KeyOf(r, i) /\ EntryOf(r, i)' = EntryOf(r, i)
  BY DEF KeyOf, EntryOf
<1>2. Present' /\ Grown'
  BY <1>1 DEF Present, Grown
<1>3. Half'
  BY <1>1 DEF Half
<1> QED
  BY <1>2, <1>3

LEMMA ChangeKeeps ==
    ASSUME BatchInv, NEW b \in Batches, NEW new \in BatchSet, Change(b, new),
           plain' \subseteq Batches, plain' \subseteq plain \cup {b},
           b \in plain' => new.count = Len(new.recs) /\ ~new.torn
    PROVE  BatchInv'
<1>1. /\ batch' = [batch EXCEPT ![b] = new] /\ Len(new.recs) <= MaxRecords
      /\ UNCHANGED <<table, linking, runs, running>>
  BY DEF Change
<1>2. Shape'
  BY <1>1 DEF BatchInv, Shape
<1>3. Sound'
  BY <1>1 DEF BatchInv, Shape, Sound
<1>4. Present' /\ Grown' /\ Half'
  BY <1>1, CallsStay DEF BatchInv
<1> QED
  BY <1>2, <1>3, <1>4 DEF BatchInv

LEMMA FillKeeps ==
    ASSUME BatchInv, NEW b \in Batches, Fill(b)
    PROVE  BatchInv'
<1>0. batch[b] \in BatchSet /\ plain \subseteq Batches /\ Sound
  BY DEF BatchInv, Shape
<1>1. ASSUME NEW rec \in Records, AddRecord(b, rec) PROVE BatchInv'
  <2> DEFINE n    == batch[b].count + 1
             more == Append(batch[b].recs, rec)
             new  == [batch[b] EXCEPT !.count = n, !.recs = more]
  <2>1. n \in Nat /\ more \in Seq(Records) /\ Len(more) = Len(batch[b].recs) + 1
    BY <1>0 DEF BatchSet
  <2>2. b \in plain => n = Len(more) /\ ~batch[b].torn
    BY <2>1, <1>0 DEF Sound
  <2>3. Change(b, new) /\ plain' = plain
    BY <1>1 DEF AddRecord
  <2> HIDE DEF n, more
  <2>4. new \in BatchSet
    BY <1>0, <2>1 DEF BatchSet
  <2>5. b \in plain => new.count = Len(new.recs) /\ ~new.torn
    BY <1>0, <2>2 DEF BatchSet
  <2> QED
    BY <1>0, <2>3, <2>4, <2>5, ChangeKeeps
<1>2. ASSUME NEW k \in Keys, Delete(b, k) PROVE BatchInv'
  <2>1. [type |-> "delete", key |-> k, value |-> Nobody] \in Records
    BY DEF Records
  <2> QED
    BY <1>1, <1>2, <2>1 DEF Delete
<1>3. ASSUME NEW k \in Keys, NEW v \in Values, Put(b, k, v) PROVE BatchInv'
  <2>1. [type |-> "put", key |-> k, value |-> v] \in Records
    BY DEF Records
  <2> QED
    BY <1>1, <1>3, <2>1 DEF Put
<1>4. CASE Clear(b)
  <2>1. Empty \in BatchSet /\ Empty.count = Len(Empty.recs) /\ ~Empty.torn
    BY DEF Empty, BatchSet
  <2> QED
    BY <1>0, <1>4, <2>1, ChangeKeeps DEF Clear
<1>5. ASSUME NEW s \in Seqs, SetSequence(b, s) PROVE BatchInv'
  <2> DEFINE new == [batch[b] EXCEPT !.seq = s]
  <2>1. new \in BatchSet /\ (b \in plain => new.count = Len(new.recs) /\ ~new.torn)
    BY <1>0 DEF BatchSet, Sound
  <2>2. Change(b, new) /\ plain' = plain
    BY <1>5 DEF SetSequence
  <2> QED
    BY <1>0, <2>1, <2>2, ChangeKeeps
<1>6. ASSUME NEW n \in Counts, SetCount(b, n) PROVE BatchInv'
  <2> DEFINE new == [batch[b] EXCEPT !.count = n]
  <2>1. new \in BatchSet
    BY <1>0 DEF BatchSet
  <2>2. Change(b, new) /\ plain' = plain \ {b}
    BY <1>6 DEF SetCount
  <2> QED
    BY <1>0, <2>1, <2>2, ChangeKeeps
<1>7. ASSUME NEW c \in Batches, AppendBatch(b, c) PROVE BatchInv'
  <2> DEFINE n    == batch[b].count + batch[c].count
             both == batch[b].recs \o batch[c].recs
             t    == batch[c].torn
             new  == [batch[b] EXCEPT !.count = n, !.recs = both, !.torn = t]
  <2>1. batch[c] \in BatchSet
    BY DEF BatchInv, Shape
  <2>2. /\ batch[b].recs \in Seq(Records) /\ batch[c].recs \in Seq(Records)
        /\ n \in Nat /\ t \in BOOLEAN
    BY <1>0, <2>1 DEF BatchSet
  <2>3. both \in Seq(Records) /\ Len(both) = Len(batch[b].recs) + Len(batch[c].recs)
    BY <2>2
  <2>4. b \in plain /\ c \in plain => n = Len(both) /\ ~t
    BY <1>0, <2>3 DEF Sound
  <2>5. Change(b, new) /\ plain' = IF c \in plain THEN plain ELSE plain \ {b}
    BY <1>7 DEF AppendBatch
  <2> HIDE DEF n, both, t
  <2>6. new \in BatchSet
    BY <1>0, <2>2, <2>3 DEF BatchSet
  <2>7. b \in plain /\ c \in plain => new.count = Len(new.recs) /\ ~new.torn
    BY <1>0, <2>4 DEF BatchSet
  <2> QED
    BY <1>0, <2>5, <2>6, <2>7, ChangeKeeps
<1>8. ASSUME NEW c \in Batches, NEW n \in 0 .. MaxRecords, NEW torn \in BOOLEAN,
             SetContents(b, c, n, torn)
      PROVE  BatchInv'
  <2> DEFINE new == [batch[c] EXCEPT !.recs = SubSeq(@, 1, n), !.torn = torn]
  <2>0. batch[c] \in BatchSet
    BY DEF BatchInv, Shape
  <2>1. n <= Len(batch[c].recs) /\ Change(b, new) /\ plain' = plain \ {b}
    BY <1>8 DEF SetContents
  <2>2. SubSeq(batch[c].recs, 1, n) \in Seq(Records)
    BY <2>0, <2>1 DEF BatchSet
  <2>3. new \in BatchSet
    BY <2>0, <2>2 DEF BatchSet
  <2> QED
    BY <1>0, <2>1, <2>3, ChangeKeeps
<1> QED
  BY <1>2, <1>3, <1>4, <1>5, <1>6, <1>7, <1>8 DEF Fill

-----------------------------------------------------------------------------
(* Calls of InsertInto                                                      *)

\* What a record is made into
LEMMA KeyOfParts ==
    ASSUME Shape, NEW r \in DOMAIN runs, NEW i \in 1 .. Len(runs[r].batch.recs)
    PROVE  /\ KeyOf(r, i) \in InternalKeys
           /\ KeyOf(r, i).key = runs[r].batch.recs[i].key
           /\ TagType(KeyOf(r, i).tag) = runs[r].batch.recs[i].type
           /\ TagSeq(KeyOf(r, i).tag) = (runs[r].batch.seq + i - 1) % SeqMod
<1> DEFINE rec == runs[r].batch.recs[i]
           n   == runs[r].batch.seq + i - 1
<1>1. runs[r] \in RunSet
  BY DEF Shape
<1>2. runs[r].batch.recs \in Seq(Records) /\ runs[r].batch.seq \in Nat
  BY <1>1 DEF RunSet, BatchSet
<1>3. rec \in Records /\ n \in Nat
  BY <1>2
<1>4. rec.type \in Types /\ rec.key \in Keys
  BY <1>3, RecordParts
<1>5. KeyOf(r, i) = [key |-> rec.key, tag |-> Tag(n, rec.type)]
  BY DEF KeyOf, InternalKey
<1> HIDE DEF rec, n
<1>6. /\ Tag(n, rec.type) \in 0 .. 2 * SeqMod - 1
      /\ TagType(Tag(n, rec.type)) = rec.type
      /\ TagSeq(Tag(n, rec.type)) = n % SeqMod
  BY <1>3, <1>4, TagParts
<1>7. KeyOf(r, i) \in InternalKeys
  BY <1>4, <1>5, <1>6 DEF InternalKeys
<1> QED
  BY <1>5, <1>6, <1>7 DEF rec, n

\* A call that begins has handled nothing.
LEMMA InsertIntoKeeps ==
    ASSUME BatchInv, NEW t \in Threads, NEW b \in Batches, InsertInto(t, b)
    PROVE  BatchInv'
<1> DEFINE new == [of |-> b, batch |-> batch[b], at |-> 0, status |-> "running"]
<1>1. new \in RunSet /\ Len(batch[b].recs) <= MaxRecords /\ batch[b].recs \in Seq(Records)
  BY DEF BatchInv, Shape, RunSet, BatchSet
<1>2. /\ runs' = Append(runs, new) /\ Len(runs) < MaxRuns
      /\ running' = [running EXCEPT ![t] = Len(runs) + 1]
      /\ UNCHANGED <<table, linking, batch, plain>>
  BY DEF InsertInto
<1>3. runs \in Seq(RunSet)
  BY DEF BatchInv, Shape
<1> HIDE DEF new
<1>4. /\ runs' \in Seq(RunSet) /\ Len(runs') = Len(runs) + 1
      /\ DOMAIN runs' = DOMAIN runs \cup {Len(runs) + 1}
      /\ \A r \in DOMAIN runs : runs'[r] = runs[r]
      /\ runs'[Len(runs) + 1] = new
  BY <1>1, <1>2, <1>3
<1>5. new.batch = batch[b] /\ new.at = 0 /\ new.status = "running"
  BY DEF new
<1>6. Shape'
  <2>1. running' \in [Threads -> 0 .. Len(runs')]
    BY <1>2, <1>3, <1>4 DEF BatchInv, Shape
  <2>2. \A r \in DOMAIN runs' : /\ Len(runs'[r].batch.recs) <= MaxRecords
                                /\ runs'[r].at <= Len(runs'[r].batch.recs)
    BY <1>1, <1>4, <1>5 DEF BatchInv, Shape
  <2>3. Len(runs') <= MaxRuns
    BY <1>2, <1>3, <1>4
  <2> QED
    BY <1>2, <1>4, <2>1, <2>2, <2>3 DEF BatchInv, Shape
<1>7. Present'
  BY <1>2, <1>4, <1>5 DEF BatchInv, Present, KeyOf
<1>8. Grown'
  BY <1>2, <1>4, <1>5 DEF BatchInv, Grown, KeyOf, EntryOf
<1>9. Sound' /\ Half'
  <2>1. Half'
    BY <1>2, <1>4 DEF BatchInv, Half, KeyOf, EntryOf
  <2> QED
    BY <1>2, <2>1 DEF BatchInv, Sound
<1> QED
  BY <1>6, <1>7, <1>8, <1>9 DEF BatchInv

LEMMA InsertEndKeeps ==
    ASSUME BatchInv, NEW t \in Threads, InsertEnd(t)
    PROVE  BatchInv'
<1> DEFINE r == running[t]
           s == IF runs[r].batch.torn \/ runs[r].at # runs[r].batch.count THEN "corrupt" ELSE "ok"
<1>1. /\ r \in DOMAIN runs /\ runs[r].at = Len(runs[r].batch.recs)
      /\ runs' = [runs EXCEPT ![r].status = s]
      /\ running' = [running EXCEPT ![t] = 0] /\ UNCHANGED <<table, linking, batch, plain>>
  BY DEF InsertEnd, Run, BatchInv, Shape
<1>2. runs \in Seq(RunSet)
  BY DEF BatchInv, Shape
<1>3. s \in {"ok", "corrupt"}
  OBVIOUS
<1> HIDE DEF r, s
<1>4. /\ DOMAIN runs' = DOMAIN runs /\ Len(runs') = Len(runs) /\ runs' \in Seq(RunSet)
      /\ \A q \in DOMAIN runs : runs'[q].batch = runs[q].batch /\ runs'[q].at = runs[q].at
      /\ \A q \in DOMAIN runs : q # r => runs'[q] = runs[q]
      /\ runs'[r].status = s
  <2>1. runs[r] \in RunSet
    BY <1>1, <1>2
  <2>2. [runs[r] EXCEPT !.status = s] \in RunSet
    BY <1>3, <2>1 DEF RunSet
  <2>3. runs'[r] = [runs[r] EXCEPT !.status = s]
    BY <1>1, <1>2
  <2>4. DOMAIN runs' = DOMAIN runs /\ Len(runs') = Len(runs) /\ runs' \in Seq(RunSet)
    BY <1>1, <1>2, <2>2, <2>3
  <2>5. \A q \in DOMAIN runs : q # r => runs'[q] = runs[q]
    BY <1>1, <1>2
  <2>6. runs'[r].batch = runs[r].batch /\ runs'[r].at = runs[r].at /\ runs'[r].status = s
    BY <2>1, <2>3 DEF RunSet
  <2> QED
    BY <2>4, <2>5, <2>6
<1>5. Shape'
  BY <1>1, <1>4 DEF BatchInv, Shape
<1>6. Present'
  <2> SUFFICES ASSUME NEW q \in DOMAIN runs', NEW j \in 1 .. runs'[q].at
               PROVE  KeyOf(q, j)' \in DOMAIN table'
    BY DEF Present
  <2>1. q \in DOMAIN runs /\ runs'[q].at = runs[q].at /\ runs'[q].batch = runs[q].batch
    BY <1>4
  <2>2. KeyOf(q, j) \in DOMAIN table
    BY <2>1 DEF BatchInv, Present
  <2>3. KeyOf(q, j)' = KeyOf(q, j)
    BY <2>1 DEF KeyOf
  <2> QED
    BY <1>1, <2>2, <2>3
<1>7. Grown'
  <2>1. \A q \in DOMAIN runs, j \in Nat :
            KeyOf(q, j)' = KeyOf(q, j) /\ EntryOf(q, j)' = EntryOf(q, j)
    BY <1>4 DEF KeyOf, EntryOf
  <2>2. \A q \in DOMAIN runs : 1 .. runs[q].at \subseteq Nat
    BY <1>2 DEF RunSet
  <2> QED
    BY <1>1, <1>4, <2>1, <2>2 DEF BatchInv, Grown
<1>8. Sound' /\ Half'
  <2>1. \A q \in DOMAIN runs : /\ KeyOf(q, runs[q].at + 1)' = KeyOf(q, runs[q].at + 1)
                               /\ EntryOf(q, runs[q].at + 1)' = EntryOf(q, runs[q].at + 1)
    BY <1>4 DEF KeyOf, EntryOf
  <2>2. Half'
    BY <1>1, <1>4, <2>1 DEF BatchInv, Half
  <2> QED
    BY <1>1, <2>2 DEF BatchInv, Sound
<1> QED
  BY <1>5, <1>6, <1>7, <1>8 DEF BatchInv

\* The record a call is at
LEMMA RecordAt ==
    ASSUME BatchInv, NEW t \in Threads, NEW i \in 1 .. MaxRecords, AtRecord(t, i)
    PROVE  LET r == running[t] IN
           /\ r \in DOMAIN runs /\ runs[r] \in RunSet /\ runs[r].batch.recs \in Seq(Records)
           /\ i = runs[r].at + 1 /\ i \in Nat /\ runs[r].at \in Nat
           /\ i \in 1 .. Len(runs[r].batch.recs)
<1> DEFINE r == running[t]
<1>1. running \in [Threads -> 0 .. Len(runs)] /\ runs \in Seq(RunSet)
  BY DEF BatchInv, Shape
<1>2. r # 0 /\ i = runs[r].at + 1 /\ i \in DOMAIN runs[r].batch.recs
  BY DEF AtRecord, Run
<1>3. r \in DOMAIN runs
  BY <1>1, <1>2
<1>4. runs[r] \in RunSet
  BY <1>1, <1>3
<1>5. runs[r].at \in Nat /\ runs[r].batch.recs \in Seq(Records)
  BY <1>4 DEF RunSet, BatchSet
<1> HIDE DEF r
<1>6. i \in 1 .. Len(runs[r].batch.recs) /\ i \in Nat
  BY <1>2, <1>5
<1> QED
  BY <1>2, <1>3, <1>4, <1>5, <1>6 DEF r

\* A thread that begins to link has the lock, and the key is not there.
LEMMA LinkRecordKeeps ==
    ASSUME BatchInv, NEW t \in Threads, NEW i \in 1 .. MaxRecords, LinkRecord(t, i)
    PROVE  BatchInv'
<1> DEFINE r == running[t]
<1>1. AtRecord(t, i) /\ UNCHANGED <<batch, plain, runs, running>>
  BY DEF LinkRecord
<1>2. /\ r \in DOMAIN runs /\ i = runs[r].at + 1 /\ i \in 1 .. Len(runs[r].batch.recs)
  BY <1>1, RecordAt
<1>3. /\ KeyOf(r, i) \notin DOMAIN table /\ UNCHANGED table
      /\ linking' = [ik \in {KeyOf(r, i)} |-> EntryOf(r, i)]
  BY DEF LinkRecord, AddBegins, Run, KeyOf
<1> HIDE DEF r
<1>4. Shape' /\ Sound'
  BY <1>1 DEF BatchInv, Shape, Sound
<1>5. \A q, j : KeyOf(q, j)' = KeyOf(q, j) /\ EntryOf(q, j)' = EntryOf(q, j)
  BY <1>1 DEF KeyOf, EntryOf
<1>6. Present' /\ Grown'
  BY <1>1, <1>3, <1>5 DEF BatchInv, Present, Grown
<1>7. Half'
  BY <1>1, <1>2, <1>3, <1>5 DEF Half
<1> QED
  BY <1>4, <1>6, <1>7 DEF BatchInv

LEMMA InsertRecordKeeps ==
    ASSUME BatchInv, NEW t \in Threads, NEW i \in 1 .. MaxRecords, InsertRecord(t, i)
    PROVE  BatchInv'
<1> DEFINE r == running[t]
<1>1. /\ AtRecord(t, i) /\ UNCHANGED <<batch, plain, running>>
      /\ runs' = [runs EXCEPT ![r].at = i]
  BY DEF InsertRecord
<1>2. runs \in Seq(RunSet) /\ runs[r] \in RunSet
  BY <1>1, RecordAt DEF BatchInv, Shape
<1>3. /\ runs[r].at \in Nat /\ i \in Nat /\ i \in 1 .. Len(runs[r].batch.recs)
      /\ r \in DOMAIN runs /\ i = runs[r].at + 1
  BY <1>1, RecordAt
<1>4. /\ DOMAIN table' = DOMAIN table \cup {KeyOf(r, i)} /\ linking' = <<>>
      /\ \A ik \in DOMAIN table : table'[ik] = table[ik]
      /\ KeyOf(r, i) \notin DOMAIN table => table'[KeyOf(r, i)] = EntryOf(r, i)
  <2> DEFINE k == KeyOf(r, i)
  <2>1. /\ \/ k \in DOMAIN table /\ table' = table
           \/ /\ k \in DOMAIN linking
              /\ table' = [ik \in DOMAIN table \cup {k} |->
                              IF ik = k THEN EntryOf(r, i) ELSE table[ik]]
        /\ linking' = <<>>
    BY DEF InsertRecord, Add, Run, KeyOf
  <2>2. k \in DOMAIN linking => k \notin DOMAIN table
    BY DEF BatchInv, Half
  <2> HIDE DEF k
  <2>3. /\ DOMAIN table' = DOMAIN table \cup {k} /\ linking' = <<>>
        /\ \A ik \in DOMAIN table : table'[ik] = table[ik]
        /\ k \notin DOMAIN table => table'[k] = EntryOf(r, i)
    BY <2>1, <2>2
  <2> QED
    BY <2>3 DEF k
<1> HIDE DEF r
<1>5. /\ DOMAIN runs' = DOMAIN runs /\ Len(runs') = Len(runs) /\ runs' \in Seq(RunSet)
      /\ \A q \in DOMAIN runs : runs'[q].batch = runs[q].batch
      /\ \A q \in DOMAIN runs : q # r => runs'[q] = runs[q]
      /\ runs'[r].at = i /\ runs'[r].status = runs[r].status
  <2>0. i \in Nat /\ r \in DOMAIN runs
    BY <1>3
  <2>1. [runs[r] EXCEPT !.at = i] \in RunSet
    BY <1>2, <2>0 DEF RunSet
  <2>2. runs'[r] = [runs[r] EXCEPT !.at = i]
    BY <1>1, <1>2, <2>0
  <2>3. DOMAIN runs' = DOMAIN runs /\ Len(runs') = Len(runs) /\ runs' \in Seq(RunSet)
    BY <1>1, <1>2, <2>0, <2>1, <2>2
  <2>4. \A q \in DOMAIN runs : q # r => runs'[q] = runs[q]
    BY <1>1, <1>2
  <2>5. runs'[r].batch = runs[r].batch /\ runs'[r].at = i /\ runs'[r].status = runs[r].status
    BY <1>2, <2>2 DEF RunSet
  <2> QED
    BY <2>3, <2>4, <2>5
<1>6. /\ \A q \in DOMAIN runs : \A j \in 1 .. runs[q].at : j \in 1 .. runs'[q].at
      /\ \A q \in DOMAIN runs : \A j \in 1 .. runs'[q].at :
             j \in 1 .. runs[q].at \/ (q = r /\ j = i)
      /\ i \in 1 .. runs'[r].at
  <2>1. i = runs[r].at + 1
    BY <1>3
  <2>2. \A q \in DOMAIN runs : q # r => runs'[q].at = runs[q].at
    BY <1>5
  <2>3. runs'[r].at = i /\ runs[r].at \in Nat
    BY <1>3, <1>5
  <2>4. \A j \in Int : j \in 1 .. i <=> j \in 1 .. runs[r].at \/ j = i
    BY <2>1, <2>3
  <2> QED
    BY <2>1, <2>2, <2>3, <2>4
<1>7. \A q \in DOMAIN runs, j \in Nat : KeyOf(q, j)' = KeyOf(q, j) /\ EntryOf(q, j)' = EntryOf(q, j)
  BY <1>5 DEF KeyOf, EntryOf
<1>8. Shape'
  <2>1. \A q \in DOMAIN runs : runs'[q].at <= Len(runs'[q].batch.recs)
    BY <1>1, <1>3, <1>5 DEF BatchInv, Shape
  <2> QED
    BY <1>1, <1>5, <2>1 DEF BatchInv, Shape
<1>9. Present'
  BY <1>4, <1>5, <1>6, <1>7 DEF BatchInv, Present
<1>10. Grown'
  <2> SUFFICES ASSUME NEW ik \in DOMAIN table'
               PROVE  \E q \in DOMAIN runs' : \E j \in 1 .. runs'[q].at :
                          ik = KeyOf(q, j)' /\ table'[ik] = EntryOf(q, j)'
    BY DEF Grown
  <2>1. CASE ik \in DOMAIN table
    <3>1. PICK q \in DOMAIN runs : \E j \in 1 .. runs[q].at :
              ik = KeyOf(q, j) /\ table[ik] = EntryOf(q, j)
      BY <2>1 DEF BatchInv, Grown
    <3>2. PICK j \in 1 .. runs[q].at : ik = KeyOf(q, j) /\ table[ik] = EntryOf(q, j)
      BY <3>1
    <3>3. table'[ik] = table[ik]
      BY <1>4, <2>1
    <3> QED
      BY <1>5, <1>6, <1>7, <3>2, <3>3
  <2>2. CASE ik \notin DOMAIN table
    <3>1. ik = KeyOf(r, i) /\ table'[ik] = EntryOf(r, i)
      BY <1>4, <2>2
    <3> QED
      BY <1>1, <1>3, <1>5, <1>6, <1>7, <3>1
  <2> QED
    BY <2>1, <2>2
<1>11. Sound' /\ Half'
  <2>1. Sound'
    BY <1>1 DEF BatchInv, Sound
  <2>2. Half'
    BY <1>4 DEF Half
  <2> QED
    BY <2>1, <2>2
<1> QED
  BY <1>8, <1>9, <1>10, <1>11 DEF BatchInv

LEMMA StutterBatch == ASSUME BatchInv, UNCHANGED vars PROVE BatchInv'
<1>1. UNCHANGED <<table, linking, batch, plain, runs, running>>
  BY DEF vars
<1>2. Present' /\ Grown' /\ Half'
  BY <1>1, CallsStay DEF BatchInv
<1>3. Shape' /\ Sound'
  BY <1>1 DEF BatchInv, Shape, Sound
<1> QED
  BY <1>2, <1>3 DEF BatchInv

LEMMA StepKeeps == ASSUME BatchInv, [Next]_vars PROVE BatchInv'
  BY FillKeeps, InsertIntoKeeps, LinkRecordKeeps, InsertRecordKeeps, InsertEndKeeps, StutterBatch
  DEF Next, Step

\* No step takes an entry out of the table or changes it, and the one that is being
\* linked goes into it.
LEMMA NodesStay ==
    ASSUME BatchInv, [Next]_vars
    PROVE  /\ \A ik \in Nodes : ik \in Nodes' /\ Content(ik)' = Content(ik)
           /\ \A ik \in DOMAIN table : ik \in DOMAIN table'
<1>0. DOMAIN linking \cap DOMAIN table = {}
  BY DEF BatchInv, Half
<1>1. ASSUME UNCHANGED <<table, linking>>
      PROVE  /\ \A ik \in Nodes : ik \in Nodes' /\ Content(ik)' = Content(ik)
             /\ \A ik \in DOMAIN table : ik \in DOMAIN table'
  BY <1>1 DEF Nodes, Content
<1>2. ASSUME NEW t \in Threads, NEW i \in 1 .. MaxRecords, InsertRecord(t, i)
      PROVE  /\ \A ik \in Nodes : ik \in Nodes' /\ Content(ik)' = Content(ik)
             /\ \A ik \in DOMAIN table : ik \in DOMAIN table'
  <2> DEFINE b == Run(t).batch
             k == InternalKey(b.recs[i].key, b.seq + i - 1, b.recs[i].type)
             e == EntryOf(running[t], i)
  <2>1. \/ DOMAIN linking = {} /\ table' = table
        \/ /\ DOMAIN linking = {k} /\ linking[k] = e
           /\ table' = [ik \in DOMAIN table \cup {k} |-> IF ik = k THEN e ELSE table[ik]]
    BY <1>2 DEF InsertRecord, Add
  <2> HIDE DEF k, e
  <2> QED
    BY <1>0, <2>1 DEF Nodes, Content
<1>3. ASSUME NEW t \in Threads, NEW i \in 1 .. MaxRecords, LinkRecord(t, i)
      PROVE  /\ \A ik \in Nodes : ik \in Nodes' /\ Content(ik)' = Content(ik)
             /\ \A ik \in DOMAIN table : ik \in DOMAIN table'
  <2>1. DOMAIN linking = {} /\ table' = table
    BY <1>3 DEF LinkRecord, AddBegins
  <2> QED
    BY <2>1 DEF Nodes, Content
<1>4. ASSUME NEW b \in Batches, Fill(b) PROVE UNCHANGED <<table, linking>>
  BY <1>4 DEF Fill, Put, Delete, AddRecord, Clear, SetSequence, SetCount, AppendBatch,
              SetContents, Change
<1>5. ASSUME NEW t \in Threads, NEW b \in Batches, InsertInto(t, b)
      PROVE  UNCHANGED <<table, linking>>
  BY <1>5 DEF InsertInto
<1>6. ASSUME NEW t \in Threads, InsertEnd(t) PROVE UNCHANGED <<table, linking>>
  BY <1>6 DEF InsertEnd
<1>7. UNCHANGED vars => UNCHANGED <<table, linking>>
  BY DEF vars
<1> QED
  BY <1>1, <1>2, <1>3, <1>4, <1>5, <1>6, <1>7 DEF Next, Step

-----------------------------------------------------------------------------
(* What the invariant says of the table                                     *)

\* Every node holds a record of a call.
LEMMA NodeIsOf ==
    ASSUME BatchInv, NEW ik \in Nodes
    PROVE  \E r \in DOMAIN runs : \E i \in 1 .. Len(runs[r].batch.recs) :
               ik = KeyOf(r, i) /\ Content(ik) = EntryOf(r, i)
<1>1. CASE ik \in DOMAIN table
  <2>1. PICK r \in DOMAIN runs : \E i \in 1 .. runs[r].at :
            ik = KeyOf(r, i) /\ table[ik] = EntryOf(r, i)
    BY <1>1 DEF BatchInv, Grown
  <2>2. PICK i \in 1 .. runs[r].at : ik = KeyOf(r, i) /\ table[ik] = EntryOf(r, i)
    BY <2>1
  <2>3. runs[r] \in RunSet /\ runs[r].at <= Len(runs[r].batch.recs)
    BY DEF BatchInv, Shape
  <2>4. runs[r].batch.recs \in Seq(Records) /\ runs[r].at \in Nat
    BY <2>3 DEF RunSet, BatchSet
  <2>5. i \in 1 .. Len(runs[r].batch.recs)
    BY <2>3, <2>4
  <2> QED
    BY <1>1, <2>2, <2>5 DEF Content
<1>2. CASE ik \notin DOMAIN table
  <2>1. ik \in DOMAIN linking /\ Content(ik) = linking[ik]
    BY <1>2 DEF Nodes, Content
  <2> QED
    BY <2>1 DEF BatchInv, Half
<1> QED
  BY <1>1, <1>2

LEMMA EntryParts ==
    ASSUME BatchInv, NEW ik \in Nodes
    PROVE  /\ ik \in InternalKeys /\ Content(ik).value \in Values \cup {Nobody}
           /\ LET r == Content(ik).by[1] i == Content(ik).by[2]
                  rec == runs[r].batch.recs[i]
              IN  rec.key = ik.key /\ rec.type = TagType(ik.tag) /\ rec.value = Content(ik).value
<1>1. PICK r \in DOMAIN runs : \E i \in 1 .. Len(runs[r].batch.recs) :
          ik = KeyOf(r, i) /\ Content(ik) = EntryOf(r, i)
  BY NodeIsOf
<1>2. PICK i \in 1 .. Len(runs[r].batch.recs) : ik = KeyOf(r, i) /\ Content(ik) = EntryOf(r, i)
  BY <1>1
<1> DEFINE rec == runs[r].batch.recs[i]
<1>3. runs[r] \in RunSet
  BY DEF BatchInv, Shape
<1>4. runs[r].batch.recs \in Seq(Records)
  BY <1>3 DEF RunSet, BatchSet
<1>6. rec \in Records
  BY <1>4
<1>7. rec.value \in Values \cup {Nobody}
  BY <1>6 DEF Records
<1>8. /\ KeyOf(r, i) \in InternalKeys /\ KeyOf(r, i).key = rec.key
      /\ TagType(KeyOf(r, i).tag) = rec.type
  BY KeyOfParts DEF BatchInv
<1>9. Content(ik).by[1] = r /\ Content(ik).by[2] = i /\ Content(ik).value = rec.value
  BY <1>2 DEF EntryOf
<1> QED
  BY <1>2, <1>7, <1>8, <1>9

LEMMA TypeFollows == BatchInv => TypeOK
<1> SUFFICES ASSUME BatchInv PROVE TypeOK
  OBVIOUS
<1>1. \A ik \in Nodes : ik \in InternalKeys /\ Content(ik).value \in Values \cup {Nobody}
  BY EntryParts
<1>2. \A b \in Batches : IsBatch(batch[b])
  BY DEF BatchInv, Shape, BatchSet, IsBatch
<1>3. ASSUME NEW r \in DOMAIN runs
      PROVE  /\ IsBatch(runs[r].batch) /\ runs[r].at \in 0 .. Len(runs[r].batch.recs)
             /\ runs[r].status \in {"running", "ok", "corrupt"}
  <2>1. /\ runs[r] \in RunSet /\ runs[r].at <= Len(runs[r].batch.recs)
        /\ Len(runs[r].batch.recs) <= MaxRecords
    BY DEF BatchInv, Shape
  <2>2. runs[r].at \in Nat /\ runs[r].batch \in BatchSet
        /\ runs[r].status \in {"running", "ok", "corrupt"}
    BY <2>1 DEF RunSet
  <2>3. IsBatch(runs[r].batch)
    BY <2>1, <2>2 DEF BatchSet, IsBatch
  <2>4. Len(runs[r].batch.recs) \in Nat
    BY <2>2 DEF BatchSet
  <2> QED
    BY <2>1, <2>2, <2>3, <2>4
<1>4. running \in [Threads -> 0 .. MaxRuns]
  <2>1. Len(runs) \in Nat /\ Len(runs) <= MaxRuns /\ running \in [Threads -> 0 .. Len(runs)]
    BY DEF BatchInv, Shape
  <2> QED
    BY <2>1
<1>5. plain \subseteq Batches
  BY DEF BatchInv, Shape
<1> QED
  BY <1>1, <1>2, <1>3, <1>4, <1>5 DEF TypeOK

\* Records of calls that do not disturb each other have different keys.
LEMMA OneKeyEach ==
    ASSUME BatchInv, NEW r \in DOMAIN runs, NEW q \in DOMAIN runs, Undisturbed(r),
           NEW i \in 1 .. runs[r].at, NEW j \in 1 .. runs[q].at, KeyOf(r, i) = KeyOf(q, j)
    PROVE  q = r /\ j = i
<1>1. \A p \in DOMAIN runs : /\ runs[p].batch.seq \in Nat /\ runs[p].at \in Nat
                             /\ runs[p].batch.recs \in Seq(Records)
  <2> SUFFICES ASSUME NEW p \in DOMAIN runs
               PROVE  /\ runs[p].batch.seq \in Nat /\ runs[p].at \in Nat
                      /\ runs[p].batch.recs \in Seq(Records)
    OBVIOUS
  <2>1. runs[p] \in RunSet
    BY DEF BatchInv, Shape
  <2>2. runs[p].batch \in BatchSet /\ runs[p].at \in Nat
    BY <2>1 DEF RunSet
  <2> QED
    BY <2>2 DEF BatchSet
<1>2. \A p \in DOMAIN runs : /\ runs[p].at <= Len(runs[p].batch.recs)
                             /\ Len(runs[p].batch.recs) <= MaxRecords
  BY DEF BatchInv, Shape
<1>3. i \in 1 .. Len(runs[r].batch.recs) /\ j \in 1 .. Len(runs[q].batch.recs)
  BY <1>1, <1>2
<1>4. (runs[r].batch.seq + i - 1) % SeqMod = (runs[q].batch.seq + j - 1) % SeqMod
  BY <1>3, KeyOfParts DEF BatchInv
<1>5. q = r
  <2>0. i \in DOMAIN runs[r].batch.recs /\ j \in DOMAIN runs[q].batch.recs
    BY <1>3, <1>1
  <2>1. (runs[r].batch.seq + i - 1) % SeqMod \in Used(r)
    BY <2>0, Zenon DEF Used
  <2>2. (runs[q].batch.seq + j - 1) % SeqMod \in Used(q)
    BY <2>0, Zenon DEF Used
  <2> QED
    BY <1>4, <2>1, <2>2 DEF Undisturbed
<1>6. j = i
  <2> DEFINE a == runs[r].batch.seq + i - 1
             b == runs[r].batch.seq + j - 1
  <2>1. i \in 1 .. Len(runs[r].batch.recs) /\ j \in 1 .. Len(runs[r].batch.recs)
    BY <1>3, <1>5
  <2>2. Len(runs[r].batch.recs) \in Nat /\ Len(runs[r].batch.recs) <= SeqMod
    BY <1>1, <1>2
  <2>3. /\ a \in Nat /\ b \in Nat /\ (a < b <=> i < j) /\ (b < a <=> j < i)
        /\ b - a < SeqMod /\ a - b < SeqMod
    <3>1. runs[r].batch.seq \in Nat /\ SeqMod \in Nat
      BY <1>1, MemtableAssumption
    <3>2. i \in Nat /\ j \in Nat /\ i > 0 /\ j > 0 /\ i <= SeqMod /\ j <= SeqMod
      BY <2>1, <2>2, <3>1
    <3> QED
      BY <3>1, <3>2
  <2>4. a % SeqMod = b % SeqMod
    BY <1>4, <1>5
  <2> HIDE DEF a, b
  <2>5. ~(a < b) /\ ~(b < a)
    BY <2>3, <2>4, Apart
  <2> QED
    BY <2>1, <2>3, <2>5
<1> QED
  BY <1>5, <1>6

-----------------------------------------------------------------------------
(* The theorems on batches                                                  *)

\* The invariant holds of every behavior.
THEOREM BatchInvariant == Spec => []BatchInv
<1>1. BatchInv /\ [Next]_vars => BatchInv'
  BY StepKeeps
<1> QED
  BY InitBatch, <1>1, PTL DEF Spec

\* A batch that only PutRecord, DeleteRecord, Append and clear made has the count and the
\* end that Iterate asks for.
THEOREM PlainAccepted == Spec => []PlainIsSound
<1>1. BatchInv => PlainIsSound
  BY TypeFollows DEF BatchInv, Sound, PlainIsSound
<1> QED
  BY BatchInvariant, <1>1, PTL

\* Records that were handled by Iterate are in the memtable under their numbers, with
\* their values, where Memtable::find finds them, and the memtable holds nothing else.
THEOREM RecordsApplied == Spec => []AppliedInOrder
<1>1. ASSUME BatchInv PROVE AppliedInOrder
  <2> SUFFICES ASSUME NEW r \in DOMAIN runs, NEW i \in 1 .. runs[r].at
               PROVE  /\ KeyOf(r, i) \in DOMAIN table
                      /\ Undisturbed(r) =>
                            /\ table[KeyOf(r, i)] = EntryOf(r, i)
                            /\ runs[r].batch.recs[i].type = "put" => PutIsFound(r, i)
    BY <1>1 DEF AppliedInOrder, BatchInv, Grown
  <2>1. KeyOf(r, i) \in DOMAIN table
    BY <1>1 DEF BatchInv, Present
  <2> SUFFICES ASSUME Undisturbed(r)
               PROVE  /\ table[KeyOf(r, i)] = EntryOf(r, i)
                      /\ runs[r].batch.recs[i].type = "put" => PutIsFound(r, i)
    BY <2>1
  <2>2. PICK q \in DOMAIN runs : \E j \in 1 .. runs[q].at :
            KeyOf(r, i) = KeyOf(q, j) /\ table[KeyOf(r, i)] = EntryOf(q, j)
    BY <1>1, <2>1 DEF BatchInv, Grown
  <2>3. PICK j \in 1 .. runs[q].at :
            KeyOf(r, i) = KeyOf(q, j) /\ table[KeyOf(r, i)] = EntryOf(q, j)
    BY <2>2
  <2>4. table[KeyOf(r, i)] = EntryOf(r, i)
    BY <1>1, <2>3, OneKeyEach
  <2>5. ASSUME runs[r].batch.recs[i].type = "put" PROVE PutIsFound(r, i)
    <3> DEFINE k    == KeyOf(r, i)
               hit  == [result |-> "found", value |-> runs[r].batch.recs[i].value]
               miss == [result |-> "aborts"]
    <3>1. LookupKey(runs[r].batch.recs[i].key, runs[r].batch.seq + i - 1) = k
      BY <2>5 DEF LookupKey, KeyOf
    <3>2. k \in InternalKeys /\ TagType(k.tag) = "put"
      <4>1. runs[r] \in RunSet /\ runs[r].at <= Len(runs[r].batch.recs)
        BY <1>1 DEF BatchInv, Shape
      <4>2. runs[r].at \in Nat /\ Len(runs[r].batch.recs) \in Nat
        BY <4>1 DEF RunSet, BatchSet
      <4>3. i \in 1 .. Len(runs[r].batch.recs)
        BY <4>1, <4>2
      <4> QED
        BY <1>1, <2>5, <4>3, KeyOfParts DEF BatchInv
    <3>3. FindGives(k) = hit
      <4>1. k # End
        BY <3>2, EndIsNoKey
      <4>2. Content(k).value = runs[r].batch.recs[i].value
        BY <2>1, <2>4 DEF Content, EntryOf
      <4> HIDE DEF k
      <4> QED
        BY <3>2, <4>1, <4>2 DEF FindGives
    <3>4. FindGives(End) = miss
      BY DEF FindGives
    <3>5. FindEnds(k) = {k} \cup {end \in {End} : \E ik \in DOMAIN linking : Before(ik, k)}
      BY <2>1 DEF FindEnds, MayMiss, Nodes
    <3>6. Find(runs[r].batch.recs[i].key, runs[r].batch.seq + i - 1)
              = {FindGives(ik) : ik \in FindEnds(k)}
      BY <3>1 DEF Find
    <3> HIDE DEF k, hit, miss
    <3>7. {FindGives(ik) : ik \in FindEnds(k)}
              = {hit} \cup {m \in {miss} : \E ik \in DOMAIN linking : Before(ik, k)}
      BY <3>3, <3>4, <3>5
    <3> QED
      BY <3>6, <3>7 DEF PutIsFound, k, hit, miss
  <2> QED
    BY <2>4, <2>5
<1> QED
  BY BatchInvariant, <1>1, PTL

-----------------------------------------------------------------------------
(* The walks of a memtable iterator                                        *)

USE MemtableAssumption, BatchAssumption

EntrySet == [key : Keys, seq : Nat, type : Types, value : Values \cup {Nobody}]

\* A walk has shown every entry up to where it is that was there at the start.
Walk ==
    /\ at \in Nodes \cup {End} /\ first \in Nodes \cup {End}
    /\ base \subseteq DOMAIN table /\ (first \in base => at \in DOMAIN table \cup {End})
    /\ first = End => at = End /\ shown = <<>>
    /\ shown \in Seq(EntrySet)
    /\ \A i \in DOMAIN shown : \E ik \in Nodes :
           shown[i] = Entry(ik) /\ (at # End => ik = at \/ Before(ik, at))
    /\ \A i, j \in DOMAIN shown : i < j => Earlier(shown[i], shown[j])
    /\ first \in base => \A ik \in Passed : \E i \in DOMAIN shown : shown[i] = Entry(ik)

ReadsInv == BatchInv /\ Walk

-----------------------------------------------------------------------------
(* The order of internal keys                                               *)

\* The order of tags is by age, then by type.
LEMMA TagOrder ==
    ASSUME NEW s \in Nat, NEW t \in Nat
    PROVE  s < t <=> \/ TagSeq(s) < TagSeq(t)
                     \/ /\ TagSeq(s) = TagSeq(t)
                        /\ TagType(s) = "delete" /\ TagType(t) = "put"
  BY DEF TagSeq, TagType

LEMMA KeyOrder ==
    ASSUME NEW a \in InternalKeys, NEW b \in InternalKeys
    PROVE  /\ Earlier(Entry(a), Entry(b)) <=> Before(a, b)
           /\ Before(a, b) \/ Before(b, a) \/ a = b
           /\ ~(Before(a, b) /\ Before(b, a))
           /\ \A c \in InternalKeys : Before(a, b) /\ Before(b, c) => Before(a, c)
<1>1. a.key \in Nat /\ b.key \in Nat /\ a.tag \in Nat /\ b.tag \in Nat
  BY KeyParts
<1>2. Earlier(Entry(a), Entry(b)) <=> Before(a, b)
  BY <1>1, TagOrder DEF Earlier, Entry, Before
<1>3. a.key = b.key /\ a.tag = b.tag => a = b
  BY DEF InternalKeys
<1>4. \A c \in InternalKeys : c.key \in Nat /\ c.tag \in Nat
  BY KeyParts
<1> QED
  BY <1>1, <1>2, <1>3, <1>4 DEF Before

-----------------------------------------------------------------------------
(* The least key                                                            *)

LEMMA LeastNumber ==
    ASSUME NEW S, S \subseteq Nat, S # {}
    PROVE  \E m \in S : \A n \in S : m <= n
<1>1. PICK m \in S : \A n \in S : ~(<<n, m>> \in OpToRel(<, Nat))
  BY WFMin, NatLessThanWellFounded
<1>2. \A n \in S : ~(n < m)
  BY <1>1 DEF OpToRel
<1> QED
  BY <1>2

\* A sequence of entries has a last one of a key it has at all.
LEMMA LastOf ==
    ASSUME NEW n \in Nat, NEW S, S \subseteq 1 .. n, S # {}
    PROVE  \E i \in S : \A j \in S : j <= i
<1> DEFINE T == {n - i : i \in S}
<1>1. T \subseteq Nat /\ T # {}
  <2>1. \A i \in S : n - i \in Nat /\ n - i \in T
    OBVIOUS
  <2> QED
    BY <2>1
<1> HIDE DEF T
<1>2. PICK m \in T : \A k \in T : m <= k
  BY <1>1, LeastNumber
<1> USE DEF T
<1>3. PICK i \in S : m = n - i
  OBVIOUS
<1>4. \A j \in S : n - i <= n - j
  BY <1>2, <1>3
<1> QED
  BY <1>4

LEMMA LeastIs ==
    ASSUME NEW S, S \subseteq InternalKeys, S # {}
    PROVE  Least(S) \in S /\ \A ik \in S : ~Before(ik, Least(S))
<1> DEFINE K == {ik.key : ik \in S}
<1>1. \A ik \in S : ik.key \in Nat /\ ik.tag \in Nat
  BY KeyParts
<1>2. K \subseteq Nat /\ K # {}
  BY <1>1
<1>3. PICK k \in K : \A l \in K : k <= l
  BY <1>2, LeastNumber
<1> DEFINE T == {ik.tag : ik \in {ik \in S : ik.key = k}}
<1>4. T \subseteq Nat /\ T # {}
  BY <1>1
<1>5. PICK t \in T : \A u \in T : t <= u
  BY <1>4, LeastNumber
<1>6. PICK m \in S : m.key = k /\ m.tag = t
  OBVIOUS
<1>7. ASSUME NEW ik \in S PROVE ~Before(ik, m)
  <2>1. k <= ik.key /\ (ik.key = k => t <= ik.tag)
    BY <1>3, <1>5
  <2> QED
    BY <1>1, <1>6, <2>1 DEF Before
<1> QED
  BY <1>6, <1>7 DEF Least

-----------------------------------------------------------------------------
(* Steps                                                                    *)

LEMMA ReadsStep == ReadsNext => [Next]_vars
  BY DEF ReadsNext, SeekToFrist, Seek, Start, Next1

\* Every run of the iterator is one of the batches.
LEMMA ReadsRun == ReadsSpec => Spec
<1>1. ReadsInit => Init
  BY DEF ReadsInit
<1>2. [ReadsNext]_readVars => [Next]_vars
  BY ReadsStep DEF readVars
<1> QED
  BY <1>1, <1>2, PTL DEF ReadsSpec, Spec

LEMMA InTable ==
    ASSUME BatchInv, NEW ik \in Nodes
    PROVE  ik \in InternalKeys /\ ik # End /\ Entry(ik) \in EntrySet
<1>1. ik \in InternalKeys /\ Content(ik).value \in Values \cup {Nobody}
  BY EntryParts
<1>2. TagSeq(ik.tag) \in Nat /\ TagType(ik.tag) \in Types
  BY <1>1, KeyParts DEF TagSeq, TagType, Types
<1> QED
  BY <1>1, <1>2, KeyParts, EndIsNoKey DEF Entry, EntrySet

LEMMA InitWalk == ReadsInit => Walk
<1> SUFFICES ASSUME ReadsInit PROVE Walk
  OBVIOUS
<1>1. at = End /\ first = End /\ base = {} /\ shown = <<>> /\ DOMAIN table = {}
  BY DEF ReadsInit, Init
<1> HIDE DEF End
<1> QED
  BY <1>1 DEF Walk

\* What others insert changes nothing for the walk.
LEMMA OthersKeep ==
    ASSUME ReadsInv, [Next]_vars, UNCHANGED iterVars
    PROVE  Walk'
<1>1. /\ \A ik \in Nodes : ik \in Nodes' /\ Content(ik)' = Content(ik)
      /\ \A ik \in DOMAIN table : ik \in DOMAIN table'
  BY NodesStay DEF ReadsInv
<1>2. UNCHANGED <<at, first, base, shown>>
  BY DEF iterVars
<1>3. \A ik \in Nodes : Entry(ik)' = Entry(ik)
  BY <1>1 DEF Entry
<1>4. Passed' = Passed /\ Passed \subseteq Nodes
  BY <1>2 DEF Passed, ReadsInv, Walk, Nodes
<1>5. \A i \in DOMAIN shown : \E ik \in Nodes' :
          shown[i] = Entry(ik)' /\ (at # End => ik = at \/ Before(ik, at))
  <2> SUFFICES ASSUME NEW i \in DOMAIN shown
               PROVE  \E ik \in Nodes' :
                          shown[i] = Entry(ik)' /\ (at # End => ik = at \/ Before(ik, at))
    OBVIOUS
  <2>1. PICK ik \in Nodes : shown[i] = Entry(ik) /\ (at # End => ik = at \/ Before(ik, at))
    BY DEF ReadsInv, Walk
  <2> QED
    BY <1>1, <1>3, <2>1
<1>6. first \in base => \A ik \in Passed : \E i \in DOMAIN shown : shown[i] = Entry(ik)'
  BY <1>3, <1>4 DEF ReadsInv, Walk
<1>7. \A i, j \in DOMAIN shown : i < j => Earlier(shown[i], shown[j])
  BY DEF ReadsInv, Walk
<1>8. /\ at \in Nodes' \cup {End} /\ first \in Nodes' \cup {End}
      /\ base \subseteq DOMAIN table' /\ (first \in base => at \in DOMAIN table' \cup {End})
      /\ (first = End => at = End /\ shown = <<>>)
      /\ shown \in Seq(EntrySet)
  BY <1>1 DEF ReadsInv, Walk
<1> HIDE DEF End, Before, Nodes
<1> QED
  BY <1>2, <1>4, <1>5, <1>6, <1>7, <1>8 DEF Walk

LEMMA StartKeeps ==
    ASSUME ReadsInv, NEW ik \in Nodes \cup {End}, Start(ik)
    PROVE  Walk'
<1>1. /\ at' = ik /\ first' = ik /\ base' = DOMAIN table /\ UNCHANGED <<table, linking>>
      /\ shown' = IF ik = End THEN <<>> ELSE <<Entry(ik)>>
  BY DEF Start, vars
<1>2. Nodes' = Nodes /\ \A k \in Nodes : Entry(k)' = Entry(k)
  BY <1>1 DEF Nodes, Entry, Content
<1>3. DOMAIN table \subseteq Nodes /\ End \notin DOMAIN table
  BY InTable DEF Nodes, ReadsInv
<1>4. CASE ik = End
  <2>1. shown' = <<>> /\ at' = End /\ first' = End
    BY <1>1, <1>4
  <2> HIDE DEF End
  <2> QED
    BY <1>1, <1>3, <2>1 DEF Walk
<1>5. CASE ik # End
  <2>1. ik \in Nodes /\ Entry(ik) \in EntrySet /\ Entry(ik)' = Entry(ik)
    BY <1>2, <1>5, InTable DEF ReadsInv
  <2>2. shown' = <<Entry(ik)>>
    BY <1>1, <1>5
  <2>3. shown' \in Seq(EntrySet) /\ DOMAIN shown' = {1} /\ shown'[1] = Entry(ik)
    BY <2>1, <2>2
  <2>4. \A k \in Passed' : k = ik
    <3>1. \A k \in Nodes : k \in InternalKeys
      BY InTable DEF ReadsInv
    <3>2. ASSUME NEW k \in Passed' PROVE k = ik
      <4>1. k \in Nodes /\ ~Before(k, ik) /\ ~Before(ik, k)
        BY <1>1, <1>3, <1>5, <3>2 DEF Passed
      <4> QED
        BY <2>1, <3>1, <4>1, KeyOrder
    <3> QED
      BY <3>2
  <2>5. \A i \in DOMAIN shown' : \E k \in Nodes' :
            shown'[i] = Entry(k)' /\ (at' # End => k = at' \/ Before(k, at'))
    BY <1>1, <1>2, <2>1, <2>3
  <2>6. \A k \in Passed' : \E i \in DOMAIN shown' : shown'[i] = Entry(k)'
    BY <2>1, <2>3, <2>4
  <2>7. \A i, j \in DOMAIN shown' : i < j => Earlier(shown'[i], shown'[j])
    BY <2>3
  <2> HIDE DEF End, Nodes
  <2> QED
    BY <1>1, <1>2, <1>5, <2>1, <2>3, <2>5, <2>6, <2>7 DEF Walk
<1> QED
  BY <1>4, <1>5

\* The iterator goes to its end: nothing lies behind it, or it is at a node that is
\* being linked.
LEMMA EndKeeps ==
    ASSUME ReadsInv, at # End, at' = End, After(at) = {} \/ at \notin DOMAIN table,
           UNCHANGED <<table, linking, first, base, shown>>
    PROVE  Walk'
<1>1. Nodes' = Nodes /\ \A k \in Nodes : Entry(k)' = Entry(k)
  BY DEF Nodes, Entry, Content
<1>2. /\ base \subseteq Nodes /\ shown \in Seq(EntrySet) /\ first # End /\ first \in Nodes
      /\ base \subseteq DOMAIN table
      /\ \A i \in DOMAIN shown : \E ik \in Nodes : shown[i] = Entry(ik)
      /\ \A i, j \in DOMAIN shown : i < j => Earlier(shown[i], shown[j])
  BY DEF ReadsInv, Walk, Nodes
<1>3. ASSUME first \in base
      PROVE  \A ik \in Passed' : \E i \in DOMAIN shown' : shown'[i] = Entry(ik)'
  <2>1. After(at) = {}
    BY <1>3 DEF ReadsInv, Walk
  <2>2. ASSUME NEW ik \in Passed' PROVE \E i \in DOMAIN shown : shown[i] = Entry(ik)
    <3>1. ik \in base /\ ~Before(ik, first)
      BY <2>2 DEF Passed
    <3>2. ~Before(at, ik)
      BY <1>2, <2>1, <3>1 DEF After
    <3>3. ik \in Passed
      BY <3>1, <3>2 DEF Passed
    <3> QED
      BY <1>3, <3>3 DEF ReadsInv, Walk
  <2>3. \A ik \in Passed' : ik \in Nodes
    BY <1>2 DEF Passed
  <2> QED
    BY <1>1, <2>2, <2>3
<1>4. \A i \in DOMAIN shown' : \E ik \in Nodes' : shown'[i] = Entry(ik)'
  BY <1>1, <1>2
<1> HIDE DEF End, Nodes
<1> QED
  BY <1>1, <1>2, <1>3, <1>4 DEF Walk

\* The iterator goes to the next key.
LEMMA GoKeeps ==
    ASSUME ReadsInv, at # End, After(at) # {}, at' = Least(After(at)),
           shown' = Append(shown, Entry(Least(After(at)))),
           UNCHANGED <<table, linking, first, base>>
    PROVE  Walk'
<1>1. /\ at \in Nodes /\ first # End /\ first \in Nodes
      /\ base \subseteq DOMAIN table /\ base \subseteq Nodes
  BY DEF ReadsInv, Walk, Nodes
<1>2. Nodes' = Nodes /\ \A ik \in Nodes : Entry(ik)' = Entry(ik)
  BY DEF Nodes, Entry, Content
<1>3. \A ik \in Nodes : ik \in InternalKeys /\ ik # End /\ Entry(ik) \in EntrySet
  BY InTable DEF ReadsInv
<1>4. After(at) = {ik \in DOMAIN table : Before(at, ik)} /\ DOMAIN table \subseteq Nodes
  BY DEF After, Nodes
<1>5. /\ shown \in Seq(EntrySet)
      /\ \A i \in DOMAIN shown : \E ik \in Nodes :
             shown[i] = Entry(ik) /\ (ik = at \/ Before(ik, at))
      /\ \A i, j \in DOMAIN shown : i < j => Earlier(shown[i], shown[j])
      /\ first \in base => \A ik \in Passed : \E i \in DOMAIN shown : shown[i] = Entry(ik)
  BY DEF ReadsInv, Walk
<1> PICK next : next = Least(After(at))
  OBVIOUS
<1> DEFINE n == Len(shown)
<1>6. /\ next \in DOMAIN table /\ next \in Nodes /\ Before(at, next)
      /\ \A ik \in DOMAIN table : Before(at, ik) => ~Before(ik, next)
  <2>1. After(at) \subseteq InternalKeys
    BY <1>3, <1>4
  <2>2. next \in After(at) /\ \A ik \in After(at) : ~Before(ik, next)
    BY <2>1, LeastIs
  <2> QED
    BY <1>4, <2>2
<1>7. at' = next /\ shown' = Append(shown, Entry(next))
  OBVIOUS
<1>8. /\ next # End /\ Entry(next) \in EntrySet /\ at \in InternalKeys /\ next \in InternalKeys
  BY <1>1, <1>3, <1>6
<1>9. /\ shown' \in Seq(EntrySet) /\ DOMAIN shown' = DOMAIN shown \cup {n + 1}
      /\ \A i \in DOMAIN shown : shown'[i] = shown[i] /\ i < n + 1 /\ i \in Nat
      /\ shown'[n + 1] = Entry(next) /\ n \in Nat
  BY <1>5, <1>7, <1>8
<1> HIDE DEF n
<1>10. \A i \in DOMAIN shown : \E ik \in Nodes : shown[i] = Entry(ik) /\ Before(ik, next)
  <2> SUFFICES ASSUME NEW i \in DOMAIN shown
               PROVE  \E ik \in Nodes : shown[i] = Entry(ik) /\ Before(ik, next)
    OBVIOUS
  <2>1. PICK ik \in Nodes : shown[i] = Entry(ik) /\ (ik = at \/ Before(ik, at))
    BY <1>5
  <2>2. Before(ik, next)
    BY <1>3, <1>6, <1>8, <2>1, KeyOrder
  <2> QED
    BY <2>1, <2>2
<1>11. \A i \in DOMAIN shown' : \E ik \in Nodes' :
           shown'[i] = Entry(ik)' /\ (at' # End => ik = at' \/ Before(ik, at'))
  <2>1. ASSUME NEW i \in DOMAIN shown
        PROVE  \E ik \in Nodes' : shown'[i] = Entry(ik)' /\ Before(ik, at')
    <3>1. PICK ik \in Nodes : shown[i] = Entry(ik) /\ Before(ik, next)
      BY <1>10
    <3> QED
      BY <1>2, <1>7, <1>9, <3>1
  <2>2. shown'[n + 1] = Entry(next)' /\ next \in Nodes'
    BY <1>2, <1>6, <1>9
  <2> QED
    BY <1>7, <1>9, <2>1, <2>2
<1>12. \A i \in DOMAIN shown : Earlier(shown[i], Entry(next))
  <2> SUFFICES ASSUME NEW i \in DOMAIN shown PROVE Earlier(shown[i], Entry(next))
    OBVIOUS
  <2>1. PICK ik \in Nodes : shown[i] = Entry(ik) /\ Before(ik, next)
    BY <1>10
  <2>2. ik \in InternalKeys
    BY <1>3
  <2> QED
    BY <1>8, <2>1, <2>2, KeyOrder
<1>13. \A i, j \in DOMAIN shown' : i < j => Earlier(shown'[i], shown'[j])
  BY <1>5, <1>9, <1>12
<1>14. ASSUME first \in base
       PROVE  \A ik \in Passed' : \E i \in DOMAIN shown' : shown'[i] = Entry(ik)'
  <2> SUFFICES ASSUME NEW ik \in Passed'
               PROVE  \E i \in DOMAIN shown' : shown'[i] = Entry(ik)'
    OBVIOUS
  <2>1. ik \in base /\ ik \in DOMAIN table /\ ik \in Nodes /\ ~Before(ik, first) /\ ~Before(next, ik)
    BY <1>1, <1>7, <1>8 DEF Passed
  <2>2. CASE Before(at, ik)
    <3>1. ik = next
      BY <1>3, <1>6, <1>8, <2>1, <2>2, KeyOrder
    <3> QED
      BY <1>2, <1>6, <1>9, <3>1
  <2>3. CASE ~Before(at, ik)
    <3>1. ik \in Passed
      BY <2>1, <2>3 DEF Passed
    <3> QED
      BY <1>2, <1>5, <1>9, <1>14, <2>1, <3>1
  <2> QED
    BY <2>2, <2>3
<1>15. /\ at' \in Nodes' \cup {End} /\ first' \in Nodes' \cup {End}
       /\ base' \subseteq DOMAIN table' /\ at' \in DOMAIN table' \cup {End}
       /\ first' # End
  BY <1>1, <1>2, <1>6, <1>7
<1> HIDE DEF End, Nodes
<1> QED
  BY <1>9, <1>11, <1>13, <1>14, <1>15 DEF Walk

LEMMA NextKeeps == ASSUME ReadsInv, Next1 PROVE Walk'
<1>1. at # End /\ UNCHANGED <<table, linking, first, base>>
  BY DEF Next1, vars
<1>2. PICK ik \in NextEnds :
          at' = ik /\ shown' = IF ik = End THEN shown ELSE Append(shown, Entry(ik))
  BY DEF Next1
<1>3. After(at) \subseteq InternalKeys /\ End \notin InternalKeys
  BY InTable, EndIsNoKey DEF After, Nodes, ReadsInv
<1> HIDE DEF End
<1>4. CASE ik = End /\ at \notin DOMAIN table
  BY <1>1, <1>2, <1>4, EndKeeps
<1>5. CASE ik = Least(After(at)) /\ After(at) = {}
  <2>1. ik = End
    BY <1>5 DEF Least
  <2> QED
    BY <1>1, <1>2, <1>5, <2>1, EndKeeps
<1>6. CASE ik = Least(After(at)) /\ After(at) # {}
  <2>1. ik # End
    BY <1>3, <1>6, LeastIs
  <2> QED
    BY <1>1, <1>2, <1>6, <2>1, GoKeeps
<1> QED
  BY <1>4, <1>5, <1>6 DEF NextEnds

\* The invariant holds of every behavior.
THEOREM ReadsInvariant == ReadsSpec => []ReadsInv
<1>1. ReadsInit => ReadsInv
  BY InitBatch, InitWalk DEF ReadsInit, ReadsInv
<1>2. ASSUME ReadsInv, [ReadsNext]_readVars PROVE ReadsInv'
  <2>1. [Next]_vars
    BY <1>2, ReadsStep DEF readVars
  <2>2. BatchInv'
    BY <1>2, <2>1, StepKeeps DEF ReadsInv
  <2>3. ASSUME UNCHANGED iterVars PROVE Walk'
    BY <1>2, <2>1, <2>3, OthersKeep
  <2>4. ASSUME SeekToFrist PROVE Walk'
    <3>1. Least(DOMAIN table) \in Nodes \cup {End}
      <4>1. DOMAIN table \subseteq InternalKeys /\ DOMAIN table \subseteq Nodes
        BY <1>2, InTable DEF ReadsInv, Nodes
      <4>2. CASE DOMAIN table = {}
        BY <4>2 DEF Least
      <4>3. CASE DOMAIN table # {}
        BY <4>1, <4>3, LeastIs
      <4> QED
        BY <4>2, <4>3
    <3> QED
      BY <1>2, <2>4, <3>1, StartKeeps DEF SeekToFrist
  <2>5. ASSUME NEW ik, Seek(ik) PROVE Walk'
    <3>1. PICK k \in FindEnds(ik) : Start(k)
      BY <2>5 DEF Seek
    <3>2. k \in Nodes \cup {End}
      BY DEF FindEnds
    <3> QED
      BY <1>2, <3>1, <3>2, StartKeeps
  <2>6. ASSUME Next1 PROVE Walk'
    BY <1>2, <2>6, NextKeeps
  <2>7. Walk'
    BY <1>2, <2>3, <2>4, <2>5, <2>6 DEF ReadsNext, readVars
  <2> QED
    BY <2>2, <2>7 DEF ReadsInv
<1> QED
  BY <1>1, <1>2, PTL DEF ReadsSpec

\* SeekToFirst and Next of MemTableIterator show every entry once and in order, and
\* miss none that was there when the walk began, while other threads insert.
THEOREM WalksAreWhole == ReadsSpec => []WalkShowsAll
<1>1. ASSUME ReadsInv PROVE WalkShowsAll
  <2>1. \A ik \in Nodes : ik \in InternalKeys
    BY <1>1, InTable DEF ReadsInv
  <2>2. ReadsTypeOK
    BY <1>1, <2>1 DEF ReadsTypeOK, ReadsInv, Walk, Nodes
  <2>3. \A i, j \in DOMAIN shown : i < j => Earlier(shown[i], shown[j])
    BY <1>1 DEF ReadsInv, Walk
  <2>4. ASSUME first \in base, NEW ik \in Passed
        PROVE  \E i \in DOMAIN shown :
                   LET r == runs[table[ik].by[1]].batch.recs[table[ik].by[2]] IN
                   /\ shown[i].key = r.key /\ shown[i].type = r.type
                   /\ shown[i].value = r.value /\ shown[i].seq = TagSeq(ik.tag)
    <3>1. PICK i \in DOMAIN shown : shown[i] = Entry(ik)
      BY <1>1, <2>4 DEF ReadsInv, Walk
    <3>2. ik \in DOMAIN table
      BY <1>1, <2>4 DEF ReadsInv, Walk, Passed
    <3>3. ik \in Nodes /\ Content(ik) = table[ik]
      BY <3>2 DEF Nodes, Content
    <3> DEFINE r == runs[table[ik].by[1]].batch.recs[table[ik].by[2]]
    <3>4. r.key = ik.key /\ r.type = TagType(ik.tag) /\ r.value = Content(ik).value
      BY <1>1, <3>3, EntryParts DEF ReadsInv
    <3> HIDE DEF r
    <3>5. /\ shown[i].key = r.key /\ shown[i].type = r.type
          /\ shown[i].value = r.value /\ shown[i].seq = TagSeq(ik.tag)
      BY <3>1, <3>4 DEF Entry
    <3> QED
      BY <3>5 DEF r
  <2> QED
    BY <2>2, <2>3, <2>4 DEF WalkShowsAll
<1> QED
  BY ReadsInvariant, <1>1, PTL

\* Versions come oldest first (InternalKeyComparator::Compare): the last that a whole
\* walk shows of a key is at least as new as any that was there when it began.
THEOREM LastIsNewest == ReadsSpec => []NewestLast
<1>1. ASSUME ReadsInv PROVE NewestLast
  <2> SUFFICES ASSUME at = End, first \in base, NEW ik \in base, ~Before(ik, first)
               PROVE  \E i \in DOMAIN shown :
                          /\ shown[i].key = ik.key /\ shown[i].seq >= TagSeq(ik.tag)
                          /\ \A j \in i + 1 .. Len(shown) : shown[j].key # ik.key
    BY DEF NewestLast
  <2>1. shown \in Seq(EntrySet) /\ \A i, j \in DOMAIN shown : i < j => Earlier(shown[i], shown[j])
    BY <1>1 DEF ReadsInv, Walk
  <2>2. ik \in Passed /\ ik \in DOMAIN table
    BY <1>1 DEF Passed, ReadsInv, Walk
  <2>3. PICK k \in DOMAIN shown : shown[k] = Entry(ik)
    BY <1>1, <2>2 DEF ReadsInv, Walk
  <2>4. shown[k].key = ik.key /\ shown[k].seq = TagSeq(ik.tag)
    BY <2>3 DEF Entry
  <2> DEFINE n == Len(shown)
             S == {i \in 1 .. n : shown[i].key = ik.key}
  <2>5. n \in Nat /\ DOMAIN shown = 1 .. n /\ k \in S
    BY <2>1, <2>4
  <2>6. PICK i \in S : \A j \in S : j <= i
    BY <2>5, LastOf
  <2>7. i \in 1 .. n /\ shown[i].key = ik.key /\ \A j \in i + 1 .. n : shown[j].key # ik.key
    BY <2>5, <2>6
  <2>8. shown[i].seq >= shown[k].seq
    <3>1. shown[i].seq \in Nat /\ shown[k].seq \in Nat /\ shown[i].key \in Nat
      <4>1. shown[i] \in EntrySet /\ shown[k] \in EntrySet
        BY <2>1, <2>5, <2>7
      <4>2. shown[i].key \in Keys
        BY <4>1 DEF EntrySet
      <4> QED
        BY <4>1, <4>2 DEF EntrySet
    <3>2. CASE i = k
      BY <3>1, <3>2
    <3>3. CASE k < i
      <4>1. Earlier(shown[k], shown[i])
        BY <2>1, <2>5, <2>7, <3>3
      <4> QED
        BY <2>4, <2>7, <3>1, <4>1 DEF Earlier
    <3>4. k <= i
      BY <2>5, <2>6
    <3> QED
      BY <2>5, <2>7, <3>2, <3>3, <3>4
  <2> QED
    BY <2>4, <2>5, <2>7, <2>8
<1> QED
  BY ReadsInvariant, <1>1, PTL
=============================================================================
