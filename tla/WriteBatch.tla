----------------------------- MODULE WriteBatch -----------------------------
(***************************************************************************)
(* Write batches (write_batch/) and their insertion into a memtable that   *)
(* several threads share.  A batch is a string: a header with a sequence   *)
(* number and a count, and records after it; contents that were cut off    *)
(* end in a torn record.  InsertInto walks the records and adds each at    *)
(* the next sequence number; between two records, and while one is linked  *)
(* into the skip list, other threads run.                                  *)
(***************************************************************************)
EXTENDS Memtable, Sequences

CONSTANTS
    Batches,
    Threads,
    Seqs,        \* the sequence numbers a client gives to batches
    Counts,      \* the counts it gives to SetCount
    MaxRecords,  \* bound: records in a batch, and its count
    MaxRuns      \* bound: calls of InsertInto

\* The count of a batch has 32 bits, the number in a tag has 56.
ASSUME BatchAssumption ==
    /\ Seqs \subseteq Nat /\ Counts \subseteq Nat
    /\ MaxRecords \in 0 .. SeqMod /\ MaxRuns \in Nat

VARIABLES
    batch,   \* bytes_ of each batch
    plain,   \* history: the batches filled by Put, Delete and Append alone
    runs,    \* history: the calls of InsertInto, with where each one is
    running  \* the call each thread is in, 0 for none

vars == <<table, linking, batch, plain, runs, running>>

Records == [type : {"put"}, key : Keys, value : Values]
           \cup [type : {"delete"}, key : Keys, value : {Nobody}]

\* torn: the bytes after the records are not one
Empty == [seq |-> 0, count |-> 0, recs |-> <<>>, torn |-> FALSE]

IsBatch(b) ==
    /\ b.seq \in Nat /\ b.count \in Nat /\ b.torn \in BOOLEAN
    /\ b.recs \in Seq(Records) /\ Len(b.recs) <= MaxRecords

TypeOK ==
    /\ \A ik \in Nodes : ik \in InternalKeys /\ Content(ik).value \in Values \cup {Nobody}
    /\ \A b \in Batches : IsBatch(batch[b])
    /\ plain \subseteq Batches
    /\ \A r \in DOMAIN runs :
           /\ IsBatch(runs[r].batch) /\ runs[r].at \in 0 .. Len(runs[r].batch.recs)
           /\ runs[r].status \in {"running", "ok", "corrupt"}
    /\ running \in [Threads -> 0 .. MaxRuns]

Init ==
    /\ table = <<>> /\ linking = <<>>
    /\ batch = [b \in Batches |-> Empty]
    /\ plain = Batches
    /\ runs = <<>>
    /\ running = [t \in Threads |-> 0]

-----------------------------------------------------------------------------
(* Filling a batch.  A batch has no lock: a client does not touch one that  *)
(* is being inserted, and does not add to one that ends in a torn record.   *)

InUse(b) == \E t \in Threads : running[t] # 0 /\ runs[running[t]].of = b

Change(b, new) ==
    /\ ~InUse(b)
    /\ Len(new.recs) <= MaxRecords /\ new.count <= MaxRecords
    /\ batch' = [batch EXCEPT ![b] = new]
    /\ UNCHANGED <<table, linking, runs, running>>

AddRecord(b, rec) ==
    /\ ~batch[b].torn
    /\ Change(b, [batch[b] EXCEPT !.count = @ + 1, !.recs = Append(@, rec)])
    /\ UNCHANGED plain

\* PutRecord and DeleteRecord
Put(b, k, v)  == AddRecord(b, [type |-> "put", key |-> k, value |-> v])
Delete(b, k)  == AddRecord(b, [type |-> "delete", key |-> k, value |-> Nobody])

Clear(b)          == Change(b, Empty) /\ plain' = plain \cup {b}
SetSequence(b, s) == Change(b, [batch[b] EXCEPT !.seq = s]) /\ UNCHANGED plain
SetCount(b, n)    == Change(b, [batch[b] EXCEPT !.count = n]) /\ plain' = plain \ {b}

\* Variant: the count is the appended batch's.
AppendBatchCount(b, c) ==
    /\ ~batch[b].torn /\ ~InUse(c)
    /\ Change(b, [batch[b] EXCEPT !.count = batch[c].count,
                                  !.recs = @ \o batch[c].recs,
                                  !.torn = batch[c].torn])
    /\ plain' = IF c \in plain THEN plain ELSE plain \ {b}

\* Append: the records of c go behind those of b, which keeps its sequence.
AppendBatch(b, c) ==
    /\ ~batch[b].torn
    /\ Change(b, [batch[b] EXCEPT !.count = @ + batch[c].count,
                                  !.recs = @ \o batch[c].recs,
                                  !.torn = batch[c].torn])
    /\ plain' = IF c \in plain THEN plain ELSE plain \ {b}

\* SetContents with the contents of c, cut off behind its first n records
SetContents(b, c, n, torn) ==
    /\ n <= Len(batch[c].recs)
    /\ n = Len(batch[c].recs) => torn = batch[c].torn
    /\ Change(b, [batch[c] EXCEPT !.recs = SubSeq(@, 1, n), !.torn = torn])
    /\ plain' = plain \ {b}

-----------------------------------------------------------------------------
(* InsertInto                                                               *)

\* WriteBatch::InsertInto makes an inserter at Sequence(); Iterate begins.
InsertInto(t, b) ==
    /\ running[t] = 0 /\ Len(runs) < MaxRuns
    /\ runs' = Append(runs, [of |-> b, batch |-> batch[b], at |-> 0, status |-> "running"])
    /\ running' = [running EXCEPT ![t] = Len(runs) + 1]
    /\ UNCHANGED <<table, linking, batch, plain>>

Run(t) == runs[running[t]]

\* The thread is at record i of its batch.
AtRecord(t, i) == running[t] # 0 /\ i = Run(t).at + 1 /\ i \in DOMAIN Run(t).batch.recs

EntryOf(r, i) == [value |-> runs[r].batch.recs[i].value, by |-> <<r, i>>]

\* handler->Put or handler->Delete: Add at seq_ begins to link its node.
LinkRecord(t, i) ==
    /\ AtRecord(t, i)
    /\ LET b == Run(t).batch IN
           AddBegins(b.seq + i - 1, b.recs[i].type, b.recs[i].key, EntryOf(running[t], i))
    /\ UNCHANGED <<batch, plain, runs, running>>

\* Variant: the inserter stays at its sequence number.
InsertRecordSameSeq(t, i) ==
    /\ AtRecord(t, i)
    /\ LET b == Run(t).batch IN
           Add(b.seq, b.recs[i].type, b.recs[i].key, EntryOf(running[t], i))
    /\ runs' = [runs EXCEPT ![running[t]].at = i]
    /\ UNCHANGED <<batch, plain, running>>

\* Add is done: ++seq_
InsertRecord(t, i) ==
    /\ AtRecord(t, i)
    /\ LET b == Run(t).batch IN
           Add(b.seq + i - 1, b.recs[i].type, b.recs[i].key, EntryOf(running[t], i))
    /\ runs' = [runs EXCEPT ![running[t]].at = i]
    /\ UNCHANGED <<batch, plain, running>>

\* What is left is not a record, or found is not the count: Corruption.
InsertEnd(t) ==
    /\ running[t] # 0 /\ Run(t).at = Len(Run(t).batch.recs)
    /\ runs' = [runs EXCEPT ![running[t]].status =
                   IF Run(t).batch.torn \/ Run(t).at # Run(t).batch.count THEN "corrupt" ELSE "ok"]
    /\ running' = [running EXCEPT ![t] = 0]
    /\ UNCHANGED <<table, linking, batch, plain>>

Fill(b) ==
    \/ \E k \in Keys : Delete(b, k) \/ \E v \in Values : Put(b, k, v)
    \/ Clear(b)
    \/ \E s \in Seqs : SetSequence(b, s)
    \/ \E n \in Counts : SetCount(b, n)
    \/ \E c \in Batches : \/ AppendBatch(b, c)
                          \/ \E n \in 0 .. MaxRecords, torn \in BOOLEAN : SetContents(b, c, n, torn)

Step(t) ==
    \/ \E i \in 1 .. MaxRecords : LinkRecord(t, i) \/ InsertRecord(t, i)
    \/ InsertEnd(t)
    \/ \E b \in Batches : InsertInto(t, b)

Next == (\E b \in Batches : Fill(b)) \/ \E t \in Threads : Step(t)

Spec == Init /\ [][Next]_vars

-----------------------------------------------------------------------------
(* Properties                                                               *)

\* A batch that only Put, Delete, Append and Clear made holds as many records as
\* its header says and ends behind the last of them, so InsertInto accepts it.
\* Every other batch is a batch still (TypeOK).
PlainIsSound == TypeOK /\ \A b \in plain : batch[b].count = Len(batch[b].recs) /\ ~batch[b].torn

\* The internal key of record i of run r
KeyOf(r, i) ==
    LET b == runs[r].batch IN InternalKey(b.recs[i].key, b.seq + i - 1, b.recs[i].type)

Used(r)        == { (runs[r].batch.seq + i - 1) % SeqMod : i \in DOMAIN runs[r].batch.recs }
Undisturbed(r) == \A q \in DOMAIN runs : q # r => Used(q) \cap Used(r) = {}

\* A lookup at the sequence number of a Put finds its value; only while a thread links
\* a node in front of it may it miss the entry instead, and abort.
PutIsFound(r, i) ==
    LET b    == runs[r].batch
        hit  == [result |-> "found", value |-> b.recs[i].value]
        miss == [result |-> "aborts"]
    IN  Find(b.recs[i].key, b.seq + i - 1) =
            {hit} \cup {m \in {miss} : \E ik \in DOMAIN linking : Before(ik, KeyOf(r, i))}

\* A call that has handled records 1 to at has put them in the memtable, each at a
\* sequence number of its own and with its own value, where find finds it, whatever
\* the other threads inserted meanwhile, unless another batch was given the same
\* sequence numbers; and nothing else is there, so a call that ends in Corruption has
\* left exactly the records before the damage (write_batch_impl.cpp:62-99).
AppliedInOrder ==
    /\ \A r \in DOMAIN runs : \A i \in 1 .. runs[r].at :
           /\ KeyOf(r, i) \in DOMAIN table
           /\ Undisturbed(r) => /\ table[KeyOf(r, i)] = EntryOf(r, i)
                                /\ runs[r].batch.recs[i].type = "put" => PutIsFound(r, i)
    /\ \A ik \in DOMAIN table : \E r \in DOMAIN runs : \E i \in 1 .. runs[r].at :
           ik = KeyOf(r, i) /\ table[ik] = EntryOf(r, i)

-----------------------------------------------------------------------------
(* What callers, tests or comments expect and the code does not do: no        *)
(* configuration checks these, README.md says how each one fails.             *)

\* Of two entries of a user key an iterator meets the newer one first.
NewestFirst ==
    \A a, b \in DOMAIN table : a.key = b.key /\ TagSeq(a.tag) > TagSeq(b.tag) => Before(a, b)

\* A lookup of a key at the sequence number where it was deleted finds the deletion.
DeleteIsFound ==
    \A ik \in DOMAIN table :
        TagType(ik.tag) = "delete" => [result |-> "found"] \in Find(ik.key, TagSeq(ik.tag))

\* A lookup at the sequence number of a Put that is in the memtable finds it.
PutNeverAborts ==
    \A ik \in DOMAIN table :
        TagType(ik.tag) = "put" => [result |-> "aborts"] \notin Find(ik.key, TagSeq(ik.tag))
=============================================================================
