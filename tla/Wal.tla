-------------------------------- MODULE Wal --------------------------------
(***************************************************************************)
(* The write-ahead log of wal/wal_writer.cpp and wal/wal_reader.cpp on a   *)
(* tinyio::File (file/tinyio.cpp).                                         *)
(*                                                                         *)
(* The file is a sequence of cells, one per byte.  A cell says which write *)
(* it comes from: a byte of the header of a fragment, a byte of a record's *)
(* data, or padding, which is zero.  A checksum matches exactly when the   *)
(* header and the data that follows it come from one WritePhysicalRecord;  *)
(* the reader does not look at one whose bytes are zero, and what it reads *)
(* where no header was written is whatever those bytes may be.             *)
(*                                                                         *)
(* One step is one ::write, ::fdatasync or ::read.  Between two steps the  *)
(* process may be killed or the machine lose power: what was written since *)
(* the last sync then survives up to some byte.                            *)
(***************************************************************************)
EXTENDS Integers, Sequences, SequencesExt

CONSTANTS
    BlockSize,   \* kBlockSize
    HeaderSize,  \* kHeaderSize
    ChecksumSize,\* sizeof(record->checksum); behind it come the size and one byte of type
    Lengths,     \* the lengths of the records the client appends
    MaxRecords,  \* bound: records appended to one file
    MaxOpens,    \* bound: how often the writer is opened on a file or with records left in rep_
    MaxFaults,   \* bound: faults of one file
    MaxReused    \* bound: records of a file that is written over, and of the new one

ASSUME SizeAssumption ==
    /\ HeaderSize \in Nat \ {0} /\ BlockSize \in Nat /\ HeaderSize < BlockSize
    /\ ChecksumSize \in 1 .. HeaderSize - 1
    /\ Lengths \subseteq Nat /\ MaxRecords \in Nat /\ MaxOpens \in Nat /\ MaxFaults \in Nat
    /\ MaxReused \in 0 .. MaxRecords

VARIABLES
    log,         \* history: the records of this file, in the order they were appended
    flushed,     \* history: how many of them were written out in full before the first fault
    synced,      \* history: how many of those were there at the last Sync
    held,        \* history: how many of the last ones are in rep_
    opens,       \* how often the writer was opened since it last was on a file of its own
    faults,      \* history: short and failed writes, tails of zeros, records of an earlier file
    base,        \* the bytes that were in the file when the writer opened it
    disk,        \* the bytes written until the last sync
    pend,        \* the bytes written since, in order
    rep,         \* rep_
    blockOffset, \* block_offset_
    wpc,         \* where the writer is
    rest,        \* in AppendRecord: the record, ptr, size and begin
    buf, rpos,   \* buffer_[offset_ ..] with size_ bytes, and the reader's offset
    eof,         \* eof_
    parts,       \* the fragments ReadRecord has put together, <<>> for none
    out,         \* the records ReadRecord returned, Torn for what is none
    rpc          \* where the reader is

fileVars   == <<faults, base, disk, pend>>
writerVars == <<log, flushed, synced, held, opens, rep, blockOffset, wpc, rest>>
readerVars == <<buf, rpos, eof, parts, out, rpc>>
vars       == <<fileVars, writerVars, readerVars>>

-----------------------------------------------------------------------------
(* Cells and fragments                                                     *)

Pad == [part |-> "pad"]

\* A record is known by the file it was appended to, its number there and its length.
Records == (1 .. MaxOpens) \X (1 .. MaxRecords) \X Lengths

\* A fragment: size bytes of record id, from byte from + 1 on.
Fragment(id, from, size, begin, end) ==
    [id |-> id, from |-> from, size |-> size,
     type |-> IF begin /\ end THEN "full" ELSE IF begin THEN "first"
              ELSE IF end THEN "last" ELSE "middle"]

Header(f) == [j \in 1 .. HeaderSize |-> [part |-> "header", at |-> j, frag |-> f]]
Data(f)   == [j \in 1 .. f.size |-> [part |-> "data", id |-> f.id, at |-> f.from + j]]

\* What the writer wrote, which ends at its offset, and what is in the file: that, and
\* behind it what it has not come to yet.
Written == disk \o pend
File    == Written \o SubSeq(base, Len(Written) + 1, Len(base))

\* ::write(fd, s) at the file offset, if it does not fail.  tinyio reports how much was
\* written; the log does not look.
Write(s) ==
    /\ \/ pend' = pend \o s /\ faults' = faults
       \/ /\ faults < MaxFaults /\ faults' = faults + 1
          /\ \E k \in 1 .. Len(s) - 1 : pend' = pend \o SubSeq(s, 1, k)
    /\ UNCHANGED <<base, disk>>

\* n records are written out in full; nothing is known of them once there was a fault.
FlushedUpTo(n) == flushed' = IF faults' = 0 THEN n ELSE flushed

TypeOK ==
    /\ log \in Seq(Records) /\ Len(log) <= MaxRecords
    /\ flushed \in 0 .. Len(log) /\ synced \in 0 .. flushed /\ held \in 0 .. Len(log)
    /\ opens \in 0 .. MaxOpens /\ faults \in 0 .. MaxFaults /\ rpos \in Nat
    /\ blockOffset \in 0 .. BlockSize
    /\ wpc \in {"closed", "idle", "flush", "append", "header", "data", "dead"}
    /\ rpc \in {"off", "read", "done", "thrown"}
    /\ eof \in BOOLEAN /\ Len(buf) <= BlockSize

NoRest == [id |-> <<0, 0, 0>>, from |-> 0, size |-> 0, begin |-> TRUE]

Init ==
    /\ log = <<>> /\ flushed = 0 /\ synced = 0 /\ held = 0 /\ opens = 0
    /\ faults = 0 /\ base = <<>> /\ disk = <<>> /\ pend = <<>>
    /\ rep = <<>> /\ blockOffset = 0 /\ wpc = "closed" /\ rest = NoRest
    /\ buf = <<>> /\ rpos = 0 /\ eof = FALSE /\ parts = <<>> /\ out = <<>> /\ rpc = "off"

-----------------------------------------------------------------------------
(* The writer                                                              *)

\* Open and seekg(0), on a new file or on the one there was, which is not truncated.
\* Records still in rep_ will be written first, but not where block_offset_ says.  After
\* a crash it is a new writer that opens.
Open ==
    /\ wpc \in {"closed", "dead"}
    /\ \/ base' = <<>>
       \/ base' = File /\ Len(log) <= MaxReused
    /\ opens' = IF base' = <<>> /\ rep = <<>> THEN 1 ELSE opens + 1
    /\ opens' <= MaxOpens
    /\ disk' = <<>> /\ pend' = <<>> /\ faults' = IF rep = <<>> THEN 0 ELSE 1
    /\ log' = SubSeq(log, Len(log) - held + 1, Len(log))
    /\ flushed' = 0 /\ synced' = 0
    /\ blockOffset' = 0 /\ rest' = NoRest
    /\ wpc' = "idle"
    /\ UNCHANGED <<rep, held, readerVars>>

\* Close resets block_offset_, not rep_.
Close ==
    /\ wpc = "idle" /\ (rep # <<>> => MaxFaults > 0)
    /\ blockOffset' = 0
    /\ wpc' = "closed"
    /\ UNCHANGED <<fileVars, log, flushed, synced, held, opens, rep, rest, readerVars>>

\* Bound: one more record may be appended.
MayAppend == Len(log) < IF base = <<>> THEN MaxRecords ELSE MaxReused

NextId(n) == <<opens, Len(log) + 1, n>>

\* Variant: the block offset is left alone.
AppendToBufferOffset(n) ==
    LET f == Fragment(NextId(n), 0, n, TRUE, TRUE) IN
    /\ wpc = "idle" /\ MayAppend
    /\ blockOffset + HeaderSize + n <= BlockSize
    /\ rep' = rep \o Header(f) \o Data(f)
    /\ log' = Append(log, NextId(n)) /\ held' = held + 1
    /\ UNCHANGED <<fileVars, flushed, synced, opens, blockOffset, wpc, rest, readerVars>>

\* AppendRecordToBuffer when the record fits in the block: a full record is put
\* in rep_, nothing is written.
AppendToBuffer(n) ==
    LET f == Fragment(NextId(n), 0, n, TRUE, TRUE) IN
    /\ wpc = "idle" /\ MayAppend
    /\ blockOffset + HeaderSize + n <= BlockSize
    /\ rep' = rep \o Header(f) \o Data(f)
    /\ blockOffset' = blockOffset + HeaderSize + n
    /\ log' = Append(log, NextId(n)) /\ held' = held + 1
    /\ UNCHANGED <<fileVars, flushed, synced, opens, wpc, rest, readerVars>>

\* Variant: the record is written without the Flush() before it.
AppendToFileFirst(n) ==
    /\ wpc = "idle" /\ MayAppend
    /\ blockOffset + HeaderSize + n > BlockSize
    /\ rest' = [id |-> NextId(n), from |-> 0, size |-> n, begin |-> TRUE]
    /\ wpc' = "append"
    /\ UNCHANGED <<fileVars, log, flushed, synced, held, opens, rep, blockOffset, readerVars>>

\* ... and when it does not: Flush(), then AppendRecord.
AppendToFile(n) ==
    /\ wpc = "idle" /\ MayAppend
    /\ blockOffset + HeaderSize + n > BlockSize
    /\ rest' = [id |-> NextId(n), from |-> 0, size |-> n, begin |-> TRUE]
    /\ wpc' = IF rep = <<>> THEN "append" ELSE "flush"
    /\ UNCHANGED <<fileVars, log, flushed, synced, held, opens, rep, blockOffset, readerVars>>

FlushCall ==
    /\ wpc = "idle" /\ rep # <<>>
    /\ wpc' = "flush"
    /\ rest' = NoRest
    /\ UNCHANGED <<fileVars, log, flushed, synced, held, opens, rep, blockOffset, readerVars>>

FlushWrite ==
    /\ wpc = "flush"
    /\ Write(rep)
    /\ rep' = <<>> /\ held' = 0
    /\ FlushedUpTo(Len(log))
    /\ wpc' = IF rest = NoRest THEN "idle" ELSE "append"
    /\ UNCHANGED <<log, synced, opens, blockOffset, rest, readerVars>>

Leftover == BlockSize - blockOffset

\* Variant: the padded block is not left.
AppendPadStays ==
    /\ wpc = "append"
    /\ IF Leftover < HeaderSize
       THEN /\ Write([j \in 1 .. Leftover |-> Pad])
            /\ blockOffset' = blockOffset + Leftover
       ELSE UNCHANGED <<fileVars, blockOffset>>
    /\ wpc' = "header"
    /\ UNCHANGED <<log, flushed, synced, held, opens, rep, rest, readerVars>>

\* The head of the loop in AppendRecord: pad the block if no header fits.
AppendPad ==
    /\ wpc = "append"
    /\ IF Leftover < HeaderSize
       THEN /\ Write([j \in 1 .. Leftover |-> Pad])
            /\ blockOffset' = 0
       ELSE UNCHANGED <<fileVars, blockOffset>>
    /\ wpc' = "header"
    /\ UNCHANGED <<log, flushed, synced, held, opens, rep, rest, readerVars>>

\* The fragment that fits: fragment_size, type, begin and end.
NextFragment ==
    LET avail == BlockSize - blockOffset - HeaderSize
        size  == IF rest.size < avail THEN rest.size ELSE avail
    IN Fragment(rest.id, rest.from, size, rest.begin, size = rest.size)

\* WritePhysicalRecord: file_.write(buf, kHeaderSize) ...  The record is in the log from
\* its first header on.
WriteHeader ==
    /\ wpc = "header"
    /\ Write(Header(NextFragment))
    /\ log' = IF rest.begin THEN Append(log, rest.id) ELSE log
    /\ wpc' = "data"
    /\ UNCHANGED <<flushed, synced, held, opens, rep, blockOffset, rest, readerVars>>

\* ... then file_.write(ptr, size), and on with the loop.
WriteData ==
    LET f == NextFragment IN
    /\ wpc = "data"
    /\ Write(Data(f))
    /\ blockOffset' = blockOffset + HeaderSize + f.size
    /\ IF f.size = rest.size
       THEN wpc' = "idle" /\ rest' = NoRest /\ FlushedUpTo(Len(log))
       ELSE /\ wpc' = "append" /\ flushed' = flushed
            /\ rest' = [rest EXCEPT !.from = @ + f.size, !.size = @ - f.size, !.begin = FALSE]
    /\ UNCHANGED <<log, synced, held, opens, rep, readerVars>>

\* ::write returns -1; or 0, for a record of no data, which tinyio takes for an error that
\* errno, if something is left over in it, makes one.  The write throws, the offset and rep_
\* stay, and the caller goes on without the record; what was written of that already is a
\* fault.
WriteFails ==
    /\ wpc \in {"flush", "header", "data"} \/ (wpc = "append" /\ Leftover \in 1 .. HeaderSize - 1)
    /\ faults' = IF wpc = "data" \/ ~rest.begin THEN faults + 1 ELSE faults
    /\ faults' <= MaxFaults
    /\ wpc' = "idle" /\ rest' = NoRest
    /\ UNCHANGED <<base, disk, pend, log, flushed, synced, held, opens, rep, blockOffset, readerVars>>

\* Sync is fdatasync; it does not flush rep_.
Sync ==
    /\ wpc = "idle"
    /\ disk' = Written /\ pend' = <<>> /\ UNCHANGED <<faults, base>>
    /\ synced' = flushed
    /\ UNCHANGED <<log, flushed, held, opens, rep, blockOffset, wpc, rest, readerVars>>

-----------------------------------------------------------------------------
(* The end of the writer                                                   *)

WriterAlive == opens > 0 /\ wpc # "dead"

WriterGone == wpc' = "dead" /\ rep' = <<>> /\ held' = 0 /\ blockOffset' = 0 /\ rest' = NoRest

\* The process is killed: rep_ is lost, the file is not.
Kill ==
    /\ WriterAlive
    /\ disk' = Written /\ pend' = <<>> /\ UNCHANGED <<faults, base>>
    /\ WriterGone
    /\ UNCHANGED <<log, flushed, synced, opens, readerVars>>

\* Power is lost: of what was written since the last sync k bytes survive, and
\* the length of the file may have reached the disk before the rest did.
PowerLoss(k) ==
    /\ WriterAlive
    /\ \/ /\ disk' = disk \o SubSeq(pend, 1, k)
          /\ UNCHANGED faults
       \/ /\ k < Len(pend) /\ faults < MaxFaults
          /\ disk' = disk \o SubSeq(pend, 1, k) \o [j \in 1 .. Len(pend) - k |-> Pad]
          /\ faults' = faults + 1
    /\ pend' = <<>> /\ UNCHANGED base
    /\ flushed' = synced
    /\ WriterGone
    /\ UNCHANGED <<log, synced, opens, readerVars>>

-----------------------------------------------------------------------------
(* The reader                                                              *)

ReaderOpen ==
    /\ wpc \in {"closed", "dead"} /\ opens > 0
    /\ rpc = "off"
    /\ rpc' = "read"
    /\ UNCHANGED <<fileVars, writerVars, buf, rpos, eof, parts, out>>

ReadStep ==
    /\ rpc = "read"
    /\ UNCHANGED <<fileVars, writerVars>>

\* Variant: a full block is taken for the last one.
ReadBlockLast ==
    /\ ReadStep
    /\ Len(buf) < HeaderSize /\ ~eof
    /\ LET n == Len(File) - rpos
           size == IF n < 0 THEN 0 ELSE IF n < BlockSize THEN n ELSE BlockSize
       IN /\ buf' = SubSeq(File, rpos + 1, rpos + size)
          /\ rpos' = rpos + size
          /\ eof' = (size <= BlockSize)
          /\ rpc' = IF size = 0 THEN "done" ELSE "read"
    /\ UNCHANGED <<parts, out>>

\* file_.read of the next block into buffer_
ReadBlock ==
    /\ ReadStep
    /\ Len(buf) < HeaderSize /\ ~eof
    /\ LET n == Len(File) - rpos
           size == IF n < 0 THEN 0 ELSE IF n < BlockSize THEN n ELSE BlockSize
       IN /\ buf' = SubSeq(File, rpos + 1, rpos + size)
          /\ rpos' = rpos + size
          /\ eof' = (size < BlockSize)
          /\ rpc' = IF size = 0 THEN "done" ELSE "read"
    /\ UNCHANGED <<parts, out>>

\* Variant: the end of the file is not reported.
ReadEndAgain ==
    /\ ReadStep
    /\ Len(buf) < HeaderSize /\ eof
    /\ buf' = <<>>
    /\ UNCHANGED <<rpos, eof, parts, out, rpc>>

\* Less than a header is left at the end of the file.
ReadEnd ==
    /\ ReadStep
    /\ Len(buf) < HeaderSize /\ eof
    /\ buf' = <<>>
    /\ rpc' = "done"
    /\ UNCHANGED <<rpos, eof, parts, out>>

\* The header as it was written, if the bytes at offset_ are one, and its data behind it.
HeaderIs(f) == SubSeq(buf, 1, HeaderSize) = Header(f)
Found       == buf[1].frag
WellFormed  == buf[1].part = "header" /\ HeaderIs(Found)
Intact      == SubSeq(buf, HeaderSize + 1, HeaderSize + Found.size) = Data(Found)
Matches     == WellFormed /\ HeaderSize + Found.size <= Len(buf) /\ Intact

\* What the bytes at offset_ may be as a header: any byte but one of a type may be zero,
\* padding is.
IsType(c)  == c.part = "header" /\ c.at = HeaderSize
ZeroSum    == \A j \in 1 .. ChecksumSize : ~IsType(buf[j])
NonZeroSum == \E j \in 1 .. ChecksumSize : buf[j] # Pad
Sizes ==
    IF WellFormed THEN {Found.size}
    ELSE IF \A j \in ChecksumSize + 1 .. HeaderSize - 1 : buf[j] = Pad THEN {0}
    ELSE 0 .. BlockSize
Types ==
    IF IsType(buf[HeaderSize]) THEN {buf[HeaderSize].frag.type}
    ELSE IF buf[HeaderSize] = Pad THEN {"none"}
    ELSE {"full", "first", "middle", "last", "none"}

\* kHeaderSize + record->size > size_: the rest of the block is dropped; that is
\* an error unless it is the last block.
ReadTooLong ==
    /\ ReadStep
    /\ Len(buf) >= HeaderSize
    /\ \E n \in Sizes : HeaderSize + n > Len(buf)
    /\ buf' = <<>>
    /\ rpc' = IF eof THEN "done" ELSE "thrown"
    /\ UNCHANGED <<rpos, eof, parts, out>>

\* There is a checksum and it does not match: null, and offset_ stays.  At the end of the
\* file ReadRecord gives up, before it the loop comes back to the same bytes.
ReadMismatch ==
    /\ ReadStep
    /\ Len(buf) >= HeaderSize
    /\ \E n \in Sizes : HeaderSize + n <= Len(buf)
    /\ ~Matches /\ NonZeroSum
    /\ rpc' = IF eof THEN "done" ELSE "read"
    /\ UNCHANGED <<buf, rpos, eof, parts, out>>

\* No record; and the record whose fragments r are, all of them in order.
Torn == <<0, 0, 0>>
RecordOf(r) ==
    IF /\ \A j \in DOMAIN r : r[j].id = r[1].id
       /\ r[1].from = 0
       /\ \A j \in 1 .. Len(r) - 1 : r[j + 1].from = r[j].from + r[j].size
       /\ r[Len(r)].from + r[Len(r)].size = r[1].id[3]
    THEN r[1].id ELSE Torn

\* The switch in ReadRecord, for fragment f with n bytes: first and full start a record,
\* middle and last go on with one; full and last end it.
Take(f, n) ==
    LET starts == f.type \in {"full", "first"}
        ends   == f.type \in {"full", "last"}
        ok     == f.type # "none" /\ (starts <=> parts = <<>>)
    IN /\ buf' = SubSeq(buf, HeaderSize + n + 1, Len(buf))
       /\ rpc' = IF ok THEN "read" ELSE "thrown"
       /\ parts' = IF ok /\ ~ends THEN Append(parts, f) ELSE <<>>
       /\ out' = IF ok /\ ends THEN Append(out, RecordOf(Append(parts, f))) ELSE out
       /\ UNCHANGED <<rpos, eof>>

\* The checksum matches.
ReadFragment ==
    /\ ReadStep
    /\ Len(buf) >= HeaderSize /\ Matches
    /\ Take(Found, Found.size)

\* A fragment of no record
Stray(t) == [id |-> Torn, from |-> 0, size |-> 0, type |-> t]

\* if(record->checksum): the bytes of the checksum are zero, and it is not compared.
ReadUnchecked ==
    /\ ReadStep
    /\ Len(buf) >= HeaderSize
    /\ ~Matches /\ ZeroSum
    /\ \E n \in Sizes, t \in Types : HeaderSize + n <= Len(buf) /\ Take(Stray(t), n)

Read == ReadBlock \/ ReadEnd \/ ReadTooLong \/ ReadMismatch \/ ReadFragment \/ ReadUnchecked

-----------------------------------------------------------------------------
Append1 == \E n \in Lengths : AppendToBuffer(n) \/ AppendToFile(n)

WriterStep ==
    \/ Open \/ Close \/ Append1 \/ FlushCall \/ FlushWrite \/ AppendPad \/ WriteHeader
    \/ WriteData \/ WriteFails \/ Sync

Crash == Kill \/ \E k \in 0 .. Len(pend) : PowerLoss(k)

Next ==
    \/ rpc = "off" /\ (WriterStep \/ Crash)
    \/ ReaderOpen \/ Read

Spec == Init /\ [][Next]_vars

\* A reader that is running goes on.
FairSpec == Spec /\ WF_vars(Read)
-----------------------------------------------------------------------------
(* Properties                                                              *)

\* The system wrote what it was given, and lost a tail without putting zeros there.
NoFault == faults = 0

\* The asserts of AppendRecord and WritePhysicalRecord hold: the offset is
\* inside the block and header and fragment fit in what is left of it.
WriterAssertsHold ==
    /\ wpc = "append" => blockOffset <= BlockSize
    /\ wpc = "header" => /\ NextFragment.size >= 0
                         /\ blockOffset + HeaderSize + NextFragment.size <= BlockSize

\* block_offset_ says where in its block the next fragment lands, what waits in
\* rep_ counted in: the writer never puts a header across a block boundary,
\* where the reader could not find it.
BlockAligned ==
    TypeOK /\ (NoFault /\ wpc \in {"idle", "append", "header"} =>
        (Len(Written) + Len(rep) - blockOffset) % BlockSize = 0)

Phase ==
    CASE rpc = "read"   -> "reading"
      [] rpc = "done"   -> "done"
      [] rpc = "thrown" -> "failed"
      [] rpc = "off"    -> IF wpc = "closed" THEN "closed" ELSE IF wpc = "dead" THEN "down"
                           ELSE "open"

\* Something went wrong with the file; it held an older log before.
Damaged == faults > 0
Reused  == base # <<>>

Abstract == INSTANCE DurableLog WITH
    damaged <- Damaged, reused <- Reused, returned <- out, phase <- Phase

\* The log is a durable log: wherever the writer or the machine stopped, ReadRecord returns
\* the records in the order they were appended, each whole and none skipped, and all that
\* were flushed before the process ended or synced before power was lost.  Those come first
\* also if the file held an older log before, and if a write came up short or failed, zeros
\* took the place of a lost tail, or Close was called with records in rep_: what was flushed
\* before the first of these is read back before the reader comes to it.
ImplementsLog == Abstract!Spec

\* A log in a file of its own that was cut off anywhere is read to its end, without an
\* exception and without turning forever at a record whose checksum does not match.
ReaderEnds == (NoFault /\ base = <<>> /\ rpc = "read") ~> rpc = "done"

-----------------------------------------------------------------------------
(* What callers, tests or comments expect and the code does not do: no        *)
(* configuration checks these, README.md says how each one fails.             *)

\* Appending a record does not throw while the disk takes what is written.
AppendNeverThrows == [][~WriteFails]_vars

\* A record that comes back is one that was appended, also from a file used again or
\* damaged.
NoneTorn == \A j \in DOMAIN out : out[j] # Torn

\* The reader of any file comes to its end or fails.
AnyReaderEnds == rpc = "read" ~> rpc # "read"

\* The first record of the log that is read is the first one appended to it.
FirstIsFirst == out # <<>> => out[1][1] = opens
=============================================================================
