----------------------------- MODULE FileWriter -----------------------------
(***************************************************************************)
(* FileWriter of file/file_writer.cpp, the buffered WritableFile, and the  *)
(* RandomAccessFile that reads its file.  The bytes a client appends are   *)
(* numbered 1, 2, 3, ...; 0 is the byte memset puts in the buffer.         *)
(***************************************************************************)
EXTENDS Integers, Sequences

CONSTANTS
    KBufferSize,
    Lengths,    \* the lengths of what is appended
    MaxBytes,   \* bound: bytes appended
    MaxShort    \* bound: writes that come up short

ASSUME FileWriterAssumption ==
    /\ KBufferSize \in Nat \ {0} /\ Lengths \subseteq Nat
    /\ MaxBytes \in Nat /\ MaxShort \in Nat

VARIABLES
    file,     \* the bytes in the file
    total,    \* history: how many bytes were appended
    buf, pos, \* buf_ and pos_
    open,     \* fd_ is open
    closed,   \* closed_
    shared,   \* history: a buffered append came on top of one
    short,    \* history: how many writes came up short
    flushed,  \* history: how many bytes were appended before the last flush
    astray,   \* history: ::close was called for a descriptor closed before
    did,      \* the last call and whether it returned OK
    fate      \* of the object: live, destroyed, or the process aborted

vars == <<file, total, buf, pos, open, closed, shared, short, flushed, astray, did, fate>>

Bytes == 0 .. MaxBytes
Index == 1 .. KBufferSize

TypeOK ==
    /\ file \in Seq(Bytes) /\ total \in Bytes
    /\ buf \in [Index -> Bytes] /\ pos \in 0 .. KBufferSize - 1
    /\ open \in BOOLEAN /\ closed \in BOOLEAN /\ shared \in BOOLEAN /\ astray \in BOOLEAN
    /\ short \in 0 .. MaxShort /\ flushed \in 0 .. total
    /\ did \in [call : {"none", "append", "flush", "sync", "close", "destroy"}, ok : BOOLEAN]
    /\ fate \in {"live", "destroyed", "aborted"}

\* buf_ is not initialized; no byte of it is written before it is set.
Init ==
    /\ file = <<>> /\ total = 0
    /\ buf = [i \in Index |-> 0] /\ pos = 0
    /\ open = TRUE /\ closed = FALSE
    /\ shared = FALSE /\ short = 0 /\ flushed = 0 /\ astray = FALSE
    /\ did = [call |-> "none", ok |-> TRUE] /\ fate = "live"

Returns(call, ok) == did' = [call |-> call, ok |-> ok]

\* The bytes of an append of n, from its k-th on
Data(k, n) == [i \in 1 .. n - k + 1 |-> total + k - 1 + i]

\* Variant: after a short write all of it is written again.
WrittenThenAgain(s, rest) ==
    \/ file' = file \o s \o rest /\ short' = short
    \/ /\ short < MaxShort /\ short' = short + 1
       /\ \E k \in 0 .. Len(s) - 1 : file' = file \o SubSeq(s, 1, k) \o s \o rest

\* ::write(fd_, s) whose result is not looked at, s or some first bytes of it, and
\* then a write of rest
WrittenThen(s, rest) ==
    \/ file' = file \o s \o rest /\ short' = short
    \/ /\ short < MaxShort /\ short' = short + 1
       /\ \E k \in 0 .. Len(s) - 1 : file' = file \o SubSeq(s, 1, k) \o rest

Written(s) == WrittenThen(s, <<>>)

-----------------------------------------------------------------------------
\* Calls after close other than another close are misuse and left out.
Ready == fate = "live" /\ open

\* append when it all fits: the buffer is cleared, then the data copied in.
AppendBuffered(n) ==
    /\ Ready /\ total + n <= MaxBytes
    /\ pos + n < KBufferSize
    /\ buf' = [i \in Index |-> IF pos < i /\ i <= pos + n THEN total + i - pos ELSE 0]
    /\ pos' = pos + n
    /\ total' = total + n
    /\ shared' = (shared \/ pos > 0)
    /\ Returns("append", TRUE)
    /\ UNCHANGED <<file, open, closed, short, flushed, astray, fate>>

Room == KBufferSize - pos

\* The buffer filled up with the first bytes of the data
Filled == [i \in Index |-> IF i <= pos THEN buf[i] ELSE total + i - pos]

\* append when it does not: fill up, flush, and buffer what is left ...
AppendFull(n) ==
    /\ Ready /\ total + n <= MaxBytes
    /\ pos + n >= KBufferSize /\ n - Room < KBufferSize
    /\ Written(Filled)
    /\ buf' = [i \in Index |-> IF i <= n - Room THEN total + Room + i ELSE 0]
    /\ pos' = n - Room
    /\ total' = total + n
    /\ Returns("append", TRUE)
    /\ UNCHANGED <<open, closed, shared, flushed, astray, fate>>

\* Variant: the data is written from its start.
AppendLargeStart(n) ==
    /\ Ready /\ total + n <= MaxBytes
    /\ pos + n >= KBufferSize /\ n - Room >= KBufferSize
    /\ WrittenThen(Filled, Data(1, n - Room))
    /\ buf' = Filled
    /\ pos' = 0
    /\ total' = total + n
    /\ Returns("append", TRUE)
    /\ UNCHANGED <<open, closed, shared, flushed, astray, fate>>

\* ... or write it, if it is more than a buffer.
AppendLarge(n) ==
    /\ Ready /\ total + n <= MaxBytes
    /\ pos + n >= KBufferSize /\ n - Room >= KBufferSize
    /\ WrittenThen(Filled, Data(Room + 1, n))
    /\ buf' = Filled
    /\ pos' = 0
    /\ total' = total + n
    /\ Returns("append", TRUE)
    /\ UNCHANGED <<open, closed, shared, flushed, astray, fate>>

\* assert(w==left): that write coming up short ends the process.
AppendLargeAborts(n) ==
    /\ Ready /\ total + n <= MaxBytes /\ short < MaxShort
    /\ pos + n >= KBufferSize /\ n - Room >= KBufferSize
    /\ \E k \in 0 .. n - Room - 1 : file' = file \o Filled \o SubSeq(Data(Room + 1, n), 1, k)
    /\ total' = total + n
    /\ short' = short + 1
    /\ fate' = "aborted" /\ buf' = Filled /\ pos' = 0
    /\ UNCHANGED <<open, closed, shared, flushed, astray, did>>

FlushBuffer ==
    IF pos > 0 THEN Written(SubSeq(buf, 1, pos)) ELSE UNCHANGED <<file, short>>

Flush ==
    /\ Ready
    /\ FlushBuffer
    /\ pos' = 0 /\ flushed' = total
    /\ Returns("flush", TRUE)
    /\ UNCHANGED <<total, buf, open, closed, shared, astray, fate>>

\* sync: flush and fdatasync, which may fail
Sync ==
    /\ Ready
    /\ FlushBuffer
    /\ pos' = 0 /\ flushed' = total
    /\ \E ok \in BOOLEAN : Returns("sync", ok)
    /\ UNCHANGED <<total, buf, open, closed, shared, astray, fate>>

\* ::close(fd_): the descriptor is closed even if the call fails.  fd_ keeps its
\* number, so that another call fails, or closes what has the number by then.
CloseDescriptor(call) ==
    /\ open' = FALSE /\ astray' = (astray \/ ~open)
    /\ \E ok \in BOOLEAN : Returns(call, ok) /\ closed' = (closed \/ ok)

\* Variant: what is buffered is not looked at.
CloseAtOnce(call) ==
    /\ CloseDescriptor(call)
    /\ flushed' = total
    /\ UNCHANGED <<file, short, pos>>

\* close with bytes in the buffer flushes, without any closes.
CloseOrFlush(call) ==
    /\ flushed' = total
    /\ IF pos > 0
       THEN FlushBuffer /\ pos' = 0 /\ Returns(call, TRUE) /\ UNCHANGED <<open, closed, astray>>
       ELSE CloseDescriptor(call) /\ UNCHANGED <<file, short, pos>>

Close ==
    /\ fate = "live"
    /\ CloseOrFlush("close")
    /\ UNCHANGED <<total, buf, shared, fate>>

\* ~FileWriter
Destroy ==
    /\ fate = "live" /\ fate' = "destroyed"
    /\ IF closed
       THEN UNCHANGED <<file, short, pos, open, closed, flushed, astray, did>>
       ELSE CloseOrFlush("destroy")
    /\ UNCHANGED <<total, buf, shared>>

Next ==
    \/ \E n \in Lengths : \/ AppendBuffered(n) \/ AppendFull(n)
                          \/ AppendLarge(n) \/ AppendLargeAborts(n)
    \/ Flush \/ Sync \/ Close \/ Destroy

Spec == Init /\ [][Next]_vars

-----------------------------------------------------------------------------
\* What is in the memory of the reader
Garbage == -1

\* RandomAccessFile::read, which opens the file for every call: the result is as
\* long as was asked for wherever pread stops, only a negative offset fails.
Read(n, offset) ==
    [ok |-> offset >= 0,
     result |-> [i \in 1 .. IF offset < 0 THEN 0 ELSE n |->
                    IF offset + i <= Len(file) THEN file[offset + i] ELSE Garbage]]

\* The offset of the handle is taken for the end of the block.
ReadBlockFromFile(handle) ==
    LET r == Read(handle.size, handle.offset - handle.size) IN
    [ok |-> r.ok /\ Len(r.result) >= handle.size, result |-> r.result]

-----------------------------------------------------------------------------
(* Properties                                                               *)

Content == file \o SubSeq(buf, 1, pos)

\* While every write is complete, file and buffer together are as long as what was
\* appended, and every byte is where it belongs, however appends and flushes of all
\* lengths follow each other; bytes are cleared only by an append that fits behind
\* an earlier one in the buffer.
PlacedRight ==
    /\ TypeOK
    /\ short = 0 => /\ Len(Content) = total
                    /\ \A i \in 1 .. total : Content[i] \in (IF shared THEN {0, i} ELSE {i})

\* Even when writes come up short no byte is written twice or before an earlier one.
BytesInOrder ==
    \A i, j \in DOMAIN Content :
        i < j /\ Content[i] # 0 /\ Content[j] # 0 => Content[i] < Content[j]

\* What was appended before a flush, sync, close or the destructor is read back as
\* it was appended, from any place on, while the file goes on growing: unless a
\* write came up short, and but for the bytes that were cleared.
FlushedIsRead ==
    short = 0 =>
        \A offset \in 0 .. flushed : \A size \in 0 .. offset :
            LET r == ReadBlockFromFile([offset |-> offset, size |-> size])
                At(i) == offset - size + i
            IN  r.ok /\ \A i \in 1 .. size :
                            r.result[i] \in (IF shared THEN {0, At(i)} ELSE {At(i)})

-----------------------------------------------------------------------------
(* What callers, tests or comments expect and the code does not do: no        *)
(* configuration checks these, README.md says how each one fails.             *)

\* The file gets what was appended.
HoldsAppended == \A i \in DOMAIN Content : Content[i] = i

\* After close the file is closed.
CloseCloses == did.call = "close" /\ did.ok => closed

\* A flush that says OK has written what was in the buffer.
FlushWrites == did.call = "flush" /\ did.ok => Len(file) = total

\* The destructor leaves no descriptor open, and nothing is closed twice.
DescriptorsAreClosed == (fate = "destroyed" => ~open) /\ ~astray

\* A block that ReadBlockFromFile returns was in the file, or it returns an error.
ShortReadsFail ==
    \A offset \in 0 .. total : \A size \in 0 .. offset :
        LET r == ReadBlockFromFile([offset |-> offset, size |-> size])
        IN  r.ok => \A i \in 1 .. size : r.result[i] # Garbage
=============================================================================
