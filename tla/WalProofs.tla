------------------------------ MODULE WalProofs ------------------------------
(***************************************************************************)
(* For blocks and headers of every size, records of every length and       *)
(* whatever crashes there are: the asserts of the log's writer hold, its   *)
(* state keeps its types, and, while no write comes up short or fails, the *)
(* offset it keeps is that of the file.  And Wal implements DurableLog,    *)
(* from which the promise of recovery follows.                             *)
(*                                                                         *)
(* The implementation is proved with marks: the places of the file at      *)
(* which a reader that started at its first byte may be, each with what it *)
(* has put together then.  In a file that nothing damaged the marks are a  *)
(* path, on which the records come one after the other to the end of what  *)
(* was written; in one that something damaged, to the place where that     *)
(* happened, behind the last record that was flushed before.               *)
(***************************************************************************)
EXTENDS Wal, TLAPS

USE SizeAssumption

\* The writer knows that a header fits once it has padded the block, and goes on to
\* the data without changing the offset.
OffsetInv ==
    /\ blockOffset \in 0 .. BlockSize
    /\ rest.size \in Nat
    /\ wpc \in {"header", "data"} => blockOffset + HeaderSize <= BlockSize

\* What is left of a record or of the block, whichever is less
LEMMA FragmentFits ==
    ASSUME OffsetInv, blockOffset + HeaderSize <= BlockSize
    PROVE  /\ NextFragment.size \in 0 .. rest.size
           /\ blockOffset + HeaderSize + NextFragment.size <= BlockSize
  BY DEF OffsetInv, NextFragment, Fragment

LEMMA InitOffset == Init => OffsetInv
  BY DEF Init, OffsetInv, NoRest

LEMMA AppendsKeep ==
    ASSUME OffsetInv, NEW n \in Lengths, AppendToBuffer(n) \/ AppendToFile(n)
    PROVE  OffsetInv'
<1>1. CASE AppendToBuffer(n)
  BY <1>1 DEF AppendToBuffer, OffsetInv
<1>2. CASE AppendToFile(n)
  BY <1>2 DEF AppendToFile, OffsetInv
<1> QED
  BY <1>1, <1>2

\* The loop of AppendRecord
LEMMA LoopKeeps ==
    ASSUME OffsetInv, AppendPad \/ WriteHeader \/ WriteData \/ WriteFails
    PROVE  OffsetInv'
<1>1. CASE AppendPad
  BY <1>1 DEF AppendPad, Leftover, OffsetInv
<1>2. CASE WriteHeader
  BY <1>2 DEF WriteHeader, OffsetInv
<1>3. CASE WriteData
  <2> DEFINE size == NextFragment.size
  <2>1. /\ size \in 0 .. rest.size /\ blockOffset + HeaderSize + size <= BlockSize
    BY <1>3, FragmentFits DEF WriteData, OffsetInv
  <2>2. /\ blockOffset' = blockOffset + HeaderSize + size /\ wpc' \in {"idle", "append"}
        /\ \/ rest' = NoRest
           \/ rest' = [rest EXCEPT !.from = @ + size, !.size = @ - size, !.begin = FALSE]
    BY <1>3 DEF WriteData
  <2>3. rest'.size \in Nat
    <3> HIDE DEF size
    <3>1. CASE rest' = NoRest
      BY <3>1 DEF NoRest
    <3>2. CASE rest' = [rest EXCEPT !.from = @ + size, !.size = @ - size, !.begin = FALSE]
      BY <2>1, <3>2 DEF OffsetInv
    <3> QED
      BY <2>2, <3>1, <3>2
  <2> QED
    BY <2>1, <2>2, <2>3 DEF OffsetInv
<1>4. CASE WriteFails
  BY <1>4 DEF WriteFails, OffsetInv, NoRest
<1> QED
  BY <1>1, <1>2, <1>3, <1>4

LEMMA CallsKeep ==
    ASSUME OffsetInv, Open \/ Close \/ FlushCall \/ FlushWrite \/ Sync \/ Crash
    PROVE  OffsetInv'
<1>1. CASE Open
  BY <1>1 DEF Open, OffsetInv, NoRest
<1>2. CASE Close
  BY <1>2 DEF Close, OffsetInv
<1>3. CASE FlushCall
  BY <1>3 DEF FlushCall, OffsetInv, NoRest
<1>4. CASE FlushWrite
  BY <1>4 DEF FlushWrite, OffsetInv
<1>5. CASE Sync
  BY <1>5 DEF Sync, OffsetInv
<1>6. CASE Crash
  <2>1. blockOffset' = 0 /\ rest' = NoRest /\ wpc' = "dead"
    BY <1>6 DEF Crash, Kill, PowerLoss, WriterGone
  <2> QED
    BY <2>1 DEF OffsetInv, NoRest
<1> QED
  BY <1>1, <1>2, <1>3, <1>4, <1>5, <1>6

LEMMA ReadsKeep == ASSUME OffsetInv, ReaderOpen \/ Read PROVE OffsetInv'
  BY DEF ReaderOpen, Read, ReadBlock, ReadEnd, ReadTooLong, ReadMismatch, ReadFragment,
         ReadUnchecked, ReadStep, writerVars, OffsetInv

LEMMA StutterOffset == ASSUME OffsetInv, UNCHANGED vars PROVE OffsetInv'
  BY DEF vars, writerVars, OffsetInv

\* The asserts of AppendRecord and WritePhysicalRecord (wal_writer.cpp:98, :146) hold.
THEOREM AssertsHold == FairSpec => []WriterAssertsHold
<1>1. OffsetInv /\ [Next]_vars => OffsetInv'
  BY AppendsKeep, LoopKeeps, CallsKeep, ReadsKeep, StutterOffset
  DEF Next, WriterStep, Append1
<1>2. OffsetInv => WriterAssertsHold
  BY FragmentFits DEF OffsetInv, WriterAssertsHold
<1> QED
  BY InitOffset, <1>1, <1>2, PTL DEF FairSpec, Spec

-----------------------------------------------------------------------------
(* The types of the log                                                     *)

Ids       == Records \cup {<<0, 0, 0>>}
Kinds     == {"full", "first", "last", "middle"}
Fragments == [id : Ids, from : Nat, size : Nat, type : Kinds]
Cells     == {Pad} \cup [part : {"header"}, at : Nat, frag : Fragments]
                   \cup [part : {"data"}, id : Ids, at : Nat]

BytesTyped ==
    /\ base \in Seq(Cells) /\ disk \in Seq(Cells) /\ pend \in Seq(Cells)
    /\ rep \in Seq(Cells) /\ buf \in Seq(Cells)

\* AppendRecord is at a record, or about to be once rep_ is written.
InRecord == wpc \in {"append", "header", "data"} \/ (wpc = "flush" /\ rest # NoRest)

\* The file is open where the writer appends to it; records left in rep_ where it is
\* not are the fault the next Open counts; and the record that AppendRecord is at may be
\* appended until it is.
CallInv ==
    /\ rest \in [id : Ids, from : Nat, size : Nat, begin : BOOLEAN]
    /\ wpc # "closed" => opens > 0
    /\ wpc \in {"closed", "dead"} /\ rep # <<>> => MaxFaults > 0
    /\ InRecord => /\ rest.id \in Records
                   /\ rest.begin /\ wpc # "data" => Len(log) < MaxRecords

TypeInv == TypeOK /\ OffsetInv /\ BytesTyped /\ CallInv

LEMMA Concat ==
    ASSUME NEW S, NEW a \in Seq(S), NEW b \in Seq(S)
    PROVE  a \o b \in Seq(S) /\ Len(a \o b) = Len(a) + Len(b)
  OBVIOUS

LEMMA Piece ==
    ASSUME NEW S, NEW s \in Seq(S), NEW m \in Nat \ {0}, NEW n \in 0 .. Len(s)
    PROVE  /\ SubSeq(s, m, n) \in Seq(S)
           /\ Len(SubSeq(s, m, n)) = IF m <= n THEN n - m + 1 ELSE 0
  OBVIOUS

LEMMA BytesFrom ==
    ASSUME NEW S, NEW s \in Seq(S), NEW at \in Nat, NEW n \in Nat, at + n <= Len(s)
    PROVE  SubSeq(s, at + 1, at + n) \in Seq(S) /\ Len(SubSeq(s, at + 1, at + n)) = n
  OBVIOUS

LEMMA EmptyTyped == <<>> \in Seq(Cells) /\ Len(<<>>) = 0
  OBVIOUS

LEMMA FragmentTyped ==
    ASSUME NEW id \in Ids, NEW from \in Nat, NEW size \in Nat,
           NEW begin \in BOOLEAN, NEW end \in BOOLEAN
    PROVE  /\ Fragment(id, from, size, begin, end) \in Fragments
           /\ Fragment(id, from, size, begin, end).size = size
<1> DEFINE type == Fragment(id, from, size, begin, end).type
<1>1. type \in Kinds
  BY DEF Fragment, Kinds
<1>2. Fragment(id, from, size, begin, end) =
           [id |-> id, from |-> from, size |-> size, type |-> type]
  BY DEF Fragment
<1> HIDE DEF type
<1> QED
  BY <1>1, <1>2 DEF Fragments

LEMMA FragmentBytes ==
    ASSUME NEW f \in Fragments
    PROVE  /\ Header(f) \in Seq(Cells) /\ Len(Header(f)) = HeaderSize
           /\ Data(f) \in Seq(Cells) /\ Len(Data(f)) = f.size
<1>1. f.size \in Nat /\ f.from \in Nat /\ f.id \in Ids
  BY DEF Fragments
<1>2. ASSUME NEW j \in 1 .. HeaderSize
      PROVE  [part |-> "header", at |-> j, frag |-> f] \in Cells
  BY DEF Cells
<1>3. ASSUME NEW j \in 1 .. f.size
      PROVE  [part |-> "data", id |-> f.id, at |-> f.from + j] \in Cells
  BY <1>1 DEF Cells
<1>4. Header(f) \in Seq(Cells) /\ Len(Header(f)) = HeaderSize
  BY <1>2 DEF Header
<1>5. Data(f) \in Seq(Cells) /\ Len(Data(f)) = f.size
  BY <1>1, <1>3 DEF Data
<1> QED
  BY <1>4, <1>5

LEMMA Padding ==
    ASSUME NEW n \in Nat
    PROVE  [j \in 1 .. n |-> Pad] \in Seq(Cells) /\ Len([j \in 1 .. n |-> Pad]) = n
<1>1. Pad \in Cells
  BY DEF Cells
<1> QED
  BY <1>1

\* A write leaves all of s behind what was written, or is a fault.
LEMMA Wrote ==
    ASSUME BytesTyped, faults \in 0 .. MaxFaults, NEW s \in Seq(Cells), Write(s)
    PROVE  /\ pend' \in Seq(Cells) /\ disk' = disk /\ base' = base
           /\ faults' \in 0 .. MaxFaults
           /\ faults' = 0 => faults = 0 /\ Len(Written') = Len(Written) + Len(s)
<1>1. disk' = disk /\ base' = base
  BY DEF Write
<1>2. CASE pend' = pend \o s /\ faults' = faults
  <2>1. pend' \in Seq(Cells) /\ Len(pend') = Len(pend) + Len(s)
    BY <1>2, Concat DEF BytesTyped
  <2>2. Len(Written') = Len(disk) + Len(pend') /\ Len(Written) = Len(disk) + Len(pend)
    BY <1>1, <2>1, Concat DEF BytesTyped, Written
  <2> QED
    BY <1>1, <1>2, <2>1, <2>2 DEF BytesTyped
<1>3. CASE /\ faults < MaxFaults /\ faults' = faults + 1
           /\ \E k \in 1 .. Len(s) - 1 : pend' = pend \o SubSeq(s, 1, k)
  <2>1. PICK k \in 1 .. Len(s) - 1 : pend' = pend \o SubSeq(s, 1, k)
    BY <1>3
  <2>2. SubSeq(s, 1, k) \in Seq(Cells)
    BY Piece
  <2>3. pend' \in Seq(Cells)
    BY <2>1, <2>2, Concat DEF BytesTyped
  <2> QED
    BY <1>1, <1>3, <2>3
<1> QED
  BY <1>2, <1>3 DEF Write

LEMMA WrittenTyped ==
    ASSUME BytesTyped
    PROVE  Written \in Seq(Cells) /\ Len(Written) = Len(disk) + Len(pend)
  BY Concat DEF BytesTyped, Written

LEMMA FileTyped == ASSUME BytesTyped PROVE File \in Seq(Cells)
<1>1. Len(Written) + 1 \in Nat \ {0} /\ Len(base) \in 0 .. Len(base)
  BY WrittenTyped DEF BytesTyped
<1>2. SubSeq(base, Len(Written) + 1, Len(base)) \in Seq(Cells)
  BY <1>1, Piece DEF BytesTyped
<1> QED
  BY <1>2, WrittenTyped, Concat DEF File

LEMMA InitTypes == Init => TypeInv
<1> SUFFICES ASSUME Init PROVE TypeInv
  OBVIOUS
<1>1. TypeOK
  <2>1. <<>> \in Seq(Records) /\ Len(<<>>) = 0
    OBVIOUS
  <2>2. log \in Seq(Records) /\ Len(log) = 0 /\ buf = <<>> /\ Len(buf) = 0
    BY <2>1 DEF Init
  <2>3. 0 \in 0 .. BlockSize /\ 0 \in 0 .. MaxOpens /\ 0 \in 0 .. MaxFaults
    OBVIOUS
  <2>4. /\ flushed = 0 /\ synced = 0 /\ held = 0 /\ opens = 0 /\ faults = 0 /\ rpos = 0
        /\ blockOffset = 0 /\ wpc = "closed" /\ rpc = "off" /\ eof = FALSE
    BY DEF Init
  <2> QED
    <3>1. log \in Seq(Records) /\ Len(log) <= MaxRecords /\ Len(buf) <= BlockSize
      BY <2>2
    <3>2. flushed \in 0 .. Len(log) /\ synced \in 0 .. flushed /\ held \in 0 .. Len(log)
      BY <2>2, <2>4
    <3> QED
      BY <2>3, <2>4, <3>1, <3>2 DEF TypeOK
<1>2. BytesTyped
  BY DEF Init, BytesTyped
<1>3. CallInv
  BY DEF Init, CallInv, InRecord, Ids, NoRest
<1> QED
  BY <1>1, <1>2, <1>3, InitOffset DEF TypeInv

LEMMA NextTyped ==
    ASSUME TypeInv, wpc \in {"header", "data"}
    PROVE  /\ NextFragment \in Fragments /\ NextFragment.size \in 0 .. rest.size
           /\ blockOffset + HeaderSize + NextFragment.size <= BlockSize
<1> DEFINE avail == BlockSize - blockOffset - HeaderSize
           size  == IF rest.size < avail THEN rest.size ELSE avail
<1>1. OffsetInv /\ blockOffset + HeaderSize <= BlockSize
  BY DEF TypeInv, OffsetInv
<1>2. /\ rest.id \in Ids /\ rest.from \in Nat /\ rest.begin \in BOOLEAN /\ rest.size \in Nat
  BY DEF TypeInv, CallInv
<1>3. size \in Nat
  BY <1>1, <1>2 DEF OffsetInv
<1>4. NextFragment = Fragment(rest.id, rest.from, size, rest.begin, size = rest.size)
  BY DEF NextFragment
<1> HIDE DEF size
<1>5. NextFragment \in Fragments
  BY <1>2, <1>3, <1>4, FragmentTyped
<1> QED
  BY <1>1, <1>5, FragmentFits

LEMMA OpenTypes == ASSUME TypeInv, Open PROVE TypeInv'
<1>1. OffsetInv'
  BY CallsKeep DEF TypeInv
<1>2. base' \in Seq(Cells)
  <2>1. base' = <<>> \/ base' = File
    BY DEF Open
  <2>2. File \in Seq(Cells)
    BY FileTyped DEF TypeInv
  <2> QED
    BY ONLY <2>1, <2>2, EmptyTyped
<1>3. BytesTyped'
  BY <1>2 DEF Open, readerVars, TypeInv, BytesTyped
<1>4. log' \in Seq(Records) /\ Len(log') <= MaxRecords /\ Len(log') = held /\ held' = held
  <2>1. log \in Seq(Records) /\ Len(log) <= MaxRecords /\ held \in 0 .. Len(log)
    BY DEF TypeInv, TypeOK
  <2>2. Len(log) - held + 1 \in Nat \ {0} /\ Len(log) \in 0 .. Len(log)
    BY <2>1
  <2>3. log' = SubSeq(log, Len(log) - held + 1, Len(log)) /\ held' = held
    BY DEF Open
  <2>4. /\ log' \in Seq(Records)
        /\ Len(log') = IF Len(log) - held + 1 <= Len(log)
                       THEN Len(log) - (Len(log) - held + 1) + 1 ELSE 0
    BY <2>1, <2>2, <2>3, Piece
  <2> QED
    BY <2>1, <2>3, <2>4
<1>5. opens' \in 0 .. MaxOpens /\ opens' > 0
  BY DEF Open, TypeInv, TypeOK
<1>6. faults' \in 0 .. MaxFaults
  BY DEF Open, TypeInv, CallInv
<1>7. TypeOK'
  BY <1>1, <1>4, <1>5, <1>6 DEF Open, readerVars, TypeInv, TypeOK, OffsetInv
<1>8. CallInv'
  BY <1>5 DEF Open, CallInv, InRecord, NoRest, Ids
<1> QED
  BY <1>1, <1>3, <1>7, <1>8 DEF TypeInv

LEMMA CloseTypes == ASSUME TypeInv, Close PROVE TypeInv'
<1>1. OffsetInv'
  BY CallsKeep DEF TypeInv
<1>2. BytesTyped'
  BY DEF Close, readerVars, fileVars, TypeInv, BytesTyped
<1>3. TypeOK'
  BY <1>1 DEF Close, readerVars, fileVars, TypeInv, TypeOK, OffsetInv
<1>4. CallInv'
  BY DEF Close, TypeInv, CallInv, InRecord
<1> QED
  BY <1>1, <1>2, <1>3, <1>4 DEF TypeInv

\* A record that is appended has a number of its own.
LEMMA AppendedTyped ==
    ASSUME TypeInv, wpc = "idle", MayAppend, NEW n \in Lengths
    PROVE  NextId(n) \in Records /\ Len(log) + 1 <= MaxRecords
<1>1. log \in Seq(Records) /\ Len(log) + 1 <= MaxRecords
  BY DEF TypeInv, TypeOK, MayAppend
<1>2. opens \in 1 .. MaxOpens
  BY DEF TypeInv, TypeOK, CallInv
<1>3. NextId(n) \in Records
  BY <1>1, <1>2 DEF NextId, Records
<1> QED
  BY <1>1, <1>3

LEMMA AppendToBufferTypes ==
    ASSUME TypeInv, NEW n \in Lengths, AppendToBuffer(n)
    PROVE  TypeInv' /\ Len(rep') = Len(rep) + HeaderSize + n
<1> DEFINE f == Fragment(NextId(n), 0, n, TRUE, TRUE)
<1>1. OffsetInv'
  BY AppendsKeep DEF TypeInv
<1>2. /\ NextId(n) \in Records /\ log' \in Seq(Records) /\ held' \in 0 .. Len(log')
      /\ Len(log') = Len(log) + 1 /\ Len(log') <= MaxRecords
  <2>1. NextId(n) \in Records /\ Len(log) + 1 <= MaxRecords
    BY AppendedTyped DEF AppendToBuffer
  <2>2. log \in Seq(Records) /\ held \in 0 .. Len(log)
    BY DEF TypeInv, TypeOK
  <2>3. log' = Append(log, NextId(n)) /\ held' = held + 1
    BY DEF AppendToBuffer
  <2>4. log' \in Seq(Records) /\ Len(log') = Len(log) + 1
    BY <2>1, <2>2, <2>3
  <2> QED
    BY <2>1, <2>2, <2>3, <2>4
<1>3. f \in Fragments /\ f.size = n
  <2>1. NextId(n) \in Ids /\ n \in Nat
    BY <1>2 DEF Ids
  <2>2. TRUE \in BOOLEAN /\ 0 \in Nat
    OBVIOUS
  <2> QED
    BY ONLY <2>1, <2>2, FragmentTyped
<1>4. rep' = rep \o Header(f) \o Data(f)
  BY DEF AppendToBuffer
<1> HIDE DEF f
<1>5. /\ Header(f) \in Seq(Cells) /\ Len(Header(f)) = HeaderSize
      /\ Data(f) \in Seq(Cells) /\ Len(Data(f)) = n
  BY <1>3, FragmentBytes
<1>6. rep \o Header(f) \in Seq(Cells) /\ Len(rep \o Header(f)) = Len(rep) + HeaderSize
  BY <1>5, Concat DEF TypeInv, BytesTyped
<1>7. rep' \in Seq(Cells) /\ Len(rep') = Len(rep) + HeaderSize + n
  BY <1>4, <1>5, <1>6, Concat
<1>8. BytesTyped'
  BY <1>7 DEF AppendToBuffer, fileVars, readerVars, TypeInv, BytesTyped
<1>9. TypeOK'
  BY <1>1, <1>2 DEF AppendToBuffer, fileVars, readerVars, TypeInv, TypeOK, OffsetInv
<1>10. CallInv'
  BY <1>2 DEF AppendToBuffer, TypeInv, CallInv, InRecord
<1> QED
  BY <1>1, <1>7, <1>8, <1>9, <1>10 DEF TypeInv

LEMMA AppendToFileTypes ==
    ASSUME TypeInv, NEW n \in Lengths, AppendToFile(n)
    PROVE  TypeInv'
<1>1. OffsetInv'
  BY AppendsKeep DEF TypeInv
<1>2. NextId(n) \in Records /\ Len(log) + 1 <= MaxRecords
  BY AppendedTyped DEF AppendToFile
<1>3. BytesTyped'
  BY DEF AppendToFile, fileVars, readerVars, TypeInv, BytesTyped
<1>4. wpc' \in {"append", "flush"}
  BY DEF AppendToFile
<1>5. TypeOK'
  BY <1>1, <1>4 DEF AppendToFile, fileVars, readerVars, TypeInv, TypeOK, OffsetInv
<1>6. CallInv'
  <2>1. rest' \in [id : Ids, from : Nat, size : Nat, begin : BOOLEAN] /\ rest'.id \in Records
    BY <1>2 DEF AppendToFile, Ids
  <2>2. opens' > 0 /\ Len(log') < MaxRecords
    BY <1>2 DEF AppendToFile, TypeInv, TypeOK, CallInv
  <2> QED
    BY <1>4, <2>1, <2>2 DEF CallInv
<1> QED
  BY <1>1, <1>3, <1>5, <1>6 DEF TypeInv

LEMMA FlushCallTypes == ASSUME TypeInv, FlushCall PROVE TypeInv'
<1>1. OffsetInv'
  BY CallsKeep DEF TypeInv
<1>2. BytesTyped'
  BY DEF FlushCall, fileVars, readerVars, TypeInv, BytesTyped
<1>3. TypeOK'
  BY <1>1 DEF FlushCall, fileVars, readerVars, TypeInv, TypeOK, OffsetInv
<1>4. CallInv'
  BY DEF FlushCall, TypeInv, CallInv, InRecord, NoRest, Ids
<1> QED
  BY <1>1, <1>2, <1>3, <1>4 DEF TypeInv

LEMMA FlushWriteTypes ==
    ASSUME TypeInv, FlushWrite
    PROVE  /\ TypeInv'
           /\ faults' = 0 => faults = 0 /\ Len(Written') = Len(Written) + Len(rep)
           /\ wpc' \in {"idle", "append"}
<1>1. OffsetInv'
  BY CallsKeep DEF TypeInv
<1>2. /\ pend' \in Seq(Cells) /\ disk' = disk /\ base' = base
      /\ faults' \in 0 .. MaxFaults
      /\ faults' = 0 => faults = 0 /\ Len(Written') = Len(Written) + Len(rep)
  BY Wrote DEF FlushWrite, TypeInv, TypeOK, BytesTyped
<1>3. BytesTyped'
  BY <1>2 DEF FlushWrite, readerVars, TypeInv, BytesTyped
<1>4. wpc' \in {"idle", "append"}
  BY DEF FlushWrite
<1>5. TypeOK'
  <2>1. flushed' \in flushed .. Len(log) /\ held' = 0
    BY DEF FlushWrite, FlushedUpTo, TypeInv, TypeOK
  <2>2. flushed' \in 0 .. Len(log') /\ synced' \in 0 .. flushed'
    BY <2>1 DEF FlushWrite, TypeInv, TypeOK
  <2> QED
    BY <1>1, <1>2, <1>4, <2>2 DEF FlushWrite, readerVars, TypeInv, TypeOK, OffsetInv
<1>6. CallInv'
  BY <1>4 DEF FlushWrite, TypeInv, CallInv, InRecord
<1> QED
  BY <1>1, <1>2, <1>3, <1>4, <1>5, <1>6 DEF TypeInv

LEMMA AppendPadTypes ==
    ASSUME TypeInv, AppendPad
    PROVE  /\ TypeInv'
           /\ \/ faults' = faults /\ blockOffset' = blockOffset /\ Len(Written') = Len(Written)
              \/ /\ blockOffset' = 0
                 /\ faults' = 0 => /\ faults = 0
                                   /\ Len(Written') = Len(Written) + BlockSize - blockOffset
<1>1. OffsetInv'
  BY LoopKeeps DEF TypeInv
<1>2. /\ pend' \in Seq(Cells) /\ disk' = disk /\ base' = base /\ faults' \in 0 .. MaxFaults
      /\ \/ faults' = faults /\ blockOffset' = blockOffset /\ Len(Written') = Len(Written)
         \/ /\ blockOffset' = 0
            /\ faults' = 0 => /\ faults = 0
                              /\ Len(Written') = Len(Written) + BlockSize - blockOffset
  <2>1. CASE Leftover < HeaderSize
    <3>1. Leftover \in Nat /\ Leftover = BlockSize - blockOffset
      BY DEF Leftover, TypeInv, OffsetInv
    <3> DEFINE s == [j \in 1 .. Leftover |-> Pad]
    <3>2. s \in Seq(Cells) /\ Len(s) = Leftover
      BY <3>1, Padding
    <3>3. Write(s) /\ blockOffset' = 0
      BY <2>1 DEF AppendPad
    <3> HIDE DEF s
    <3>4. /\ pend' \in Seq(Cells) /\ disk' = disk /\ base' = base /\ faults' \in 0 .. MaxFaults
          /\ faults' = 0 => faults = 0 /\ Len(Written') = Len(Written) + Len(s)
      BY <3>2, <3>3, Wrote DEF TypeInv, TypeOK
    <3>5. Len(Written) \in Nat /\ blockOffset \in Nat
      BY WrittenTyped DEF TypeInv, OffsetInv, BytesTyped
    <3> QED
      BY <3>1, <3>2, <3>3, <3>4, <3>5
  <2>2. CASE ~(Leftover < HeaderSize)
    BY <2>2 DEF AppendPad, fileVars, Written, TypeInv, TypeOK, BytesTyped
  <2> QED
    BY <2>1, <2>2
<1>3. BytesTyped'
  BY <1>2 DEF AppendPad, readerVars, TypeInv, BytesTyped
<1>4. TypeOK'
  BY <1>1, <1>2 DEF AppendPad, readerVars, TypeInv, TypeOK, OffsetInv
<1>5. CallInv'
  BY DEF AppendPad, TypeInv, CallInv, InRecord
<1> QED
  BY <1>1, <1>2, <1>3, <1>4, <1>5 DEF TypeInv

LEMMA WriteHeaderTypes ==
    ASSUME TypeInv, WriteHeader
    PROVE  TypeInv' /\ (faults' = 0 => faults = 0 /\ Len(Written') = Len(Written) + HeaderSize)
<1>1. OffsetInv'
  BY LoopKeeps DEF TypeInv
<1> DEFINE s == Header(NextFragment)
<1>2. s \in Seq(Cells) /\ Len(s) = HeaderSize
  BY NextTyped, FragmentBytes DEF WriteHeader
<1>3. Write(s)
  BY DEF WriteHeader
<1> HIDE DEF s
<1>4. /\ pend' \in Seq(Cells) /\ disk' = disk /\ base' = base /\ faults' \in 0 .. MaxFaults
      /\ faults' = 0 => faults = 0 /\ Len(Written') = Len(Written) + HeaderSize
  BY <1>2, <1>3, Wrote DEF TypeInv, TypeOK
<1>5. BytesTyped'
  BY <1>4 DEF WriteHeader, readerVars, TypeInv, BytesTyped
<1>6. TypeOK'
  <2>1. log \in Seq(Records) /\ Len(log) <= MaxRecords
    BY DEF TypeInv, TypeOK
  <2>2. log' \in Seq(Records) /\ Len(log') \in Len(log) .. MaxRecords
    <3>1. CASE rest.begin
      <4>1. /\ rest.id \in Records /\ Len(log) < MaxRecords
        BY <3>1 DEF WriteHeader, TypeInv, CallInv, InRecord
      <4>2. log' = Append(log, rest.id)
        BY <3>1 DEF WriteHeader
      <4>3. log' \in Seq(Records) /\ Len(log') = Len(log) + 1
        BY <2>1, <4>1, <4>2
      <4> QED
        BY <2>1, <4>1, <4>3
    <3>2. CASE ~rest.begin
      BY <2>1, <3>2 DEF WriteHeader
    <3> QED
      BY <3>1, <3>2
  <2> QED
    BY <1>1, <1>4, <2>1, <2>2 DEF WriteHeader, readerVars, TypeInv, TypeOK, OffsetInv
<1>7. CallInv'
  BY DEF WriteHeader, TypeInv, CallInv, InRecord
<1> QED
  BY <1>1, <1>4, <1>5, <1>6, <1>7 DEF TypeInv

LEMMA WriteDataTypes ==
    ASSUME TypeInv, WriteData
    PROVE  /\ TypeInv' /\ wpc' \in {"idle", "append"}
           /\ blockOffset' = blockOffset + HeaderSize + NextFragment.size
           /\ faults' = 0 => faults = 0 /\ Len(Written') = Len(Written) + NextFragment.size
<1>1. OffsetInv'
  BY LoopKeeps DEF TypeInv
<1> DEFINE f == NextFragment
<1>2. f \in Fragments /\ f.size \in 0 .. rest.size
  BY NextTyped DEF WriteData
<1>3. /\ Write(Data(f)) /\ blockOffset' = blockOffset + HeaderSize + f.size
      /\ \/ wpc' = "idle" /\ rest' = NoRest /\ flushed' \in {flushed, Len(log)}
         \/ /\ wpc' = "append" /\ flushed' = flushed
            /\ rest' = [rest EXCEPT !.from = @ + f.size, !.size = @ - f.size, !.begin = FALSE]
      /\ UNCHANGED <<log, synced, held, opens, rep, readerVars>> /\ wpc = "data"
  BY DEF WriteData, FlushedUpTo
<1> HIDE DEF f
<1>4. Data(f) \in Seq(Cells) /\ Len(Data(f)) = f.size
  BY <1>2, FragmentBytes
<1>5. /\ pend' \in Seq(Cells) /\ disk' = disk /\ base' = base /\ faults' \in 0 .. MaxFaults
      /\ faults' = 0 => faults = 0 /\ Len(Written') = Len(Written) + f.size
  BY <1>3, <1>4, Wrote DEF TypeInv, TypeOK
<1>6. BytesTyped'
  BY <1>3, <1>5 DEF readerVars, TypeInv, BytesTyped
<1>7. TypeOK'
  <2>1. flushed' \in 0 .. Len(log') /\ synced' \in 0 .. flushed'
    <3>1. /\ flushed \in 0 .. Len(log) /\ synced \in 0 .. flushed /\ Len(log) \in Nat
      BY DEF TypeInv, TypeOK
    <3>2. flushed' = flushed \/ flushed' = Len(log)
      BY <1>3
    <3>3. log' = log /\ synced' = synced
      BY <1>3
    <3> QED
      BY ONLY <3>1, <3>2, <3>3
  <2>2. UNCHANGED <<log, held, opens, readerVars>> /\ wpc' \in {"idle", "append"}
    BY <1>3
  <2>3. faults' \in 0 .. MaxFaults /\ blockOffset' \in 0 .. BlockSize
    BY <1>1, <1>5 DEF OffsetInv
  <2>4. TypeOK
    BY DEF TypeInv
  <2> QED
    BY ONLY <2>1, <2>2, <2>3, <2>4 DEF readerVars, TypeOK
<1>8. rest' \in [id : Ids, from : Nat, size : Nat, begin : BOOLEAN]
  <2>1. rest \in [id : Ids, from : Nat, size : Nat, begin : BOOLEAN]
    BY DEF TypeInv, CallInv
  <2>2. CASE rest' = NoRest
    BY <2>2 DEF NoRest, Ids
  <2>3. CASE rest' = [rest EXCEPT !.from = @ + f.size, !.size = @ - f.size, !.begin = FALSE]
    <3>1. /\ rest.id \in Ids /\ rest.from + f.size \in Nat /\ rest.size - f.size \in Nat
      BY <1>2, <2>1
    <3>2. rest' = [id |-> rest.id, from |-> rest.from + f.size,
                   size |-> rest.size - f.size, begin |-> FALSE]
      BY <2>1, <2>3
    <3> QED
      BY <3>1, <3>2
  <2> QED
    BY <1>3, <2>2, <2>3
<1>9. CallInv'
  <2>1. rest.id \in Records /\ rest \in [id : Ids, from : Nat, size : Nat, begin : BOOLEAN]
    BY <1>3 DEF TypeInv, CallInv, InRecord
  <2>2. wpc' = "idle" \/ (rest'.id = rest.id /\ rest'.begin = FALSE)
    BY <1>3, <2>1
  <2>3. InRecord' => wpc' # "idle"
    BY DEF InRecord
  <2>4. wpc' # "closed" /\ wpc' # "dead" /\ opens' > 0
    BY <1>3 DEF TypeInv, CallInv
  <2> QED
    BY <1>8, <2>1, <2>2, <2>3, <2>4 DEF CallInv
<1> QED
  BY <1>1, <1>3, <1>5, <1>6, <1>7, <1>9 DEF TypeInv, f

LEMMA FailTypes == ASSUME TypeInv, WriteFails PROVE TypeInv'
<1>1. OffsetInv'
  BY LoopKeeps DEF TypeInv
<1>2. BytesTyped'
  BY DEF WriteFails, readerVars, TypeInv, BytesTyped
<1>3. faults' \in 0 .. MaxFaults
  BY DEF WriteFails, TypeInv, TypeOK
<1>4. TypeOK'
  BY <1>1, <1>3 DEF WriteFails, readerVars, TypeInv, TypeOK, OffsetInv
<1>5. CallInv'
  BY DEF WriteFails, TypeInv, CallInv, InRecord, NoRest, Ids
<1> QED
  BY <1>1, <1>2, <1>4, <1>5 DEF TypeInv

LEMMA SyncTypes == ASSUME TypeInv, Sync PROVE TypeInv' /\ Len(Written') = Len(Written)
<1>1. OffsetInv'
  BY CallsKeep DEF TypeInv
<1>2. Written \in Seq(Cells)
  BY WrittenTyped DEF TypeInv
<1>3. BytesTyped'
  BY <1>2 DEF Sync, readerVars, TypeInv, BytesTyped
<1>4. Len(Written') = Len(Written)
  <2>1. Len(Written') = Len(disk') + Len(pend')
    BY <1>2 DEF Sync, Written
  <2> QED
    BY <1>2, <2>1 DEF Sync
<1>5. TypeOK'
  BY <1>1 DEF Sync, readerVars, TypeInv, TypeOK, OffsetInv
<1>6. CallInv'
  BY DEF Sync, TypeInv, CallInv, InRecord
<1> QED
  BY <1>1, <1>3, <1>4, <1>5, <1>6 DEF TypeInv

LEMMA CrashTypes == ASSUME TypeInv, Crash PROVE TypeInv' /\ wpc' = "dead"
<1>1. OffsetInv'
  BY CallsKeep DEF TypeInv
<1>2. /\ wpc' = "dead" /\ opens > 0 /\ rep' = <<>> /\ held' = 0 /\ pend' = <<>>
      /\ rest' = NoRest /\ UNCHANGED <<base, log, synced, opens, readerVars>>
  BY DEF Crash, Kill, PowerLoss, WriterGone, WriterAlive
<1>3. /\ flushed' \in 0 .. Len(log) /\ synced \in 0 .. flushed' /\ faults' \in 0 .. MaxFaults
  <2>1. /\ flushed \in 0 .. Len(log) /\ synced \in 0 .. flushed
        /\ faults \in 0 .. MaxFaults /\ Len(log) \in Nat
    BY DEF TypeInv, TypeOK
  <2>2. CASE flushed' = flushed /\ faults' = faults
    BY <2>1, <2>2
  <2>3. CASE flushed' = synced /\ (faults' = faults \/ (faults < MaxFaults /\ faults' = faults + 1))
    BY <2>1, <2>3
  <2>4. CASE Kill
    BY <2>2, <2>4 DEF Kill
  <2>5. ASSUME NEW k \in 0 .. Len(pend), PowerLoss(k)
        PROVE  /\ flushed' = synced
               /\ faults' = faults \/ (faults < MaxFaults /\ faults' = faults + 1)
    BY <2>5 DEF PowerLoss
  <2> QED
    BY <2>1, <2>3, <2>4, <2>5 DEF Crash
<1>4. disk' \in Seq(Cells)
  <2>1. CASE Kill
    BY <2>1, WrittenTyped DEF Kill, TypeInv
  <2>2. ASSUME NEW k \in 0 .. Len(pend), PowerLoss(k) PROVE disk' \in Seq(Cells)
    <3>1. disk \o SubSeq(pend, 1, k) \in Seq(Cells)
      BY Piece, Concat DEF TypeInv, BytesTyped
    <3>2. Len(pend) - k \in Nat
      BY DEF TypeInv, BytesTyped
    <3>3. disk \o SubSeq(pend, 1, k) \o [j \in 1 .. Len(pend) - k |-> Pad] \in Seq(Cells)
      BY <3>1, <3>2, Padding, Concat
    <3> QED
      BY <2>2, <3>1, <3>3 DEF PowerLoss
  <2> QED
    BY <2>1, <2>2 DEF Crash
<1>5. BytesTyped'
  BY <1>2, <1>4 DEF readerVars, TypeInv, BytesTyped
<1>6. TypeOK'
  BY <1>1, <1>2, <1>3 DEF readerVars, TypeInv, TypeOK, OffsetInv
<1>7. CallInv'
  BY <1>2 DEF TypeInv, CallInv, InRecord, NoRest, Ids
<1> QED
  BY <1>1, <1>2, <1>5, <1>6, <1>7 DEF TypeInv

\* A header in the buffer is that of a fragment, and whatever is there has a size.
LEMMA FoundTyped ==
    ASSUME BytesTyped, Len(buf) >= HeaderSize, WellFormed
    PROVE  Found \in Fragments
<1>1. buf[1] \in Cells /\ buf[1].part = "header"
  BY DEF BytesTyped, WellFormed
<1> QED
  BY <1>1 DEF Found, Cells, Pad

LEMMA SizesTyped ==
    ASSUME BytesTyped, Len(buf) >= HeaderSize PROVE Sizes \subseteq Nat
  BY FoundTyped DEF Sizes, Fragments

\* A reader that takes a fragment goes on behind it.
LEMMA TakenIs ==
    ASSUME BytesTyped, ReadFragment \/ ReadUnchecked
    PROVE  \E n \in Nat : /\ HeaderSize + n <= Len(buf)
                          /\ buf' = SubSeq(buf, HeaderSize + n + 1, Len(buf))
                          /\ rpc' \in {"read", "thrown"} /\ rpos' = rpos /\ eof' = eof
<1>1. CASE ReadFragment
  <2>1. Found.size \in Nat /\ HeaderSize + Found.size <= Len(buf) /\ Take(Found, Found.size)
    BY <1>1, FoundTyped DEF ReadFragment, Matches, Fragments
  <2> QED
    BY <2>1 DEF Take
<1>2. CASE ReadUnchecked
  <2>1. PICK n \in Sizes, t \in Types : HeaderSize + n <= Len(buf) /\ Take(Stray(t), n)
    BY <1>2 DEF ReadUnchecked
  <2>2. n \in Nat
    BY <1>2, SizesTyped DEF ReadUnchecked
  <2> QED
    BY <2>1, <2>2 DEF Take
<1> QED
  BY <1>1, <1>2

\* A reader changes nothing of the writer's, and holds a block at most.
LEMMA ReadTypes ==
    ASSUME TypeInv, ReaderOpen \/ Read
    PROVE  TypeInv' /\ UNCHANGED <<fileVars, writerVars>>
<1>1. OffsetInv'
  BY ReadsKeep DEF TypeInv
<1>2. UNCHANGED <<fileVars, writerVars>>
  BY DEF ReaderOpen, Read, ReadBlock, ReadEnd, ReadTooLong, ReadMismatch, ReadFragment,
         ReadUnchecked, ReadStep
<1>3. /\ buf' \in Seq(Cells) /\ Len(buf') <= BlockSize /\ rpos' \in Nat
      /\ eof' \in BOOLEAN /\ rpc' \in {"off", "read", "done", "thrown"}
  <2>1. buf \in Seq(Cells) /\ Len(buf) <= BlockSize /\ rpos \in Nat /\ eof \in BOOLEAN
    BY DEF TypeInv, TypeOK, BytesTyped
  <2>2. CASE ReadBlock
    <3> DEFINE n    == Len(File) - rpos
               size == IF n < 0 THEN 0 ELSE IF n < BlockSize THEN n ELSE BlockSize
    <3>1. File \in Seq(Cells)
      BY FileTyped DEF TypeInv
    <3>2. size \in 0 .. BlockSize /\ (size = 0 \/ rpos + size <= Len(File))
      BY <2>1, <3>1
    <3>3. /\ buf' = SubSeq(File, rpos + 1, rpos + size) /\ rpos' = rpos + size
          /\ eof' \in BOOLEAN /\ rpc' \in {"read", "done"}
      BY <2>2 DEF ReadBlock
    <3> HIDE DEF size
    <3>4. buf' \in Seq(Cells) /\ Len(buf') = size
      <4>1. CASE size = 0
        BY <2>1, <3>1, <3>3, <4>1
      <4>2. CASE size # 0
        BY <2>1, <3>1, <3>2, <3>3, <4>2, BytesFrom
      <4> QED
        BY <4>1, <4>2
    <3> QED
      BY <2>1, <3>2, <3>3, <3>4
  <2>3. CASE ReadFragment \/ ReadUnchecked
    <3>1. PICK n \in Nat : /\ HeaderSize + n <= Len(buf)
                           /\ buf' = SubSeq(buf, HeaderSize + n + 1, Len(buf))
                           /\ rpc' \in {"read", "thrown"} /\ rpos' = rpos /\ eof' = eof
      BY <2>3, TakenIs DEF TypeInv
    <3>2. HeaderSize + n + 1 \in Nat \ {0} /\ Len(buf) \in 0 .. Len(buf)
      BY <2>1
    <3>3. /\ buf' \in Seq(Cells)
          /\ Len(buf') = IF HeaderSize + n + 1 <= Len(buf)
                         THEN Len(buf) - (HeaderSize + n + 1) + 1 ELSE 0
      BY <2>1, <3>1, <3>2, Piece
    <3>4. Len(buf') <= BlockSize
      BY <2>1, <3>1, <3>3
    <3> QED
      BY <2>1, <3>1, <3>3, <3>4
  <2>4. CASE ReaderOpen \/ ReadEnd \/ ReadTooLong \/ ReadMismatch
    <3>1. /\ buf' = buf \/ buf' = <<>>
          /\ rpos' = rpos /\ eof' = eof /\ rpc' \in {"read", "done", "thrown"}
      BY <2>4 DEF ReaderOpen, ReadEnd, ReadTooLong, ReadMismatch, ReadStep
    <3>2. buf' \in Seq(Cells) /\ Len(buf') <= BlockSize
      <4>1. CASE buf' = buf
        BY <2>1, <4>1
      <4>2. CASE buf' = <<>>
        <5>1. buf' \in Seq(Cells) /\ Len(buf') = 0
          BY ONLY <4>2, EmptyTyped
        <5> QED
          BY <5>1
      <4> QED
        BY <3>1, <4>1, <4>2
    <3> QED
      BY <2>1, <3>1, <3>2
  <2> QED
    BY <2>2, <2>3, <2>4 DEF Read
<1>4. BytesTyped'
  BY <1>2, <1>3 DEF fileVars, writerVars, TypeInv, BytesTyped
<1>5. TypeOK'
  BY <1>2, <1>3 DEF fileVars, writerVars, TypeInv, TypeOK
<1>6. CallInv'
  BY <1>2 DEF fileVars, writerVars, TypeInv, CallInv, InRecord
<1> QED
  BY <1>1, <1>2, <1>4, <1>5, <1>6 DEF TypeInv

LEMMA StutterTypes == ASSUME TypeInv, UNCHANGED vars PROVE TypeInv'
<1>1. OffsetInv'
  BY StutterOffset DEF TypeInv
<1>2. BytesTyped' /\ TypeOK' /\ CallInv'
  BY DEF vars, fileVars, writerVars, readerVars, TypeInv, BytesTyped, TypeOK, CallInv, InRecord
<1> QED
  BY <1>1, <1>2 DEF TypeInv

-----------------------------------------------------------------------------
(* The offset of the writer and that of the file                            *)

\* From where the block of the writer starts, by its offset, to where what waits in
\* rep_ will end, back by what of a fragment is written: whole blocks.
Shift == Len(Written) + Len(rep) - blockOffset

AlignInv ==
    faults = 0 =>
        /\ wpc \in {"idle", "flush", "append", "header"} => Shift % BlockSize = 0
        /\ wpc = "data" => (Shift - HeaderSize) % BlockSize = 0

LEMMA ShiftTyped ==
    ASSUME TypeInv
    PROVE  Len(Written) \in Nat /\ Len(rep) \in Nat /\ blockOffset \in Nat /\ Shift \in Int
  BY WrittenTyped DEF TypeInv, BytesTyped, OffsetInv, Shift

LEMMA Wraps == ASSUME NEW a \in Int, NEW b \in Nat \ {0}, a % b = 0 PROVE (a + b) % b = 0
<1>1. PICK q \in Int : a = q * b
  OBVIOUS
<1> QED
  BY <1>1

LEMMA InitAligned == Init => AlignInv
  BY DEF Init, AlignInv

LEMMA WriterAligned == ASSUME TypeInv, AlignInv, WriterStep PROVE AlignInv'
<1>1. CASE Open
  <2>1. CASE rep = <<>>
    <3>1. Shift' = 0
      BY <1>1, <2>1 DEF Open, Shift, Written
    <3> QED
      BY <1>1, <3>1 DEF Open, AlignInv
  <2>2. CASE rep # <<>>
    BY <1>1, <2>2 DEF Open, AlignInv
  <2> QED
    BY <2>1, <2>2
<1>2. CASE Close
  BY <1>2 DEF Close, AlignInv
<1>3. ASSUME NEW n \in Lengths, AppendToBuffer(n) PROVE AlignInv'
  <2>1. n \in Nat /\ Len(rep') = Len(rep) + HeaderSize + n
    BY <1>3, AppendToBufferTypes
  <2>2. Written' = Written /\ blockOffset' = blockOffset + HeaderSize + n
    BY <1>3 DEF AppendToBuffer, fileVars, Written
  <2>3. Shift' = Shift
    BY <2>1, <2>2, ShiftTyped DEF Shift
  <2> QED
    BY <1>3, <2>3 DEF AppendToBuffer, fileVars, AlignInv
<1>4. ASSUME NEW n \in Lengths, AppendToFile(n) PROVE AlignInv'
  <2>1. Shift' = Shift
    BY <1>4 DEF AppendToFile, fileVars, Shift, Written
  <2> QED
    BY <1>4, <2>1 DEF AppendToFile, fileVars, AlignInv
<1>5. CASE FlushCall
  <2>1. Shift' = Shift
    BY <1>5 DEF FlushCall, fileVars, Shift, Written
  <2> QED
    BY <1>5, <2>1 DEF FlushCall, fileVars, AlignInv
<1>6. CASE FlushWrite
  <2> SUFFICES ASSUME faults' = 0 PROVE AlignInv'
    BY DEF AlignInv
  <2>1. /\ faults = 0 /\ Len(Written') = Len(Written) + Len(rep) /\ wpc' \in {"idle", "append"}
    BY <1>6, FlushWriteTypes
  <2>2. wpc = "flush" /\ Len(rep') = 0 /\ blockOffset' = blockOffset
    BY <1>6 DEF FlushWrite
  <2>3. Shift' = Shift
    BY <2>1, <2>2, ShiftTyped DEF Shift
  <2> QED
    BY <2>1, <2>2, <2>3 DEF AlignInv
<1>7. CASE AppendPad
  <2> SUFFICES ASSUME faults' = 0 PROVE AlignInv'
    BY DEF AlignInv
  <2>1. wpc = "append" /\ wpc' = "header" /\ rep' = rep
    BY <1>7 DEF AppendPad
  <2>2. /\ faults = 0
        /\ \/ blockOffset' = blockOffset /\ Len(Written') = Len(Written)
           \/ blockOffset' = 0 /\ Len(Written') = Len(Written) + BlockSize - blockOffset
    BY <1>7, AppendPadTypes
  <2>3. Shift' = Shift \/ Shift' = Shift + BlockSize
    <3>1. Shift' = Len(Written') + Len(rep) - blockOffset'
      BY <2>1 DEF Shift
    <3>2. Shift = Len(Written) + Len(rep) - blockOffset
      BY DEF Shift
    <3>3. CASE blockOffset' = blockOffset /\ Len(Written') = Len(Written)
      BY <3>1, <3>2, <3>3
    <3>4. CASE blockOffset' = 0 /\ Len(Written') = Len(Written) + BlockSize - blockOffset
      BY <3>1, <3>2, <3>4, ShiftTyped
    <3> QED
      BY <2>2, <3>3, <3>4
  <2>4. Shift % BlockSize = 0
    BY <2>1, <2>2 DEF AlignInv
  <2>5. Shift' % BlockSize = 0
    BY <2>3, <2>4, ShiftTyped, Wraps
  <2> QED
    BY <2>1, <2>5 DEF AlignInv
<1>8. CASE WriteHeader
  <2> SUFFICES ASSUME faults' = 0 PROVE AlignInv'
    BY DEF AlignInv
  <2>1. wpc = "header" /\ wpc' = "data" /\ rep' = rep /\ blockOffset' = blockOffset
    BY <1>8 DEF WriteHeader
  <2>2. faults = 0 /\ Len(Written') = Len(Written) + HeaderSize
    BY <1>8, WriteHeaderTypes
  <2>3. Shift' - HeaderSize = Shift
    BY <2>1, <2>2, ShiftTyped DEF Shift
  <2> QED
    BY <2>1, <2>2, <2>3 DEF AlignInv
<1>9. CASE WriteData
  <2> SUFFICES ASSUME faults' = 0 PROVE AlignInv'
    BY DEF AlignInv
  <2>1. wpc = "data" /\ rep' = rep
    BY <1>9 DEF WriteData
  <2>2. NextFragment.size \in Nat
    BY <2>1, NextTyped DEF TypeInv, CallInv
  <2>3. /\ faults = 0 /\ Len(Written') = Len(Written) + NextFragment.size
        /\ blockOffset' = blockOffset + HeaderSize + NextFragment.size
        /\ wpc' \in {"idle", "append"}
    BY <1>9, WriteDataTypes
  <2>4. Shift' = Shift - HeaderSize
    <3>1. Shift' = Len(Written') + Len(rep) - blockOffset'
      BY <2>1 DEF Shift
    <3>2. Shift = Len(Written) + Len(rep) - blockOffset
      BY DEF Shift
    <3>3. /\ Len(Written') = Len(Written) + NextFragment.size
          /\ blockOffset' = blockOffset + HeaderSize + NextFragment.size
      BY <2>3
    <3>4. Shift' = (Len(Written) + NextFragment.size) + Len(rep)
                       - (blockOffset + HeaderSize + NextFragment.size)
      BY ONLY <3>1, <3>3
    <3> DEFINE size == NextFragment.size  written == Len(Written)  waiting == Len(rep)
    <3>5. size \in Nat /\ written \in Nat /\ waiting \in Nat /\ blockOffset \in Nat
      BY <2>2, ShiftTyped
    <3> HIDE DEF size, written, waiting
    <3>6. (written + size) + waiting - (blockOffset + HeaderSize + size)
              = (written + waiting - blockOffset) - HeaderSize
      BY ONLY <3>5, SizeAssumption
    <3> QED
      BY ONLY <3>2, <3>4, <3>6 DEF size, written, waiting
  <2> QED
    BY <2>1, <2>3, <2>4 DEF AlignInv
<1>10. CASE WriteFails
  <2> SUFFICES ASSUME faults' = 0 PROVE AlignInv'
    BY DEF AlignInv
  <2>1. wpc' = "idle" /\ UNCHANGED <<disk, pend, rep, blockOffset>>
    BY <1>10 DEF WriteFails
  <2>2. faults = 0 /\ wpc \in {"flush", "append", "header"}
    BY <1>10 DEF WriteFails, TypeInv, TypeOK
  <2>3. Shift' = Shift
    BY <2>1 DEF Shift, Written
  <2> QED
    BY <2>1, <2>2, <2>3 DEF AlignInv
<1>11. CASE Sync
  <2>1. Len(Written') = Len(Written)
    BY <1>11, SyncTypes
  <2>2. Shift' = Shift
    BY <1>11, <2>1 DEF Sync, Shift
  <2> QED
    BY <1>11, <2>2 DEF Sync, AlignInv
<1> QED
  BY <1>1, <1>2, <1>3, <1>4, <1>5, <1>6, <1>7, <1>8, <1>9, <1>10, <1>11 DEF WriterStep, Append1

LEMMA AlignedKept ==
    ASSUME TypeInv, AlignInv, UNCHANGED <<fileVars, writerVars>> PROVE AlignInv'
  BY DEF fileVars, writerVars, AlignInv, Shift, Written

LEMMA WriterTypes == ASSUME TypeInv, WriterStep PROVE TypeInv'
<1>1. CASE Open \/ Close \/ Append1
  BY <1>1, OpenTypes, CloseTypes, AppendToBufferTypes, AppendToFileTypes DEF Append1
<1>2. CASE FlushCall \/ FlushWrite \/ Sync
  BY <1>2, FlushCallTypes, FlushWriteTypes, SyncTypes
<1>3. CASE AppendPad \/ WriteHeader \/ WriteData \/ WriteFails
  BY <1>3, AppendPadTypes, WriteHeaderTypes, WriteDataTypes, FailTypes
<1> QED
  BY <1>1, <1>2, <1>3 DEF WriterStep

LEMMA StepAligned ==
    ASSUME TypeInv, AlignInv, [Next]_vars PROVE TypeInv' /\ AlignInv'
<1>1. CASE WriterStep
  BY <1>1, WriterTypes, WriterAligned
<1>2. CASE Crash
  BY <1>2, CrashTypes DEF AlignInv
<1>3. CASE ReaderOpen \/ Read
  BY <1>3, ReadTypes, AlignedKept
<1>4. CASE UNCHANGED vars
  BY <1>4, StutterTypes, AlignedKept DEF vars
<1> QED
  BY <1>1, <1>2, <1>3, <1>4 DEF Next

\* While no write comes up short or fails, the state of the log has its types and block_offset_
\* says where in its block of the file the next header lands (wal_writer.cpp:81-160),
\* what waits in rep_ counted in.
THEOREM OffsetIsTheFiles == FairSpec => []BlockAligned
<1>1. TypeInv /\ AlignInv => BlockAligned
  BY DEF TypeInv, AlignInv, Shift, BlockAligned, NoFault
<1> QED
  BY InitTypes, InitAligned, StepAligned, <1>1, PTL DEF FairSpec, Spec

-----------------------------------------------------------------------------
(* The shape of what was written.  A mark is a place of the file at which a *)
(* reader may be, with what it has then.                                    *)

\* How far it is from byte q of the file to the end of its block
Room(q) == BlockSize - (q % BlockSize)

\* Fragment f as it is written; what of it there can be at byte q of X is there; all is.
Bytes(f)       == Header(f) \o Data(f)
BytesAt(f, q, X) == \A j \in 1 .. HeaderSize + f.size : q + j <= Len(X) => X[q + j] = Bytes(f)[j]
Whole(f, q, X)   == q + HeaderSize + f.size <= Len(X) /\ BytesAt(f, q, X)

Starts(f) == f.type \in {"full", "first"}
Ends(f)   == f.type \in {"full", "last"}

\* Record next of lg is to come, of which the reader has the first from bytes, and no
\* fragment if begin.
Marks(lg) == [at : Nat, next : 1 .. Len(lg) + 1, from : Nat, begin : BOOLEAN]
Marked(M, lg) ==
    /\ M \subseteq Marks(lg)
    /\ \A m \in M : /\ m.begin => m.from = 0
                    /\ ~m.begin => m.next <= Len(lg)
                    /\ m.next <= Len(lg) => m.from <= lg[m.next][3]
Start == [at |-> 0, next |-> 1, from |-> 0, begin |-> TRUE]

\* The marks behind m: the next block, and the end of a fragment of record n
Jump(m)       == [m EXCEPT !.at = @ + Room(m.at)]
Then(m, n, f) == [at    |-> m.at + HeaderSize + f.size,
                  next  |-> IF Ends(f) THEN n + 1 ELSE n,
                  from  |-> IF Ends(f) THEN 0 ELSE f.from + f.size,
                  begin |-> Ends(f)]

-----------------------------------------------------------------------------
(* Blocks                                                                   *)

LEMMA Split ==
    ASSUME NEW q \in Nat
    PROVE  \E k \in Nat, r \in 0 .. BlockSize - 1 : q = k * BlockSize + r /\ q % BlockSize = r
<1>1. BlockSize \in Nat \ {0}
  OBVIOUS
<1>2. q = (q \div BlockSize) * BlockSize + (q % BlockSize) /\ q % BlockSize \in 0 .. BlockSize - 1
  BY <1>1
<1>3. q \div BlockSize \in Nat
  BY <1>1
<1> QED
  BY <1>2, <1>3

LEMMA Quotient ==
    ASSUME NEW q \in Nat, NEW k \in Int, NEW r \in 0 .. BlockSize - 1, q = k * BlockSize + r
    PROVE  q % BlockSize = r
<1>1. BlockSize \in Nat \ {0}
  OBVIOUS
<1> QED
  BY <1>1

LEMMA RoomTyped == ASSUME NEW q \in Nat PROVE Room(q) \in 1 .. BlockSize
<1>1. BlockSize \in Nat \ {0}
  OBVIOUS
<1>2. q % BlockSize \in 0 .. BlockSize - 1
  BY <1>1
<1> QED
  BY <1>1, <1>2 DEF Room

\* On in the same block, and at the start of the next
LEMMA RoomLater ==
    ASSUME NEW q \in Nat, NEW d \in Nat, d < Room(q)
    PROVE  Room(q + d) = Room(q) - d
<1>1. PICK k \in Nat, r \in 0 .. BlockSize - 1 : q = k * BlockSize + r /\ q % BlockSize = r
  BY Split
<1>2. k * BlockSize \in Nat
  BY <1>1
<1>3. k \in Int /\ r + d \in 0 .. BlockSize - 1 /\ q + d \in Nat /\ q + d = k * BlockSize + (r + d)
  BY <1>1, <1>2 DEF Room
<1>4. (q + d) % BlockSize = r + d
  BY <1>3, Quotient
<1> QED
  BY <1>1, <1>4 DEF Room

LEMMA RoomNext == ASSUME NEW q \in Nat PROVE Room(q + Room(q)) = BlockSize
<1>1. PICK k \in Nat, r \in 0 .. BlockSize - 1 : q = k * BlockSize + r /\ q % BlockSize = r
  BY Split
<1>2. k * BlockSize \in Nat /\ (k + 1) * BlockSize = k * BlockSize + BlockSize
  OBVIOUS
<1>3. q + Room(q) = (k + 1) * BlockSize + 0 /\ q + Room(q) \in Nat
  BY <1>1, <1>2 DEF Room
<1>4. (q + Room(q)) % BlockSize = 0
  BY <1>3, Quotient
<1> QED
  BY <1>4 DEF Room

LEMMA RoomStart == ASSUME NEW q \in Nat, q % BlockSize = 0 PROVE Room(q) = BlockSize
  BY DEF Room

\* The room at q, when the start of its block is known to be o bytes back
LEMMA RoomAt ==
    ASSUME NEW q \in Nat, NEW o \in 0 .. BlockSize, (q - o) % BlockSize = 0
    PROVE  Room(q) = IF o = BlockSize THEN BlockSize ELSE BlockSize - o
<1>1. BlockSize \in Nat \ {0}
  OBVIOUS
<1>2. PICK k \in Int : q - o = k * BlockSize
  BY <1>1
<1>3. k * BlockSize \in Int /\ (k + 1) * BlockSize = k * BlockSize + BlockSize
  OBVIOUS
<1>4. CASE o = BlockSize
  <2>1. q = (k + 1) * BlockSize + 0
    BY <1>2, <1>3, <1>4
  <2>2. q % BlockSize = 0
    BY <2>1, Quotient
  <2> QED
    BY <1>4, <2>2 DEF Room
<1>5. CASE o # BlockSize
  <2>1. o \in 0 .. BlockSize - 1 /\ q = k * BlockSize + o
    BY <1>2, <1>3, <1>5
  <2>2. q % BlockSize = o
    BY <2>1, Quotient
  <2> QED
    BY <1>5, <2>2 DEF Room
<1> QED
  BY <1>4, <1>5

-----------------------------------------------------------------------------
(* Bytes                                                                    *)

LEMMA BytesAre ==
    ASSUME NEW f \in Fragments
    PROVE  /\ Bytes(f) \in Seq(Cells) /\ Len(Bytes(f)) = HeaderSize + f.size /\ f.size \in Nat
           /\ \A j \in 1 .. HeaderSize :
                  Bytes(f)[j] = [part |-> "header", at |-> j, frag |-> f]
           /\ \A j \in 1 .. f.size :
                  Bytes(f)[HeaderSize + j] = [part |-> "data", id |-> f.id, at |-> f.from + j]
           /\ \A j \in 1 .. f.size : Bytes(f)[HeaderSize + j] = Data(f)[j]
<1>1. f.size \in Nat
  BY DEF Fragments
<1>2. /\ Header(f) \in Seq(Cells) /\ Len(Header(f)) = HeaderSize
      /\ Data(f) \in Seq(Cells) /\ Len(Data(f)) = f.size
  BY FragmentBytes
<1>3. Bytes(f) \in Seq(Cells) /\ Len(Bytes(f)) = HeaderSize + f.size
  BY <1>2, Concat DEF Bytes
<1>4. ASSUME NEW j \in 1 .. HeaderSize
      PROVE  Bytes(f)[j] = [part |-> "header", at |-> j, frag |-> f]
  <2>1. Bytes(f)[j] = Header(f)[j]
    BY <1>2 DEF Bytes
  <2> QED
    BY <2>1 DEF Header
<1>5. ASSUME NEW j \in 1 .. f.size
      PROVE  /\ Bytes(f)[HeaderSize + j] = [part |-> "data", id |-> f.id, at |-> f.from + j]
             /\ Bytes(f)[HeaderSize + j] = Data(f)[j]
  <2>1. Bytes(f)[HeaderSize + j] = Data(f)[j]
    BY <1>1, <1>2 DEF Bytes
  <2> QED
    BY <2>1 DEF Data
<1> QED
  BY <1>1, <1>3, <1>4, <1>5

LEMMA FirstByte ==
    ASSUME NEW f \in Fragments
    PROVE  Bytes(f)[1] = [part |-> "header", at |-> 1, frag |-> f]
<1>1. 1 \in 1 .. HeaderSize
  OBVIOUS
<1> QED
  BY <1>1, BytesAre

-----------------------------------------------------------------------------
(* Growing                                                                  *)

\* V is the front of X.
FrontOf(V, X) == Len(V) <= Len(X) /\ \A i \in 1 .. Len(V) : V[i] = X[i]

LEMMA Added ==
    ASSUME NEW V \in Seq(Cells), NEW s \in Seq(Cells)
    PROVE  /\ V \o s \in Seq(Cells) /\ Len(V \o s) = Len(V) + Len(s) /\ FrontOf(V, V \o s)
           /\ \A j \in 1 .. Len(s) : (V \o s)[Len(V) + j] = s[j]
<1>1. V \o s \in Seq(Cells) /\ Len(V \o s) = Len(V) + Len(s)
  BY Concat
<1>2. \A i \in 1 .. Len(V) : (V \o s)[i] = V[i]
  OBVIOUS
<1>3. \A j \in 1 .. Len(s) : (V \o s)[Len(V) + j] = s[j]
  OBVIOUS
<1> QED
  BY <1>1, <1>2, <1>3 DEF FrontOf

\* What is in a file is in its front as far as that goes, and what is there in full in
\* the front is in the file.
LEMMA FrontBytes ==
    ASSUME NEW V \in Seq(Cells), NEW X \in Seq(Cells), FrontOf(V, X),
           NEW f \in Fragments, NEW q \in Nat
    PROVE  /\ BytesAt(f, q, X) => BytesAt(f, q, V)
           /\ q + HeaderSize + f.size <= Len(V) /\ BytesAt(f, q, V) => Whole(f, q, X)
<1>1. f.size \in Nat /\ Len(V) \in Nat /\ Len(X) \in Nat
  BY BytesAre
<1>2. ASSUME BytesAt(f, q, X) PROVE BytesAt(f, q, V)
  <2> SUFFICES ASSUME NEW j \in 1 .. HeaderSize + f.size, q + j <= Len(V)
               PROVE  V[q + j] = Bytes(f)[j]
    BY DEF BytesAt
  <2>1. q + j \in 1 .. Len(V) /\ q + j <= Len(X)
    BY <1>1 DEF FrontOf
  <2>2. X[q + j] = Bytes(f)[j]
    BY <1>2, <2>1 DEF BytesAt
  <2> QED
    BY <2>1, <2>2 DEF FrontOf
<1>3. ASSUME q + HeaderSize + f.size <= Len(V), BytesAt(f, q, V) PROVE Whole(f, q, X)
  <2>1. q + HeaderSize + f.size <= Len(X)
    BY <1>1, <1>3 DEF FrontOf
  <2>2. ASSUME NEW j \in 1 .. HeaderSize + f.size PROVE X[q + j] = Bytes(f)[j]
    <3>1. q + j \in 1 .. Len(V) /\ q + j <= Len(V)
      BY <1>1, <1>3
    <3>2. V[q + j] = Bytes(f)[j]
      BY <1>3, <3>1 DEF BytesAt
    <3> QED
      BY <3>1, <3>2 DEF FrontOf
  <2> QED
    BY <2>1, <2>2 DEF Whole, BytesAt
<1> QED
  BY <1>2, <1>3

-----------------------------------------------------------------------------
(* Marks                                                                    *)

\* f is the fragment of record n of lg that a reader at m may come upon.
Expected(f, m, n, lg) ==
    /\ f.id = lg[n] /\ f.from = m.from
    /\ ~m.begin => n = m.next
    /\ Ends(f) <=> f.from + f.size = lg[n][3]
Fits(f, m) == HeaderSize + f.size <= Room(m.at) /\ (Starts(f) <=> m.begin)

\* f is what comes next of record n.
Follows(f, n, lg) ==
    /\ f.id = lg[n] /\ f.from + f.size <= lg[n][3]
    /\ Starts(f) => f.from = 0
    /\ Ends(f) <=> f.from + f.size = lg[n][3]

LEMMA MarkTyped ==
    ASSUME NEW lg \in Seq(Records), NEW M, Marked(M, lg), NEW m \in M
    PROVE  /\ m.at \in Nat /\ m.next \in 1 .. Len(lg) + 1 /\ m.from \in Nat /\ m.begin \in BOOLEAN
           /\ m.begin => m.from = 0
           /\ ~m.begin => m.next <= Len(lg)
           /\ m.next <= Len(lg) => m.from <= lg[m.next][3]
           /\ Room(m.at) \in 1 .. BlockSize
           /\ m = [at |-> m.at, next |-> m.next, from |-> m.from, begin |-> m.begin]
<1>1. m \in [at : Nat, next : 1 .. Len(lg) + 1, from : Nat, begin : BOOLEAN]
  BY DEF Marked, Marks
<1>2. m.at \in Nat /\ m.next \in 1 .. Len(lg) + 1 /\ m.from \in Nat /\ m.begin \in BOOLEAN
  BY <1>1
<1>3. m = [at |-> m.at, next |-> m.next, from |-> m.from, begin |-> m.begin]
  BY <1>1
<1> QED
  BY <1>2, <1>3, RoomTyped DEF Marked

LEMMA JumpIs ==
    ASSUME NEW lg \in Seq(Records), NEW M, Marked(M, lg), NEW m \in M
    PROVE  /\ Jump(m).at = m.at + Room(m.at) /\ Jump(m).next = m.next
           /\ Jump(m).from = m.from /\ Jump(m).begin = m.begin
           /\ Jump(m) \in Marks(lg) /\ Room(Jump(m).at) = BlockSize
<1>1. /\ m = [at |-> m.at, next |-> m.next, from |-> m.from, begin |-> m.begin]
      /\ m.at \in Nat /\ m.next \in 1 .. Len(lg) + 1 /\ m.from \in Nat /\ m.begin \in BOOLEAN
      /\ Room(m.at) \in 1 .. BlockSize
  BY MarkTyped
<1> DEFINE to == m.at + Room(m.at)
<1>2. to \in Nat /\ Room(to) = BlockSize
  BY <1>1, RoomNext
<1>3. Jump(m) = [at |-> to, next |-> m.next, from |-> m.from, begin |-> m.begin]
  BY SMTT(15), <1>1 DEF Jump
<1> HIDE DEF to
<1>4. /\ Jump(m).at = to /\ Jump(m).next = m.next
      /\ Jump(m).from = m.from /\ Jump(m).begin = m.begin
  BY <1>3
<1>5. Jump(m) \in Marks(lg)
  BY <1>1, <1>2, <1>3 DEF Marks
<1> QED
  BY <1>2, <1>4, <1>5 DEF to

LEMMA RecordTyped ==
    ASSUME NEW lg \in Seq(Records), NEW n \in 1 .. Len(lg)
    PROVE  lg[n] \in Records /\ lg[n] \in Ids /\ lg[n][3] \in Nat
<1>1. lg[n] \in Records
  OBVIOUS
<1>2. lg[n][3] \in Lengths
  BY <1>1 DEF Records
<1> QED
  BY <1>1, <1>2 DEF Ids

\* The mark behind fragment f of record n
LEMMA ThenIs ==
    ASSUME NEW lg \in Seq(Records), NEW M, Marked(M, lg), NEW m \in M,
           NEW f \in Fragments, NEW n \in 1 .. Len(lg)
    PROVE  /\ Then(m, n, f).at = m.at + HeaderSize + f.size
           /\ Then(m, n, f).begin = Ends(f)
           /\ Ends(f) => Then(m, n, f).next = n + 1 /\ Then(m, n, f).from = 0
           /\ ~Ends(f) => Then(m, n, f).next = n /\ Then(m, n, f).from = f.from + f.size
           /\ Then(m, n, f) \in Marks(lg)
<1>1. m.at \in Nat /\ f.size \in Nat /\ f.from \in Nat
  BY MarkTyped, BytesAre DEF Fragments
<1>2. Ends(f) \in BOOLEAN
  BY DEF Ends
<1> DEFINE t == Then(m, n, f)
<1>3. /\ t.at = m.at + HeaderSize + f.size /\ t.begin = Ends(f)
      /\ t.next = (IF Ends(f) THEN n + 1 ELSE n)
      /\ t.from = (IF Ends(f) THEN 0 ELSE f.from + f.size)
  BY DEF Then
<1>4. m.at + HeaderSize + f.size \in Nat /\ n + 1 \in 1 .. Len(lg) + 1 /\ n \in 1 .. Len(lg) + 1
  BY <1>1
<1>5. t \in Marks(lg)
  BY <1>1, <1>2, <1>4 DEF Then, Marks
<1> QED
  BY <1>3, <1>5

LEMMA StartMarked ==
    ASSUME NEW lg \in Seq(Records) PROVE Marked({Start}, lg)
<1>1. /\ Start.at = 0 /\ Start.next = 1 /\ Start.from = 0 /\ Start.begin = TRUE
      /\ Start \in Marks(lg)
  BY DEF Start, Marks
<1>2. 1 <= Len(lg) => lg[1][3] \in Nat
  BY RecordTyped
<1> QED
  BY <1>1, <1>2 DEF Marked

\* The marks up to byte n
Upto(M, n) == {m \in M : m.at <= n}

LEMMA UptoMarked ==
    ASSUME NEW lg \in Seq(Records), NEW M, Marked(M, lg), NEW n \in Nat
    PROVE  /\ Marked(Upto(M, n), lg) /\ Upto(M, n) \subseteq M
           /\ Start \in M => Start \in Upto(M, n)
<1>1. Start.at <= n
  BY DEF Start
<1> QED
  BY <1>1 DEF Marked, Upto

\* A record more is appended.
LEMMA MoreRecords ==
    ASSUME NEW lg \in Seq(Records), NEW r \in Records, NEW M, Marked(M, lg)
    PROVE  /\ Append(lg, r) \in Seq(Records) /\ Len(Append(lg, r)) = Len(lg) + 1
           /\ \A i \in 1 .. Len(lg) : Append(lg, r)[i] = lg[i]
           /\ Append(lg, r)[Len(lg) + 1] = r
           /\ Marked(M, Append(lg, r))
<1> DEFINE lh == Append(lg, r)
<1>1. /\ lh \in Seq(Records) /\ Len(lh) = Len(lg) + 1 /\ Len(lg) \in Nat
      /\ \A i \in 1 .. Len(lg) : lh[i] = lg[i]
      /\ lh[Len(lg) + 1] = r
  OBVIOUS
<1> HIDE DEF lh
<1>2. r[3] \in Nat
  BY DEF Records
<1>3. Marked(M, lh)
  <2> SUFFICES ASSUME NEW m \in M
               PROVE  /\ m \in Marks(lh)
                      /\ m.begin => m.from = 0
                      /\ ~m.begin => m.next <= Len(lh)
                      /\ m.next <= Len(lh) => m.from <= lh[m.next][3]
    BY DEF Marked
  <2>1. /\ m.at \in Nat /\ m.next \in 1 .. Len(lg) + 1 /\ m.from \in Nat /\ m.begin \in BOOLEAN
        /\ m.begin => m.from = 0
        /\ ~m.begin => m.next <= Len(lg)
        /\ m.next <= Len(lg) => m.from <= lg[m.next][3]
        /\ m = [at |-> m.at, next |-> m.next, from |-> m.from, begin |-> m.begin]
    BY MarkTyped
  <2>2. m.next \in 1 .. Len(lh) + 1
    BY <1>1, <2>1
  <2>3. m \in Marks(lh)
    BY <2>1, <2>2 DEF Marks
  <2>4. m.from <= lh[m.next][3]
    <3>1. CASE m.next <= Len(lg)
      BY <1>1, <2>1, <3>1
    <3>2. CASE m.next = Len(lg) + 1
      <4>1. m.from = 0
        BY <1>1, <2>1, <3>2
      <4> QED
        BY <1>1, <1>2, <3>2, <4>1
    <3> QED
      BY <1>1, <2>1, <3>1, <3>2
  <2> QED
    BY <1>1, <2>1, <2>3, <2>4
<1> QED
  BY <1>1, <1>3 DEF lh

-----------------------------------------------------------------------------
(* The calls of the writer                                                  *)

\* Once a header of it is written, the record that AppendRecord writes is the last of the log.
RestInv ==
    /\ rep = <<>> <=> held = 0
    /\ wpc \in {"idle", "closed", "dead"} => rest = NoRest
    /\ wpc = "dead" => rep = <<>>
    /\ wpc = "flush" => rest.begin
    /\ wpc \in {"append", "header", "data"} => rep = <<>> /\ rest # NoRest
    /\ rest # NoRest => rest.from + rest.size = rest.id[3] /\ (rest.begin => rest.from = 0)
    /\ wpc = "data" \/ ~rest.begin =>
           log # <<>> /\ rest.id = log[Len(log)] /\ flushed < Len(log)

LEMMA InitRest == Init => RestInv
  BY DEF Init, RestInv, NoRest

LEMMA NotEmpty == ASSUME NEW S, NEW s \in Seq(S) PROVE s = <<>> <=> Len(s) = 0
  OBVIOUS

\* A record that is appended has its length, and is not none.
LEMMA LastIs ==
    ASSUME TypeInv, wpc = "idle", NEW n \in Lengths
    PROVE  NextId(n)[3] = n /\ n \in Nat /\ NextId(n) # NoRest.id
<1>1. opens # 0
  BY DEF TypeInv, TypeOK, CallInv
<1>2. NextId(n)[1] = opens /\ NextId(n)[3] = n /\ <<0, 0, 0>>[1] = 0
  BY DEF NextId
<1> QED
  BY <1>1, <1>2 DEF NoRest

LEMMA AppendsRest ==
    ASSUME TypeInv, RestInv, NEW n \in Lengths, AppendToBuffer(n) \/ AppendToFile(n)
    PROVE  RestInv'
<1>1. wpc = "idle" /\ flushed' = flushed /\ rest = NoRest /\ rest.begin
  <2>1. wpc = "idle" /\ flushed' = flushed
    BY DEF AppendToBuffer, AppendToFile
  <2> QED
    BY <2>1 DEF RestInv, NoRest
<1>2. NextId(n)[3] = n /\ n \in Nat /\ NextId(n) # NoRest.id
  BY <1>1, LastIs
<1>3. CASE AppendToBuffer(n)
  <2>1. rest' = rest /\ wpc' = "idle" /\ held' = held + 1 /\ held \in Nat
    BY <1>1, <1>3 DEF AppendToBuffer, TypeInv, TypeOK
  <2>2. Len(rep') = Len(rep) + HeaderSize + n /\ rep' \in Seq(Cells) /\ Len(rep) \in Nat
    BY <1>3, AppendToBufferTypes DEF TypeInv, BytesTyped
  <2>3. Len(rep') # 0
    BY <1>2, <2>2
  <2>4. rep' # <<>>
    BY <2>2, <2>3, NotEmpty
  <2> QED
    BY <1>1, <2>1, <2>4 DEF RestInv
<1>4. CASE AppendToFile(n)
  <2>1. /\ rest' = [id |-> NextId(n), from |-> 0, size |-> n, begin |-> TRUE] /\ rep' = rep
        /\ wpc' = (IF rep = <<>> THEN "append" ELSE "flush") /\ held' = held
    BY <1>4 DEF AppendToFile
  <2>2. rest'.id = NextId(n) /\ rest'.from = 0 /\ rest'.size = n /\ rest'.begin
    BY <2>1
  <2>3. rest' # NoRest
    BY <1>2, <2>2
  <2> QED
    BY <1>1, <1>2, <2>1, <2>2, <2>3 DEF RestInv
<1> QED
  BY <1>3, <1>4

LEMMA LoopRest ==
    ASSUME TypeInv, RestInv, AppendPad \/ WriteHeader \/ WriteData \/ WriteFails
    PROVE  RestInv'
<1>1. CASE AppendPad
  BY <1>1 DEF AppendPad, RestInv
<1>2. CASE WriteHeader
  <2>1. /\ wpc = "header" /\ wpc' = "data" /\ rest' = rest /\ rep' = rep /\ held' = held
        /\ flushed' = flushed /\ log' = IF rest.begin THEN Append(log, rest.id) ELSE log
    BY <1>2 DEF WriteHeader
  <2>2. log \in Seq(Records) /\ flushed \in 0 .. Len(log)
    BY DEF TypeInv, TypeOK
  <2>3. log' # <<>> /\ rest.id = log'[Len(log')] /\ flushed < Len(log')
    <3>1. CASE rest.begin
      <4>1. rest.id \in Records
        BY <2>1 DEF TypeInv, CallInv, InRecord
      <4>2. log' = Append(log, rest.id)
        BY <2>1, <3>1
      <4>3. log' # <<>> /\ Len(log') = Len(log) + 1 /\ log'[Len(log) + 1] = rest.id
        BY <2>2, <4>1, <4>2
      <4> QED
        BY <2>2, <4>3
    <3>2. CASE ~rest.begin
      BY <2>1, <3>2 DEF RestInv
    <3> QED
      BY <3>1, <3>2
  <2> QED
    BY <2>1, <2>3 DEF RestInv
<1>3. CASE WriteData
  <2> DEFINE size == NextFragment.size
  <2>1. size \in Nat /\ rep = <<>> /\ rest # NoRest
    BY <1>3, NextTyped DEF WriteData, TypeInv, OffsetInv, RestInv
  <2>2. /\ log' = log /\ rep' = rep /\ held' = held /\ wpc = "data"
        /\ \/ wpc' = "idle" /\ rest' = NoRest
           \/ /\ wpc' = "append" /\ flushed' = flushed
              /\ rest' = [rest EXCEPT !.from = @ + size, !.size = @ - size, !.begin = FALSE]
    BY <1>3 DEF WriteData
  <2> HIDE DEF size
  <2>3. CASE wpc' = "idle" /\ rest' = NoRest
    BY <2>2, <2>3 DEF RestInv, NoRest
  <2>4. CASE /\ wpc' = "append" /\ flushed' = flushed
             /\ rest' = [rest EXCEPT !.from = @ + size, !.size = @ - size, !.begin = FALSE]
    <3>1. rest \in [id : Ids, from : Nat, size : Nat, begin : BOOLEAN]
      BY DEF TypeInv, CallInv
    <3>2. /\ rest'.id = rest.id /\ rest'.from = rest.from + size
          /\ rest'.size = rest.size - size /\ rest'.begin = FALSE
      BY <2>4, <3>1
    <3>3. rest' # NoRest
      BY <3>2 DEF NoRest
    <3>4. rest'.from + rest'.size = rest.from + rest.size
      BY <2>1, <3>1, <3>2
    <3>5. /\ log # <<>> /\ rest.id = log[Len(log)] /\ rest.from + rest.size = rest.id[3]
          /\ flushed < Len(log)
      BY <2>1, <2>2 DEF RestInv
    <3> QED
      BY <2>1, <2>2, <2>4, <3>2, <3>3, <3>4, <3>5 DEF RestInv
  <2> QED
    BY <2>2, <2>3, <2>4
<1>4. CASE WriteFails
  BY <1>4 DEF WriteFails, RestInv, NoRest
<1> QED
  BY <1>1, <1>2, <1>3, <1>4

LEMMA CallsRest ==
    ASSUME TypeInv, RestInv, Open \/ Close \/ FlushCall \/ FlushWrite \/ Sync \/ Crash
    PROVE  RestInv'
<1>1. CASE Open
  BY <1>1 DEF Open, RestInv, NoRest
<1>2. CASE Close
  BY <1>2 DEF Close, RestInv
<1>3. CASE FlushCall
  BY <1>3 DEF FlushCall, RestInv, NoRest
<1>4. CASE FlushWrite
  BY <1>4 DEF FlushWrite, RestInv, NoRest
<1>5. CASE Sync
  BY <1>5 DEF Sync, RestInv
<1>6. CASE Crash
  <2>1. wpc' = "dead" /\ rep' = <<>> /\ held' = 0 /\ rest' = NoRest
    BY <1>6 DEF Crash, Kill, PowerLoss, WriterGone
  <2> QED
    BY <2>1 DEF RestInv, NoRest
<1> QED
  BY <1>1, <1>2, <1>3, <1>4, <1>5, <1>6

LEMMA WriterRest == ASSUME TypeInv, RestInv, WriterStep \/ Crash PROVE RestInv'
  BY AppendsRest, LoopRest, CallsRest DEF WriterStep, Append1

LEMMA KeptRest == ASSUME RestInv, UNCHANGED writerVars PROVE RestInv'
  BY DEF writerVars, RestInv

LEMMA Assoc ==
    ASSUME NEW S, NEW a \in Seq(S), NEW b \in Seq(S), NEW c \in Seq(S)
    PROVE  (a \o b) \o c = a \o (b \o c)
  OBVIOUS

LEMMA NothingAdded == ASSUME NEW S, NEW a \in Seq(S) PROVE a \o <<>> = a /\ <<>> \o a = a
  OBVIOUS

-----------------------------------------------------------------------------
(* What is written                                                          *)

\* A full record
FullIs(f, r) == f \in Fragments /\ f.id = r /\ f.from = 0 /\ f.size = r[3] /\ f.type = "full"

LEMMA FullFragment ==
    ASSUME NEW r \in Records PROVE FullIs(Fragment(r, 0, r[3], TRUE, TRUE), r)
<1>1. r \in Ids /\ r[3] \in Nat
  BY DEF Ids, Records
<1>2. Fragment(r, 0, r[3], TRUE, TRUE) \in Fragments
  BY <1>1, FragmentTyped
<1> QED
  BY <1>2 DEF FullIs, Fragment

\* What the writer has written, and what waits behind it; and the record whose header
\* comes next
Stream == Written \o rep
Coming == IF wpc = "data" \/ ~rest.begin THEN Len(log) ELSE Len(log) + 1

LEMMA StreamTyped ==
    ASSUME TypeInv
    PROVE  /\ Stream \in Seq(Cells) /\ Len(Stream) = Len(Written) + Len(rep)
           /\ Written \in Seq(Cells) /\ Len(Written) \in Nat /\ rep \in Seq(Cells)
           /\ FrontOf(Written, Stream)
           /\ rep = <<>> => Stream = Written
<1>1. Written \in Seq(Cells) /\ rep \in Seq(Cells)
  BY WrittenTyped DEF TypeInv, BytesTyped
<1>2. Stream \in Seq(Cells) /\ Len(Stream) = Len(Written) + Len(rep) /\ FrontOf(Written, Stream)
  BY <1>1, Added DEF Stream
<1>3. rep = <<>> => Stream = Written
  BY <1>1, NothingAdded DEF Stream
<1> QED
  BY <1>1, <1>2, <1>3

LEMMA LogTyped ==
    ASSUME TypeInv
    PROVE  log \in Seq(Records) /\ Len(log) \in Nat /\ flushed \in 0 .. Len(log)
  BY DEF TypeInv, TypeOK

\* All of s is written, or the beginning of it.
Grown(s) ==
    \E t \in Seq(Cells) :
        /\ Written' = Written \o t /\ FrontOf(t, s)
        /\ \/ t = s /\ faults' = faults
           \/ Len(t) \in 1 .. Len(s) - 1 /\ faults' = faults + 1

LEMMA WriteGrows ==
    ASSUME TypeInv, NEW s \in Seq(Cells), Write(s)
    PROVE  Grown(s) /\ base' = base /\ disk' = disk
<1>1. disk \in Seq(Cells) /\ pend \in Seq(Cells) /\ disk' = disk /\ base' = base
  BY DEF TypeInv, BytesTyped, Write
<1>2. ASSUME NEW t \in Seq(Cells), pend' = pend \o t PROVE Written' = Written \o t
  <2>1. Written' = disk \o (pend \o t)
    BY <1>1, <1>2 DEF Written
  <2>2. (disk \o pend) \o t = disk \o (pend \o t)
    BY ONLY SMTT(15), <1>1, t \in Seq(Cells), Assoc
  <2> QED
    BY <2>1, <2>2 DEF Written
<1>3. CASE pend' = pend \o s /\ faults' = faults
  <2>1. FrontOf(s, s)
    BY DEF FrontOf
  <2> QED
    BY <1>1, <1>2, <1>3, <2>1 DEF Grown
<1>4. CASE /\ faults' = faults + 1
           /\ \E k \in 1 .. Len(s) - 1 : pend' = pend \o SubSeq(s, 1, k)
  <2>1. PICK k \in 1 .. Len(s) - 1 : pend' = pend \o SubSeq(s, 1, k)
    BY <1>4
  <2>2. k \in 0 .. Len(s) /\ 1 \in Nat \ {0} /\ 1 <= k
    OBVIOUS
  <2> DEFINE t == SubSeq(s, 1, k)
  <2>3. t \in Seq(Cells) /\ Len(t) = k
    BY <2>2, Piece
  <2>4. FrontOf(t, s)
    BY <2>2, <2>3 DEF FrontOf
  <2>5. Written' = Written \o t
    BY <1>2, <2>1, <2>3
  <2>6. Len(t) \in 1 .. Len(s) - 1
    BY <2>3
  <2> HIDE DEF t
  <2> QED
    BY <1>1, <1>4, <2>3, <2>4, <2>5, <2>6 DEF Grown
<1> QED
  BY <1>3, <1>4 DEF Write

\* What was written goes behind what was written before.
LEMMA GrownFront ==
    ASSUME TypeInv, NEW s \in Seq(Cells), NEW t \in Seq(Cells), Written' = Written \o t
    PROVE  /\ Written' \in Seq(Cells) /\ Len(Written') = Len(Written) + Len(t)
           /\ FrontOf(Written, Written')
           /\ \A j \in 1 .. Len(t) : Written'[Len(Written) + j] = t[j]
  BY Added, StreamTyped

-----------------------------------------------------------------------------
LEMMA FragmentIs ==
    ASSUME NEW id, NEW from, NEW size, NEW begin \in BOOLEAN, NEW end \in BOOLEAN
    PROVE  LET f == Fragment(id, from, size, begin, end) IN
           f.id = id /\ f.from = from /\ f.size = size /\ Starts(f) = begin /\ Ends(f) = end
<1> DEFINE f == Fragment(id, from, size, begin, end)
<1>1. /\ f.id = id /\ f.from = from /\ f.size = size
      /\ f.type = IF begin /\ end THEN "full" ELSE IF begin THEN "first"
                  ELSE IF end THEN "last" ELSE "middle"
  BY DEF Fragment
<1> HIDE DEF f
<1>2. Starts(f) = begin /\ Ends(f) = end
  BY <1>1 DEF Starts, Ends
<1> QED
  BY <1>1, <1>2 DEF f

\* The record that comes next is not flushed.
LEMMA ComingIs ==
    ASSUME TypeInv, RestInv
    PROVE  Coming \in Nat /\ Coming \in Len(log) .. Len(log) + 1 /\ flushed < Coming
<1>1. Len(log) \in Nat /\ flushed \in 0 .. Len(log)
  BY LogTyped
<1>2. \/ Coming = Len(log) /\ flushed < Len(log)
      \/ Coming = Len(log) + 1
  BY DEF Coming, RestInv
<1> QED
  BY <1>1, <1>2

\* The fragment that the writer writes
LEMMA NextIs ==
    ASSUME TypeInv, RestInv, wpc \in {"header", "data"}
    PROVE  LET f == NextFragment IN
           /\ f \in Fragments /\ f.id = rest.id /\ f.from = rest.from
           /\ Starts(f) = rest.begin /\ (Ends(f) <=> f.size = rest.size)
           /\ f.size \in 0 .. rest.size /\ rep = <<>>
           /\ Coming \in Nat /\ Coming \in Len(log) .. Len(log) + 1
           /\ wpc = "data" => Coming = Len(log) /\ Coming \in 1 .. Len(log)
<1> DEFINE avail == BlockSize - blockOffset - HeaderSize
           size  == IF rest.size < avail THEN rest.size ELSE avail
           f     == NextFragment
<1>1. f \in Fragments /\ f.size \in 0 .. rest.size
  BY NextTyped
<1>2. rest \in [id : Ids, from : Nat, size : Nat, begin : BOOLEAN] /\ log \in Seq(Records)
  BY LogTyped DEF TypeInv, CallInv
<1>3. rep = <<>>
  BY DEF RestInv
<1>4. /\ Coming \in Nat /\ Coming \in Len(log) .. Len(log) + 1
      /\ wpc = "data" => Coming = Len(log) /\ Coming \in 1 .. Len(log)
  <2>1. Coming = Len(log) \/ Coming = Len(log) + 1
    BY DEF Coming
  <2>2. wpc = "data" => log # <<>> /\ Coming = Len(log)
    BY DEF Coming, RestInv
  <2> QED
    BY <1>2, <2>1, <2>2, LogTyped, NotEmpty
<1>5. f = Fragment(rest.id, rest.from, size, rest.begin, size = rest.size)
  BY DEF NextFragment
<1>6. rest.begin \in BOOLEAN
  BY <1>2
<1> HIDE DEF size, f
<1>7. PICK end \in BOOLEAN : end <=> size = rest.size
  OBVIOUS
<1>8. f = Fragment(rest.id, rest.from, size, rest.begin, end)
  <2>1. (size = rest.size) = end
    BY <1>7
  <2> QED
    BY <1>5, <2>1
<1>9. /\ f.id = rest.id /\ f.from = rest.from /\ f.size = size
      /\ Starts(f) = rest.begin /\ Ends(f) = end
  BY <1>6, <1>8, FragmentIs
<1> QED
  BY <1>1, <1>3, <1>4, <1>7, <1>9 DEF f

\* Where the writer puts a header there is room for it.
LEMMA RoomForHeader ==
    ASSUME TypeInv, AlignInv, RestInv, faults = 0, wpc = "header"
    PROVE  Room(Len(Written)) = BlockSize - blockOffset /\ Room(Len(Written)) >= HeaderSize
<1>1. /\ Len(Written) \in Nat /\ rep = <<>> /\ Len(rep) = 0 /\ blockOffset \in 0 .. BlockSize
      /\ blockOffset + HeaderSize <= BlockSize
  BY StreamTyped DEF RestInv, TypeInv, OffsetInv
<1>2. (Len(Written) - blockOffset) % BlockSize = 0
  <2>1. Shift % BlockSize = 0
    BY DEF AlignInv
  <2>2. Shift = Len(Written) - blockOffset
    BY <1>1 DEF Shift
  <2> QED
    BY <2>1, <2>2
<1>3. Room(Len(Written)) = IF blockOffset = BlockSize THEN BlockSize ELSE BlockSize - blockOffset
  BY <1>1, <1>2, RoomAt
<1> QED
  BY <1>1, <1>3

LEMMA IdleIs ==
    ASSUME TypeInv, RestInv, wpc = "idle"
    PROVE  rest = NoRest /\ Coming = Len(log) + 1
  BY DEF RestInv, Coming, NoRest

\* What survives a power failure is the front of what was written.
LEMMA WhatSurvives ==
    ASSUME TypeInv, NEW k \in 0 .. Len(pend), NEW V, V = disk \o SubSeq(pend, 1, k)
    PROVE  /\ V \in Seq(Cells) /\ Len(V) = Len(disk) + k
           /\ FrontOf(V, Written) /\ FrontOf(V, Stream)
<1>1. /\ disk \in Seq(Cells) /\ pend \in Seq(Cells) /\ Len(pend) \in Nat /\ Len(disk) \in Nat
      /\ k \in Nat
  BY DEF TypeInv, BytesTyped
<1>2. PICK s : s = SubSeq(pend, 1, k)
  OBVIOUS
<1>3. s \in Seq(Cells) /\ Len(s) = k /\ \A j \in 1 .. k : s[j] = pend[j]
  <2>1. 1 \in Nat \ {0} /\ k \in 0 .. Len(pend)
    BY <1>1
  <2>2. s \in Seq(Cells) /\ Len(s) = k
    BY <1>1, <1>2, <2>1, Piece
  <2>3. \A j \in 1 .. k : s[j] = pend[j]
    BY <1>1, <1>2
  <2> QED
    BY <2>2, <2>3
<1>4. /\ V \in Seq(Cells) /\ Len(V) = Len(disk) + k /\ FrontOf(disk, V)
      /\ \A j \in 1 .. k : V[Len(disk) + j] = pend[j]
  <2>1. /\ V \in Seq(Cells) /\ Len(V) = Len(disk) + Len(s) /\ FrontOf(disk, V)
        /\ \A j \in 1 .. Len(s) : V[Len(disk) + j] = s[j]
    BY <1>1, <1>2, <1>3, Added
  <2> QED
    BY <1>3, <2>1
<1>5. /\ Len(Written) = Len(disk) + Len(pend) /\ FrontOf(disk, Written)
      /\ \A j \in 1 .. Len(pend) : Written[Len(disk) + j] = pend[j]
  BY <1>1, Added DEF Written
<1>6. Len(V) <= Len(Written)
  BY <1>1, <1>4, <1>5
<1>7. ASSUME NEW i \in 1 .. Len(V) PROVE V[i] = Written[i]
  <2>1. CASE i <= Len(disk)
    BY <1>1, <1>4, <1>5, <2>1 DEF FrontOf
  <2>2. CASE i > Len(disk)
    <3>1. i - Len(disk) \in 1 .. k /\ i = Len(disk) + (i - Len(disk))
      BY <1>1, <1>4, <2>2
    <3>2. PICK j \in 1 .. k : i = Len(disk) + j
      BY <3>1
    <3>3. j \in 1 .. Len(pend)
      BY <1>1
    <3> QED
      BY <1>4, <1>5, <3>2, <3>3
  <2> QED
    BY <1>1, <1>4, <2>1, <2>2
<1>8. FrontOf(Written, Stream) /\ Len(Written) \in Nat /\ Len(Stream) \in Nat
  BY StreamTyped
<1>9. FrontOf(V, Written)
  BY <1>6, <1>7 DEF FrontOf
<1>10. FrontOf(V, Stream)
  BY <1>4, <1>6, <1>7, <1>8 DEF FrontOf
<1> QED
  BY <1>4, <1>9, <1>10

LEMMA SameSequence ==
    ASSUME NEW S, NEW s \in Seq(S), NEW t \in Seq(S), Len(s) = Len(t),
           \A i \in 1 .. Len(s) : s[i] = t[i]
    PROVE  s = t
  OBVIOUS

-----------------------------------------------------------------------------
(* A file that is not damaged                                               *)

\* What there is at a mark, and where it goes on
Due(m, lg) ==
    LET left  == lg[m.next][3] - m.from
        avail == Room(m.at) - HeaderSize
        size  == IF left < avail THEN left ELSE avail
    IN Fragment(lg[m.next], m.from, size, m.begin, size = left)
After(m, lg) == IF Room(m.at) < HeaderSize THEN Jump(m) ELSE Then(m, m.next, Due(m, lg))

Path(M, X, lg) ==
    \A m \in M : m.at < Len(X) =>
        /\ Room(m.at) >= HeaderSize => m.next <= Len(lg) /\ BytesAt(Due(m, lg), m.at, X)
        /\ After(m, lg).at <= Len(X) => After(m, lg) \in M

\* m is done with at t; t is the last one.
Behind(m, t, lg)   == m.at < t.at /\ After(m, lg).at <= t.at /\ m.next <= t.next
LastMark(M, t, lg) == t \in M /\ \A m \in M : m = t \/ Behind(m, t, lg)

\* There is a fragment at m.
Holds(m, lg) == Room(m.at) >= HeaderSize => m.next <= Len(lg)

LEMMA DueIs ==
    ASSUME NEW lg \in Seq(Records), NEW M, Marked(M, lg), NEW m \in M,
           Room(m.at) >= HeaderSize, m.next <= Len(lg)
    PROVE  LET f == Due(m, lg) IN
           /\ f \in Fragments /\ f.size \in Nat /\ HeaderSize + f.size <= Room(m.at)
           /\ Follows(f, m.next, lg) /\ Expected(f, m, m.next, lg) /\ Fits(f, m)
           /\ m.next \in 1 .. Len(lg)
<1> DEFINE left  == lg[m.next][3] - m.from
           avail == Room(m.at) - HeaderSize
           size  == IF left < avail THEN left ELSE avail
           f     == Due(m, lg)
<1>1. /\ m.at \in Nat /\ m.next \in 1 .. Len(lg) + 1 /\ m.from \in Nat /\ m.begin \in BOOLEAN
      /\ m.begin => m.from = 0
      /\ m.from <= lg[m.next][3] /\ Room(m.at) \in 1 .. BlockSize
  BY MarkTyped
<1>2. m.next \in 1 .. Len(lg) /\ lg[m.next] \in Ids /\ lg[m.next][3] \in Nat
  <2>1. Len(lg) \in Nat
    OBVIOUS
  <2>2. m.next \in 1 .. Len(lg)
    BY <1>1, <2>1
  <2> QED
    BY <2>2, RecordTyped
<1>3. left \in Nat /\ avail \in Nat
  BY SMTT(15), <1>1, <1>2
<1>4. f = Fragment(lg[m.next], m.from, size, m.begin, size = left)
  BY DEF Due
<1>5. size \in Nat /\ size <= left /\ size <= avail
  BY <1>3
<1>6. m.from + size <= lg[m.next][3] /\ (size = left <=> m.from + size = lg[m.next][3])
  <2>1. /\ lg[m.next][3] \in Nat /\ m.from \in Nat /\ m.from <= lg[m.next][3]
        /\ left = lg[m.next][3] - m.from
    BY <1>1, <1>2
  <2> HIDE DEF left, size
  <2> QED
    BY ONLY <1>5, <2>1
<1>7. HeaderSize + size <= Room(m.at)
  BY <1>1, <1>5
<1> HIDE DEF size, f, left, avail
<1>8. PICK end \in BOOLEAN : end <=> size = left
  OBVIOUS
<1>9. f = Fragment(lg[m.next], m.from, size, m.begin, end)
  <2>1. (size = left) = end
    BY <1>8
  <2> QED
    BY <1>4, <2>1
<1>10. f \in Fragments
  BY <1>1, <1>2, <1>5, <1>9, FragmentTyped
<1>11. /\ f.id = lg[m.next] /\ f.from = m.from /\ f.size = size
       /\ Starts(f) = m.begin /\ Ends(f) = end
  BY <1>1, <1>9, FragmentIs
<1>12. Follows(f, m.next, lg)
  BY <1>1, <1>6, <1>8, <1>11 DEF Follows
<1>13. Expected(f, m, m.next, lg)
  BY <1>6, <1>8, <1>11 DEF Expected
<1>14. Fits(f, m)
  BY <1>1, <1>7, <1>11 DEF Fits
<1> QED
  BY <1>2, <1>5, <1>7, <1>10, <1>11, <1>12, <1>13, <1>14 DEF f

LEMMA AfterIs ==
    ASSUME NEW lg \in Seq(Records), NEW M, Marked(M, lg), NEW m \in M, Holds(m, lg)
    PROVE  LET k == After(m, lg) IN
           /\ Marked({k}, lg) /\ k.at \in Nat /\ m.at < k.at /\ k.at <= m.at + Room(m.at)
           /\ k.next \in Nat /\ m.next <= k.next
           /\ Room(m.at) < HeaderSize => k = Jump(m) /\ k.at = m.at + Room(m.at)
           /\ Room(m.at) >= HeaderSize => k = Then(m, m.next, Due(m, lg))
                                          /\ k.at = m.at + HeaderSize + Due(m, lg).size
<1> DEFINE k == After(m, lg)
<1>1. /\ m.at \in Nat /\ m.next \in 1 .. Len(lg) + 1 /\ Room(m.at) \in 1 .. BlockSize
      /\ m.begin => m.from = 0
      /\ ~m.begin => m.next <= Len(lg)
      /\ m.next <= Len(lg) => m.from <= lg[m.next][3]
  BY MarkTyped
<1>2. CASE Room(m.at) < HeaderSize
  <2>1. k = Jump(m)
    BY <1>2 DEF After
  <2>2. /\ k.at = m.at + Room(m.at) /\ k.next = m.next /\ k.from = m.from /\ k.begin = m.begin
        /\ k \in Marks(lg)
    BY <2>1, JumpIs
  <2> HIDE DEF k
  <2>3. Marked({k}, lg)
    BY <1>1, <2>2 DEF Marked
  <2> QED
    BY <1>1, <1>2, <2>1, <2>2, <2>3 DEF k
<1>3. CASE Room(m.at) >= HeaderSize
  <2> DEFINE f == Due(m, lg)
  <2>1. k = Then(m, m.next, f)
    BY <1>1, <1>3 DEF After
  <2>2. /\ f \in Fragments /\ f.size \in Nat /\ HeaderSize + f.size <= Room(m.at)
        /\ Follows(f, m.next, lg) /\ m.next \in 1 .. Len(lg)
    BY <1>3, DueIs DEF Holds
  <2> HIDE DEF f, k
  <2>3. /\ k.at = m.at + HeaderSize + f.size /\ k.begin = Ends(f)
        /\ Ends(f) => k.next = m.next + 1 /\ k.from = 0
        /\ ~Ends(f) => k.next = m.next /\ k.from = f.from + f.size
        /\ k \in Marks(lg)
    BY <2>1, <2>2, ThenIs
  <2>4. Marked({k}, lg)
    <3>1. CASE Ends(f)
      <4>1. k.next \in 1 .. Len(lg) + 1
        BY <2>2, <2>3, <3>1
      <4>2. k.next <= Len(lg) => lg[k.next][3] \in Nat
        BY <4>1, RecordTyped
      <4>3. k.begin /\ k.from = 0 /\ k \in Marks(lg)
        BY <2>3, <3>1
      <4>4. k.next <= Len(lg) => k.from <= lg[k.next][3]
        <5>1. \A r \in Nat : 0 <= r
          OBVIOUS
        <5> QED
          BY <4>2, <4>3, <5>1
      <4> QED
        BY <4>3, <4>4 DEF Marked
    <3>2. CASE ~Ends(f)
      BY <2>2, <2>3, <3>2 DEF Marked, Follows
    <3> QED
      BY <3>1, <3>2
  <2>5. k.at \in Nat /\ m.at < k.at /\ k.at <= m.at + Room(m.at)
    <3>1. /\ m.at \in Nat /\ Room(m.at) \in Nat /\ f.size \in Nat /\ HeaderSize \in Nat \ {0}
          /\ HeaderSize + f.size <= Room(m.at) /\ k.at = m.at + HeaderSize + f.size
      BY <1>1, <2>2, <2>3
    <3> QED
      BY ONLY <3>1
  <2>6. k.next \in Nat /\ m.next <= k.next
    BY <1>1, <2>3
  <2> QED
    BY <1>1, <1>3, <2>1, <2>3, <2>4, <2>5, <2>6 DEF k, f
<1> QED
  BY <1>1, <1>2, <1>3

\* The records of lg are the first of lh.
Extends(lg, lh) == Len(lg) <= Len(lh) /\ \A i \in 1 .. Len(lg) : lh[i] = lg[i]

LEMMA SameDue ==
    ASSUME NEW lg \in Seq(Records), NEW lh \in Seq(Records), Extends(lg, lh),
           NEW M, Marked(M, lg), NEW m \in M
    PROVE  /\ m.next <= Len(lg) => Due(m, lh) = Due(m, lg)
           /\ Holds(m, lg) => After(m, lh) = After(m, lg)
<1>1. m.next \in 1 .. Len(lg) + 1 /\ Len(lg) \in Nat /\ Room(m.at) \in 1 .. BlockSize
  BY MarkTyped
<1>2. ASSUME m.next <= Len(lg) PROVE Due(m, lh) = Due(m, lg)
  <2>1. lh[m.next] = lg[m.next]
    BY <1>1, <1>2 DEF Extends
  <2> QED
    BY <2>1 DEF Due
<1>3. ASSUME Holds(m, lg) PROVE After(m, lh) = After(m, lg)
  BY <1>1, <1>2, <1>3 DEF After, Holds
<1> QED
  BY <1>2, <1>3

\* There are marks enough up to the end of W.
PathThere(M, t, W, lg) ==
    \E N : /\ M \subseteq N /\ Marked(N, lg) /\ Path(N, W, lg)
           /\ \A k \in N : k \in M \/ k = After(t, lg)
           /\ \A k \in N : k = t \/ k = After(t, lg) \/ Behind(k, t, lg)
           /\ Len(W) = After(t, lg).at => LastMark(N, After(t, lg), lg)

\* More is written of what is due at t.
LEMMA PathGrows ==
    ASSUME NEW lg \in Seq(Records), NEW lh \in Seq(Records), Extends(lg, lh),
           NEW M, Marked(M, lg), Marked(M, lh),
           NEW X \in Seq(Cells), NEW W \in Seq(Cells), FrontOf(X, W), Path(M, X, lg),
           NEW t \in M, t.at <= Len(X), Holds(t, lh),
           \A m \in M : m = t \/ m = After(t, lh) \/ Behind(m, t, lg),
           Room(t.at) >= HeaderSize => BytesAt(Due(t, lh), t.at, W),
           Len(W) <= After(t, lh).at
    PROVE  PathThere(M, t, W, lh)
<1> DEFINE a == After(t, lh)
           N == M \cup {k \in {a} : k.at <= Len(W)}
<1>1. /\ Marked({a}, lh) /\ a.at \in Nat /\ t.at < a.at /\ a.next \in Nat /\ t.next <= a.next
  <2>1. Marked(M, lh) /\ t \in M /\ Holds(t, lh)
    OBVIOUS
  <2>2. /\ Marked({After(t, lh)}, lh) /\ After(t, lh).at \in Nat /\ t.at < After(t, lh).at
        /\ After(t, lh).next \in Nat /\ t.next <= After(t, lh).next
    BY ONLY <2>1, lh \in Seq(Records), AfterIs
  <2> QED
    BY <2>2
<1>2. t.at \in Nat /\ t.next \in Nat /\ Room(t.at) \in Nat /\ Len(X) \in Nat /\ Len(W) \in Nat
      /\ Len(X) <= Len(W)
  BY MarkTyped DEF FrontOf
<1> HIDE DEF a
<1>3. /\ M \subseteq N /\ (a.at <= Len(W) => a \in N)
      /\ \A k \in N : k \in M \/ (k = a /\ a.at <= Len(W))
  OBVIOUS
<1>4. Marked(N, lh)
  BY <1>1, <1>3 DEF Marked
<1> HIDE DEF N
<1>5. ASSUME NEW m \in M, Behind(m, t, lg)
      PROVE  /\ Behind(m, t, lh) /\ After(m, lh) = After(m, lg) /\ After(m, lg) \in M
             /\ m.at \in Nat /\ m.next \in Nat /\ After(m, lg).at \in Nat
             /\ Room(m.at) >= HeaderSize =>
                    m.next <= Len(lh) /\ BytesAt(Due(m, lh), m.at, W)
  <2>1. m.at \in Nat /\ m.next \in Nat /\ Room(m.at) \in Nat
    <3>1. m.at \in Nat /\ m.next \in 1 .. Len(lg) + 1 /\ Room(m.at) \in 1 .. BlockSize
      BY MarkTyped
    <3> QED
      BY <3>1
  <2>2. m.at < Len(X)
    BY <1>2, <1>5, <2>1 DEF Behind
  <2>3. Holds(m, lg) /\ After(m, lh) = After(m, lg)
    BY <2>2, SameDue DEF Path, Holds
  <2>4. After(m, lg).at \in Nat
    BY <2>3, AfterIs
  <2>5. After(m, lg) \in M
    BY <1>2, <1>5, <2>2, <2>4 DEF Path, Behind
  <2>6. ASSUME Room(m.at) >= HeaderSize
        PROVE  m.next <= Len(lh) /\ BytesAt(Due(m, lh), m.at, W)
    <3>1. m.next <= Len(lg) /\ BytesAt(Due(m, lg), m.at, X) /\ Due(m, lh) = Due(m, lg)
      BY <2>2, <2>6, SameDue DEF Path
    <3>2. /\ Due(m, lg) \in Fragments
          /\ After(m, lg).at = m.at + HeaderSize + Due(m, lg).size
      BY <2>3, <2>6, <3>1, DueIs, AfterIs
    <3>3. m.at + HeaderSize + Due(m, lg).size <= Len(X)
      BY <1>2, <1>5, <2>4, <3>2 DEF Behind
    <3>4. Whole(Due(m, lg), m.at, W)
      BY <2>1, <3>1, <3>2, <3>3, FrontBytes
    <3>5. Len(lg) \in Nat /\ Len(lh) \in Nat /\ Len(lg) <= Len(lh)
      BY DEF Extends
    <3> QED
      BY <2>1, <3>1, <3>4, <3>5 DEF Whole
  <2>7. Behind(m, t, lh)
    BY <1>5, <2>3 DEF Behind
  <2> QED
    BY <2>1, <2>3, <2>4, <2>5, <2>6, <2>7
<1>6. Path(N, W, lh)
  <2> SUFFICES ASSUME NEW m \in N, m.at < Len(W)
               PROVE  /\ Room(m.at) >= HeaderSize =>
                             m.next <= Len(lh) /\ BytesAt(Due(m, lh), m.at, W)
                      /\ After(m, lh).at <= Len(W) => After(m, lh) \in N
    BY DEF Path
  <2>1. CASE m = t
    BY <1>3, <2>1 DEF a, Holds
  <2>2. CASE m \in M /\ Behind(m, t, lg)
    BY <1>3, <1>5, <2>2
  <2>3. CASE m = a
    BY <1>1, <1>2, <2>3 DEF a
  <2> QED
    BY <1>3, <2>1, <2>2, <2>3 DEF a
<1>7. \A k \in N : k = t \/ k = a \/ Behind(k, t, lh)
  BY <1>3, <1>5 DEF a
<1>8. ASSUME Len(W) = a.at PROVE LastMark(N, a, lh)
  <2>1. a \in N
    BY <1>1, <1>3, <1>8
  <2>2. ASSUME NEW k \in N, k # a PROVE Behind(k, a, lh)
    <3>1. CASE k = t
      BY <1>1, <3>1 DEF Behind, a
    <3>2. CASE k \in M /\ Behind(k, t, lg)
      <4>1. /\ k.at \in Nat /\ k.next \in Nat /\ After(k, lh).at \in Nat
            /\ k.at < t.at /\ After(k, lh).at <= t.at /\ k.next <= t.next
        BY <1>5, <3>2 DEF Behind
      <4>2. k.at < a.at /\ After(k, lh).at <= a.at /\ k.next <= a.next
        BY ONLY SMTT(15), <1>1, <1>2, <4>1
      <4> QED
        BY <4>2 DEF Behind
    <3> QED
      BY <1>3, <2>2, <3>1, <3>2 DEF a
  <2> QED
    BY <2>1, <2>2 DEF LastMark
<1> QED
  BY <1>3, <1>4, <1>6, <1>7, <1>8 DEF PathThere, a

\* The rest is lost.
LEMMA FrontPath ==
    ASSUME NEW lg \in Seq(Records), NEW M, Marked(M, lg), NEW V \in Seq(Cells),
           Path(M, V, lg), NEW W \in Seq(Cells), FrontOf(W, V)
    PROVE  Path(Upto(M, Len(W)), W, lg)
<1>1. Len(V) \in Nat /\ Len(W) \in Nat /\ Len(W) <= Len(V)
  BY DEF FrontOf
<1> SUFFICES ASSUME NEW m \in M, m.at < Len(W)
             PROVE  /\ Room(m.at) >= HeaderSize =>
                           m.next <= Len(lg) /\ BytesAt(Due(m, lg), m.at, W)
                    /\ After(m, lg).at <= Len(W) => After(m, lg) \in Upto(M, Len(W))
  BY DEF Path, Upto
<1>2. m.at \in Nat /\ m.at < Len(V) /\ Room(m.at) \in Nat
  BY <1>1, MarkTyped
<1>3. Holds(m, lg)
  BY <1>2 DEF Path, Holds
<1>4. After(m, lg).at \in Nat
  BY <1>3, AfterIs
<1>5. After(m, lg).at <= Len(W) => After(m, lg) \in Upto(M, Len(W))
  BY <1>1, <1>2, <1>4 DEF Path, Upto
<1>6. ASSUME Room(m.at) >= HeaderSize PROVE m.next <= Len(lg) /\ BytesAt(Due(m, lg), m.at, W)
  <2>1. m.next <= Len(lg) /\ BytesAt(Due(m, lg), m.at, V)
    BY <1>2, <1>6 DEF Path
  <2>2. Due(m, lg) \in Fragments
    BY <1>6, <2>1, DueIs
  <2> QED
    BY <1>2, <2>1, <2>2, FrontBytes
<1> QED
  BY <1>5, <1>6

\* The mark at byte q at which the next header is to be written
TailMark(q) == [at |-> q, next |-> Coming, from |-> rest.from, begin |-> rest.begin]

\* What was flushed is written in full; what was synced is on the disk.
Kept(M) ==
    \A m \in M : /\ m.next <= flushed => After(m, log).at <= Len(Written)
                 /\ m.next <= synced => After(m, log).at <= Len(disk)

IntactShape(M) ==
    /\ Marked(M, log) /\ Start \in M /\ Path(M, Stream, log) /\ Kept(M)
    /\ wpc \in {"idle", "flush", "append", "header"} => LastMark(M, TailMark(Len(Stream)), log)
    /\ wpc = "data" =>
           LET t == TailMark(Len(Stream) - HeaderSize)
           IN /\ t \in M /\ Room(t.at) >= HeaderSize /\ Due(t, log) = NextFragment
              /\ \A m \in M : m = t \/ m = After(t, log) \/ Behind(m, t, log)

IntactFile == faults = 0 => \E M : IntactShape(M)

LEMMA TailIs ==
    ASSUME NEW q
    PROVE  /\ TailMark(q).at = q /\ TailMark(q).next = Coming
           /\ TailMark(q).from = rest.from /\ TailMark(q).begin = rest.begin
  BY DEF TailMark

LEMMA FlushedTyped ==
    ASSUME TypeInv
    PROVE  /\ flushed \in Nat /\ synced \in Nat /\ synced <= flushed /\ flushed <= Len(log)
           /\ Len(log) \in Nat /\ log \in Seq(Records) /\ Len(disk) \in Nat /\ faults \in Nat
  BY DEF TypeInv, TypeOK, BytesTyped

LEMMA SameExtends == ASSUME NEW lg \in Seq(Records) PROVE Extends(lg, lg)
  BY DEF Extends

\* More is written, and what was flushed stays so.
LEMMA StillKept ==
    ASSUME TypeInv, NEW M, Marked(M, log), Kept(M),
           log' \in Seq(Records), Extends(log, log'),
           flushed' = flushed, synced' = synced, disk' = disk,
           Len(Written') \in Nat, Len(Written) <= Len(Written'),
           NEW N, \A k \in N : k \in M \/ (k.next \in Nat /\ k.next > flushed)
    PROVE  Kept(N)'
<1>1. /\ flushed \in Nat /\ synced \in Nat /\ synced <= flushed /\ flushed <= Len(log)
      /\ Len(log) \in Nat /\ log \in Seq(Records) /\ Len(Written) \in Nat
  BY FlushedTyped, StreamTyped
<1>2. ASSUME NEW k \in N, k.next <= flushed
      PROVE  k \in M /\ After(k, log') = After(k, log) /\ After(k, log).at \in Nat
  <2>1. k \in M
    BY <1>1, <1>2
  <2>2. k.next \in Nat /\ k.next <= Len(log)
    <3>1. k.next \in 1 .. Len(log) + 1
      BY <1>1, <2>1, MarkTyped
    <3> QED
      BY <1>1, <1>2, <3>1
  <2>3. Holds(k, log)
    BY <2>2 DEF Holds
  <2>4. After(k, log') = After(k, log)
    BY <1>1, <2>1, <2>3, SameDue
  <2>5. After(k, log).at \in Nat
    BY <1>1, <2>1, <2>3, AfterIs
  <2> QED
    BY <2>1, <2>4, <2>5
<1>3. \A k \in N : k.next <= synced => k.next <= flushed
  <2> SUFFICES ASSUME NEW k \in N, k.next <= synced PROVE k.next <= flushed
    OBVIOUS
  <2>1. k.next \in Nat
    <3>1. CASE k \in M
      <4>1. k.next \in 1 .. Len(log) + 1
        BY <1>1, <3>1, MarkTyped
      <4> QED
        BY <1>1, <4>1
    <3> QED
      BY <3>1
  <2> QED
    BY <1>1, <2>1
<1>4. PICK lh : lh = log'
  OBVIOUS
<1>5. \A k \in N : /\ k.next <= flushed => After(k, lh).at <= Len(Written')
                   /\ k.next <= synced => After(k, lh).at <= Len(disk)
  <2> SUFFICES ASSUME NEW k \in N, k.next <= flushed
               PROVE  /\ After(k, lh).at <= Len(Written')
                      /\ k.next <= synced => After(k, lh).at <= Len(disk)
    BY <1>3
  <2>1. k \in M /\ After(k, lh) = After(k, log) /\ After(k, log).at \in Nat
    BY <1>2, <1>4
  <2>2. /\ After(k, log).at <= Len(Written)
        /\ k.next <= synced => After(k, log).at <= Len(disk)
    BY <2>1 DEF Kept
  <2> QED
    BY <1>1, <2>1, <2>2
<1> QED
  BY <1>4, <1>5 DEF Kept

\* A record is to come that is not in the file at all.
LEMMA PathSame ==
    ASSUME NEW lg \in Seq(Records), NEW lh \in Seq(Records), Extends(lg, lh),
           NEW M, Marked(M, lg), NEW X \in Seq(Cells), Path(M, X, lg)
    PROVE  /\ Path(M, X, lh)
           /\ \A t : t.at = Len(X) /\ LastMark(M, t, lg) => LastMark(M, t, lh)
<1>1. Len(lg) \in Nat /\ Len(lh) \in Nat /\ Len(lg) <= Len(lh) /\ Len(X) \in Nat
  BY DEF Extends
<1>2. ASSUME NEW m \in M, m.at < Len(X)
      PROVE  /\ After(m, lh) = After(m, lg)
             /\ Room(m.at) >= HeaderSize => m.next <= Len(lh) /\ BytesAt(Due(m, lh), m.at, X)
  <2>1. m.next \in 1 .. Len(lg) + 1
    BY MarkTyped
  <2>2. Holds(m, lg)
    BY <1>2 DEF Path, Holds
  <2>3. After(m, lh) = After(m, lg)
    BY <2>2, SameDue
  <2>4. ASSUME Room(m.at) >= HeaderSize
        PROVE  m.next <= Len(lh) /\ BytesAt(Due(m, lh), m.at, X)
    <3>1. m.next <= Len(lg) /\ BytesAt(Due(m, lg), m.at, X)
      BY <1>2, <2>4 DEF Path
    <3>2. Due(m, lh) = Due(m, lg)
      BY <3>1, SameDue
    <3> QED
      BY <1>1, <2>1, <3>1, <3>2
  <2> QED
    BY <2>3, <2>4
<1>3. Path(M, X, lh)
  BY <1>2 DEF Path
<1>4. ASSUME NEW t, t.at = Len(X), LastMark(M, t, lg) PROVE LastMark(M, t, lh)
  BY <1>2, <1>4 DEF LastMark, Behind
<1> QED
  BY <1>3, <1>4

-----------------------------------------------------------------------------
LEMMA FlushIntact ==
    ASSUME TypeInv, RestInv, IntactFile, FlushWrite PROVE IntactFile'
<1> SUFFICES ASSUME faults' = 0 PROVE \E M : IntactShape(M)'
  BY DEF IntactFile
<1>1. /\ wpc = "flush" /\ Write(rep) /\ rep' = <<>> /\ log' = log /\ rest' = rest
      /\ wpc' \in {"idle", "append"} /\ synced' = synced /\ flushed' = Len(log)
      /\ Coming = Len(log) + 1 /\ Coming' = Coming
  BY DEF FlushWrite, FlushedUpTo, Coming, RestInv
<1>2. log \in Seq(Records) /\ rep \in Seq(Cells) /\ faults \in Nat /\ synced \in Nat
  BY FlushedTyped, StreamTyped
<1>3. disk' = disk
  BY <1>1, <1>2, WriteGrows
<1>4. Written' = Stream /\ faults = 0
  <2>1. PICK t \in Seq(Cells) :
            Written' = Written \o t /\ ((t = rep /\ faults' = faults) \/ faults' = faults + 1)
    BY <1>1, <1>2, WriteGrows DEF Grown
  <2>2. t = rep /\ faults' = faults
    BY <1>2, <2>1
  <2> QED
    BY <2>1, <2>2 DEF Stream
<1>5. Stream' = Stream /\ Stream \in Seq(Cells) /\ Len(Stream) \in Nat
  BY <1>1, <1>4, StreamTyped, NothingAdded DEF Stream
<1>6. PICK M : IntactShape(M)
  BY <1>4 DEF IntactFile
<1>7. PICK t : t = TailMark(Len(Stream))
  OBVIOUS
<1>8. /\ Marked(M, log) /\ Start \in M /\ Path(M, Stream, log) /\ Kept(M)
      /\ LastMark(M, t, log)
  BY <1>1, <1>6, <1>7 DEF IntactShape
<1>9. t.at = Len(Stream) /\ t.next = Len(log) + 1 /\ t = TailMark(Len(Stream))'
  BY <1>1, <1>5, <1>7, TailIs DEF TailMark
<1>10. Kept(M)'
  <2>1. ASSUME NEW m \in M, m.next <= Len(log) PROVE After(m, log).at <= Len(Stream)
    <3>1. m # t
      <4>1. Len(log) \in Nat
        BY FlushedTyped
      <4> QED
        BY <1>9, <2>1, <4>1
    <3> QED
      BY <1>8, <1>9, <3>1 DEF LastMark, Behind
  <2>2. ASSUME NEW m \in M, m.next <= synced PROVE After(m, log).at <= Len(disk)
    BY <1>8, <2>2 DEF Kept
  <2> QED
    BY <1>1, <1>3, <1>4, <2>1, <2>2 DEF Kept
<1>11. IntactShape(M)'
  BY <1>1, <1>5, <1>7, <1>8, <1>9, <1>10 DEF IntactShape
<1> QED
  BY <1>11

\* What is written in full, when nothing is damaged
LEMMA WroteAll ==
    ASSUME TypeInv, NEW s \in Seq(Cells), Write(s), faults' = 0
    PROVE  /\ faults = 0 /\ disk' = disk /\ Written' = Written \o s
           /\ Written' \in Seq(Cells) /\ Len(Written') = Len(Written) + Len(s)
           /\ Len(Written') \in Nat /\ FrontOf(Written, Written')
           /\ \A j \in 1 .. Len(s) : Written'[Len(Written) + j] = s[j]
<1>1. faults \in Nat /\ disk' = disk
  BY FlushedTyped, WriteGrows
<1>2. PICK t \in Seq(Cells) :
          Written' = Written \o t /\ ((t = s /\ faults' = faults) \/ faults' = faults + 1)
  BY WriteGrows DEF Grown
<1>3. t = s /\ faults' = faults
  BY <1>1, <1>2
<1>4. /\ Written' \in Seq(Cells) /\ Len(Written') = Len(Written) + Len(s)
      /\ FrontOf(Written, Written')
      /\ \A j \in 1 .. Len(s) : Written'[Len(Written) + j] = s[j]
  BY <1>2, <1>3, GrownFront
<1> QED
  BY <1>1, <1>2, <1>3, <1>4

\* Where the writer is in its block, and what is left of that
LEMMA RoomForMore ==
    ASSUME TypeInv, AlignInv, faults = 0, wpc \in {"idle", "append", "header"},
           blockOffset < BlockSize
    PROVE  Room(Len(Stream)) = BlockSize - blockOffset
<1>1. /\ Len(Stream) \in Nat /\ Len(Stream) = Len(Written) + Len(rep)
      /\ blockOffset \in 0 .. BlockSize
  BY StreamTyped DEF TypeInv, OffsetInv
<1>2. (Len(Stream) - blockOffset) % BlockSize = 0
  BY <1>1 DEF AlignInv, Shift
<1>3. Room(Len(Stream)) = IF blockOffset = BlockSize THEN BlockSize ELSE BlockSize - blockOffset
  BY ONLY <1>1, <1>2, RoomAt
<1> QED
  BY <1>1, <1>3

LEMMA PadIntact ==
    ASSUME TypeInv, AlignInv, RestInv, IntactFile, AppendPad PROVE IntactFile'
<1> SUFFICES ASSUME faults' = 0 PROVE \E M : IntactShape(M)'
  BY DEF IntactFile
<1>1. /\ wpc = "append" /\ rep = <<>> /\ rep' = <<>> /\ log' = log /\ rest' = rest
      /\ wpc' = "header" /\ Coming' = Coming /\ flushed' = flushed /\ synced' = synced
  BY DEF AppendPad, RestInv, Coming
<1>2. /\ log \in Seq(Records) /\ Written \in Seq(Cells) /\ Len(Written) \in Nat
      /\ Stream = Written /\ Len(log) \in Nat /\ flushed \in Nat
      /\ Coming \in Nat /\ flushed < Coming
  BY <1>1, FlushedTyped, StreamTyped, ComingIs
<1>3. ASSUME fileVars' = fileVars \/ (Written' = Written /\ disk' = disk /\ faults = 0)
      PROVE  \E M : IntactShape(M)'
  <2>1. Stream' = Stream /\ faults = 0 /\ Written' = Written /\ disk' = disk
    BY <1>1, <1>3 DEF fileVars, Stream, Written
  <2>2. PICK M : IntactShape(M)
    BY <2>1 DEF IntactFile
  <2>3. PICK t : t = TailMark(Len(Stream))
    OBVIOUS
  <2>4. t = TailMark(Len(Stream))'
    BY <1>1, <2>1, <2>3 DEF TailMark
  <2>5. Kept(M)'
    BY <1>1, <2>1, <2>2 DEF IntactShape, Kept
  <2>6. IntactShape(M)'
    BY <1>1, <2>1, <2>2, <2>3, <2>4, <2>5 DEF IntactShape
  <2> QED
    BY <2>6
<1>4. CASE ~(Leftover < HeaderSize)
  BY <1>3, <1>4 DEF AppendPad
<1>5. CASE Leftover < HeaderSize
  <2> DEFINE s == [j \in 1 .. Leftover |-> Pad]
  <2>1. Leftover \in Nat /\ Leftover = BlockSize - blockOffset /\ blockOffset \in 0 .. BlockSize
    BY DEF Leftover, TypeInv, OffsetInv
  <2>2. s \in Seq(Cells) /\ Write(s) /\ Len(s) = Leftover
    BY <1>5, <2>1, Padding DEF AppendPad
  <2> HIDE DEF s
  <2>3. PICK W : W = Written'
    OBVIOUS
  <2>4. /\ faults = 0 /\ disk' = disk /\ W \in Seq(Cells) /\ Len(W) = Len(Written) + Leftover
        /\ FrontOf(Written, W) /\ W = Written \o s
    BY <2>2, <2>3, WroteAll
  <2>5. Stream' = W
    BY <1>1, <2>3, <2>4, NothingAdded DEF Stream
  <2>6. CASE Leftover = 0
    <3>1. W = Written
      BY <1>2, <2>2, <2>4, <2>6, NotEmpty, NothingAdded
    <3> QED
      BY <1>3, <2>3, <2>4, <3>1
  <2>7. CASE Leftover # 0
    <3>1. Room(Len(Stream)) = Leftover
      <4>1. blockOffset < BlockSize
        BY <2>1, <2>7
      <4> QED
        BY <1>1, <2>1, <2>4, <4>1, RoomForMore
    <3>2. PICK M : IntactShape(M)
      BY <2>4 DEF IntactFile
    <3>3. PICK t : t = TailMark(Len(Stream))
      OBVIOUS
    <3>4. /\ Marked(M, log) /\ Start \in M /\ Path(M, Written, log) /\ Kept(M)
          /\ LastMark(M, t, log)
      BY <1>1, <1>2, <3>2, <3>3 DEF IntactShape
    <3>5. t \in M /\ t.at = Len(Written) /\ t.next = Coming
      BY <1>2, <3>3, <3>4, TailIs DEF LastMark
    <3>6. Holds(t, log) /\ ~(Room(t.at) >= HeaderSize) /\ After(t, log) = Jump(t)
      BY <1>2, <1>5, <2>1, <3>1, <3>5 DEF Holds, After
    <3>7. /\ Jump(t) = [at |-> Len(W), next |-> Coming, from |-> rest.from, begin |-> rest.begin]
          /\ Jump(t).at = Len(W) /\ Jump(t).next = Coming
      <4>1. Len(W) = Len(Written) + Room(Len(Written))
        BY <1>2, <2>4, <3>1
      <4>2. t = [at |-> Len(Written), next |-> Coming, from |-> rest.from, begin |-> rest.begin]
        BY <3>3, <3>5 DEF TailMark
      <4>3. Jump(t) = [at   |-> Len(Written) + Room(Len(Written)), next |-> Coming,
                       from |-> rest.from, begin |-> rest.begin]
        BY <4>2 DEF Jump
      <4> QED
        BY <4>1, <4>3
    <3>8. PathThere(M, t, W, log)
      <4>1. /\ Extends(log, log) /\ t.at <= Len(Written) /\ Len(W) <= After(t, log).at
            /\ \A m \in M : m = t \/ m = After(t, log) \/ Behind(m, t, log)
        BY <1>2, <2>4, <3>4, <3>5, <3>6, <3>7, SameExtends DEF LastMark
      <4> QED
        BY ONLY <1>2, <2>4, <3>4, <3>5, <3>6, <4>1, PathGrows
    <3>9. PICK N : /\ M \subseteq N /\ Marked(N, log) /\ Path(N, W, log)
                   /\ \A k \in N : k \in M \/ k = Jump(t)
                   /\ LastMark(N, Jump(t), log)
      BY <3>6, <3>7, <3>8 DEF PathThere
    <3>10. Jump(t) = TailMark(Len(Stream))'
      BY <1>1, <2>5, <3>7 DEF TailMark
    <3>11. Kept(N)'
      <4>1. \A k \in N : k \in M \/ (k.next \in Nat /\ k.next > flushed)
        BY <1>1, <1>2, <3>7, <3>9
      <4>2. /\ log' \in Seq(Records) /\ Extends(log, log') /\ Len(Written') \in Nat
            /\ Len(Written) <= Len(Written')
        BY <1>1, <1>2, <2>3, <2>4, SameExtends DEF FrontOf
      <4> QED
        BY <1>1, <2>4, <3>4, <4>1, <4>2, StillKept
    <3>12. IntactShape(N)'
      <4> PICK u : u = Jump(t)
        OBVIOUS
      <4> QED
        BY <1>1, <2>5, <3>4, <3>9, <3>10, <3>11 DEF IntactShape
    <3> QED
      BY <3>12
  <2> QED
    BY <2>6, <2>7
<1> QED
  BY <1>4, <1>5

-----------------------------------------------------------------------------
LEMMA HeaderIntact ==
    ASSUME TypeInv, AlignInv, RestInv, IntactFile, WriteHeader PROVE IntactFile'
<1> SUFFICES ASSUME faults' = 0 PROVE \E M : IntactShape(M)'
  BY DEF IntactFile
<1>1. /\ wpc = "header" /\ rep' = rep /\ rest' = rest /\ blockOffset' = blockOffset
      /\ wpc' = "data" /\ NextFragment' = NextFragment
      /\ flushed' = flushed /\ synced' = synced /\ rest # NoRest
      /\ log' = IF rest.begin THEN Append(log, rest.id) ELSE log
  BY DEF WriteHeader, NextFragment, RestInv
<1>2. PICK f : f = NextFragment
  OBVIOUS
<1>3. f \in Fragments /\ f.size \in Nat /\ rep = <<>>
  BY <1>1, <1>2, NextIs, BytesAre
<1>4. /\ log \in Seq(Records) /\ Written \in Seq(Cells) /\ Len(Written) \in Nat
      /\ Stream = Written /\ Len(log) \in Nat /\ flushed \in Nat /\ Coming \in Nat
      /\ flushed < Coming
  BY <1>3, FlushedTyped, StreamTyped, ComingIs
<1>5. Header(f) \in Seq(Cells) /\ Len(Header(f)) = HeaderSize /\ Write(Header(f))
  BY <1>2, <1>3, FragmentBytes DEF WriteHeader
<1>6. PICK W : W = Written'
  OBVIOUS
<1>7. /\ faults = 0 /\ disk' = disk /\ W \in Seq(Cells) /\ Len(W) = Len(Written) + HeaderSize
      /\ FrontOf(Written, W)
      /\ \A j \in 1 .. HeaderSize : W[Len(Written) + j] = Header(f)[j]
  BY <1>5, <1>6, WroteAll
<1>8. Stream' = W
  BY <1>1, <1>3, <1>6, <1>7, NothingAdded DEF Stream
<1>9. PICK M : IntactShape(M)
  BY <1>7 DEF IntactFile
<1>10. PICK t : t = TailMark(Len(Stream))
  OBVIOUS
<1>11. /\ Marked(M, log) /\ Start \in M /\ Path(M, Written, log) /\ Kept(M)
       /\ LastMark(M, t, log)
  BY <1>1, <1>4, <1>9, <1>10 DEF IntactShape
<1>12. /\ t \in M /\ t.at = Len(Written) /\ t.next = Coming
       /\ t.from = rest.from /\ t.begin = rest.begin
  BY <1>4, <1>10, <1>11, TailIs DEF LastMark
<1>13. Room(t.at) = BlockSize - blockOffset /\ Room(t.at) >= HeaderSize
  BY <1>1, <1>7, <1>12, RoomForHeader
<1> PICK lh : lh = log'
  OBVIOUS
<1>14. /\ lh \in Seq(Records) /\ Extends(log, lh) /\ Marked(M, lh)
       /\ Coming \in 1 .. Len(lh) /\ lh[Coming] = rest.id /\ Coming' = Coming
  <2>1. CASE rest.begin
    <3>1. lh = Append(log, rest.id) /\ rest.id \in Records
      BY <1>1, <2>1 DEF TypeInv, CallInv, InRecord
    <3>2. /\ lh \in Seq(Records) /\ Len(lh) = Len(log) + 1
          /\ \A i \in 1 .. Len(log) : lh[i] = log[i]
          /\ lh[Len(log) + 1] = rest.id /\ Marked(M, lh)
      BY <1>4, <1>11, <3>1, MoreRecords
    <3>3. Coming = Len(log) + 1
      BY <1>1, <2>1 DEF Coming
    <3>4. Coming' = Len(lh)
      BY <1>1 DEF Coming
    <3> QED
      BY <1>4, <3>2, <3>3, <3>4 DEF Extends
  <2>2. CASE ~rest.begin
    <3>1. lh = log /\ log # <<>> /\ rest.id = log[Len(log)] /\ Coming = Len(log)
      BY <1>1, <2>2 DEF RestInv, Coming
    <3>2. Coming' = Len(lh)
      BY <1>1 DEF Coming
    <3> QED
      BY <1>4, <1>11, <3>1, <3>2, SameExtends, NotEmpty
  <2> QED
    BY <2>1, <2>2
<1>15. Due(t, lh) = f
  <2>1. rest.from + rest.size = rest.id[3] /\ rest.from \in Nat /\ rest.size \in Nat
    BY <1>1 DEF RestInv, TypeInv, CallInv
  <2>2. lh[t.next] = rest.id /\ lh[t.next][3] - t.from = rest.size
    BY <1>12, <1>14, <2>1
  <2> QED
    BY <1>2, <1>12, <1>13, <2>2 DEF Due, NextFragment
<1>16. Holds(t, lh) /\ After(t, lh).at = Len(W) + f.size /\ After(t, lh).next >= Coming
       /\ After(t, lh).next \in Nat
  <2>1. Holds(t, lh)
    BY <1>12, <1>14 DEF Holds
  <2>2. /\ After(t, lh).at = t.at + HeaderSize + Due(t, lh).size
        /\ t.next <= After(t, lh).next /\ After(t, lh).next \in Nat
    BY <1>12, <1>13, <1>14, <2>1, AfterIs
  <2> QED
    BY <1>3, <1>4, <1>7, <1>12, <1>15, <2>1, <2>2
<1>17. BytesAt(f, t.at, W)
  <2> SUFFICES ASSUME NEW j \in 1 .. HeaderSize + f.size, t.at + j <= Len(W)
               PROVE  W[t.at + j] = Bytes(f)[j]
    BY DEF BytesAt
  <2>1. j \in 1 .. HeaderSize
    BY <1>3, <1>4, <1>7, <1>12
  <2>2. Bytes(f)[j] = Header(f)[j]
    BY <1>5, <2>1 DEF Bytes
  <2> QED
    BY <1>7, <1>12, <2>1, <2>2
<1>18. PathThere(M, t, W, lh)
  <2>1. /\ t.at <= Len(Written) /\ Len(W) <= After(t, lh).at
        /\ \A m \in M : m = t \/ m = After(t, lh) \/ Behind(m, t, log)
        /\ BytesAt(Due(t, lh), t.at, W)
    BY <1>3, <1>4, <1>7, <1>11, <1>12, <1>15, <1>16, <1>17 DEF LastMark
  <2> QED
    BY ONLY <1>4, <1>7, <1>11, <1>12, <1>14, <1>16, <2>1, PathGrows
<1>19. PICK N : /\ M \subseteq N /\ Marked(N, lh) /\ Path(N, W, lh)
                /\ \A k \in N : k \in M \/ k = After(t, lh)
                /\ \A k \in N : k = t \/ k = After(t, lh) \/ Behind(k, t, lh)
  BY <1>18 DEF PathThere
<1>20. t = TailMark(Len(Stream) - HeaderSize)'
  <2>1. Len(W) - HeaderSize = Len(Written)
    BY <1>4, <1>7
  <2> QED
    BY <1>1, <1>4, <1>8, <1>10, <1>14, <2>1 DEF TailMark
<1>21. Kept(N)'
  <2>1. \A k \in N : k \in M \/ (k.next \in Nat /\ k.next > flushed)
    BY <1>4, <1>16, <1>19
  <2>2. /\ log' \in Seq(Records) /\ Extends(log, log') /\ Len(Written') \in Nat
        /\ Len(Written) <= Len(Written')
    BY <1>4, <1>6, <1>7, <1>14 DEF FrontOf
  <2> QED
    BY <1>1, <1>7, <1>11, <2>1, <2>2, StillKept
<1>22. t \in N /\ Start \in N
  BY <1>11, <1>12, <1>19
<1>23. IntactShape(N)'
  BY <1>1, <1>2, <1>8, <1>13, <1>15, <1>19, <1>20, <1>21, <1>22 DEF IntactShape
<1> QED
  BY <1>23

LEMMA DataIntact == ASSUME TypeInv, RestInv, IntactFile, WriteData PROVE IntactFile'
<1> SUFFICES ASSUME faults' = 0 PROVE \E M : IntactShape(M)'
  BY DEF IntactFile
<1>1. PICK f : f = NextFragment
  OBVIOUS
<1>2. /\ wpc = "data" /\ rep' = rep /\ log' = log /\ Write(Data(f)) /\ synced' = synced
      /\ flushed < Len(log) /\ rest # NoRest
      /\ rest.from + rest.size = rest.id[3] /\ rest.id = log[Len(log)]
      /\ IF f.size = rest.size
         THEN wpc' = "idle" /\ rest' = NoRest /\ flushed' = Len(log)
         ELSE /\ wpc' = "append" /\ flushed' = flushed
              /\ rest' = [rest EXCEPT !.from = @ + f.size, !.size = @ - f.size, !.begin = FALSE]
  <2>1. wpc = "data"
    BY DEF WriteData
  <2> QED
    BY <1>1, <2>1 DEF WriteData, FlushedUpTo, RestInv
<1>3. /\ Coming = Len(log) /\ Coming \in 1 .. Len(log) /\ f \in Fragments /\ f.from = rest.from
      /\ (Ends(f) <=> f.size = rest.size) /\ rep = <<>> /\ f.size \in Nat /\ rest.size \in Nat
  <2>1. rest.size \in Nat
    BY DEF TypeInv, CallInv
  <2> QED
    BY <1>1, <1>2, <2>1, NextIs
<1>4. /\ log \in Seq(Records) /\ Written \in Seq(Cells) /\ Len(Written) \in Nat
      /\ Stream = Written /\ Len(log) \in Nat /\ flushed \in Nat
      /\ synced \in Nat /\ synced <= flushed
  BY <1>3, FlushedTyped, StreamTyped
<1>5. Data(f) \in Seq(Cells) /\ Len(Data(f)) = f.size
  BY <1>3, FragmentBytes
<1>6. PICK W : W = Written'
  OBVIOUS
<1>7. /\ faults = 0 /\ disk' = disk /\ W \in Seq(Cells) /\ Len(W) = Len(Written) + f.size
      /\ FrontOf(Written, W)
      /\ \A j \in 1 .. f.size : W[Len(Written) + j] = Data(f)[j]
  BY <1>2, <1>5, <1>6, WroteAll
<1>8. Stream' = W
  BY <1>2, <1>3, <1>6, <1>7, NothingAdded DEF Stream
<1>9. PICK M : IntactShape(M)
  BY <1>7 DEF IntactFile
<1>10. PICK t : t = TailMark(Len(Stream) - HeaderSize)
  OBVIOUS
<1>11. /\ Marked(M, log) /\ Start \in M /\ Path(M, Written, log) /\ Kept(M)
       /\ t \in M /\ Room(t.at) >= HeaderSize /\ Due(t, log) = f
       /\ \A m \in M : m = t \/ m = After(t, log) \/ Behind(m, t, log)
  BY <1>1, <1>2, <1>4, <1>9, <1>10 DEF IntactShape
<1>12. t.at = Len(Written) - HeaderSize /\ t.next = Coming /\ t.at \in Nat
  BY <1>4, <1>10, <1>11, TailIs, MarkTyped
<1>13. PICK a : a = After(t, log)
  OBVIOUS
<1>14. Holds(t, log) /\ a = Then(t, Coming, f) /\ a.at = Len(W)
  <2>1. Holds(t, log)
    BY <1>3, <1>12 DEF Holds
  <2>2. a = Then(t, t.next, Due(t, log)) /\ a.at = t.at + HeaderSize + Due(t, log).size
    BY <1>4, <1>11, <1>13, <2>1, AfterIs
  <2> QED
    BY <1>3, <1>4, <1>7, <1>11, <1>12, <2>1, <2>2
<1>15. /\ a.begin = Ends(f)
       /\ Ends(f) => a.next = Len(log) + 1 /\ a.from = 0
       /\ ~Ends(f) => a.next = Len(log) /\ a.from = rest.from + f.size
       /\ a = [at |-> a.at, next |-> a.next, from |-> a.from, begin |-> a.begin]
  <2>1. /\ Ends(f) => a.next = Coming + 1 /\ a.from = 0
        /\ ~Ends(f) => a.next = Coming /\ a.from = f.from + f.size
        /\ a.begin = Ends(f) /\ a \in Marks(log)
    BY <1>3, <1>4, <1>11, <1>14, ThenIs
  <2>2. a = [at |-> a.at, next |-> a.next, from |-> a.from, begin |-> a.begin]
    BY <2>1 DEF Marks
  <2> QED
    BY <1>3, <2>1, <2>2
<1>16. BytesAt(f, t.at, W)
  <2> SUFFICES ASSUME NEW j \in 1 .. HeaderSize + f.size, t.at + j <= Len(W)
               PROVE  W[t.at + j] = Bytes(f)[j]
    BY DEF BytesAt
  <2>1. CASE j <= HeaderSize
    <3>1. BytesAt(f, t.at, Written)
      BY <1>4, <1>11, <1>12 DEF Path
    <3>2. t.at + j \in 1 .. Len(Written)
      BY <1>4, <1>12, <2>1
    <3> QED
      BY <1>7, <3>1, <3>2 DEF BytesAt, FrontOf
  <2>2. CASE j > HeaderSize
    <3>1. j - HeaderSize \in 1 .. f.size /\ j = HeaderSize + (j - HeaderSize)
      BY <1>3, <2>2
    <3>2. PICK i \in 1 .. f.size : j = HeaderSize + i
      BY <3>1
    <3>3. t.at + j = Len(Written) + i
      BY <1>4, <1>12, <3>2
    <3> QED
      BY <1>3, <1>7, <3>2, <3>3, BytesAre
  <2> QED
    BY <1>3, <2>1, <2>2
<1>17. PathThere(M, t, W, log)
  <2>1. /\ Extends(log, log) /\ t.at <= Len(Written) /\ Len(W) <= After(t, log).at
        /\ BytesAt(Due(t, log), t.at, W)
    BY <1>3, <1>4, <1>7, <1>11, <1>12, <1>13, <1>14, <1>16, SameExtends
  <2> QED
    BY ONLY <1>4, <1>7, <1>11, <1>14, <2>1, PathGrows
<1>18. PICK N : /\ M \subseteq N /\ Marked(N, log) /\ Path(N, W, log)
                /\ \A k \in N : k \in M \/ k = a
                /\ LastMark(N, a, log)
  BY <1>13, <1>14, <1>17 DEF PathThere
<1>19. Start \in N /\ Len(Written') \in Nat /\ Len(Written) <= Len(Written')
  BY <1>4, <1>6, <1>7, <1>11, <1>18 DEF FrontOf
<1>20. CASE Ends(f)
  <2>1. wpc' = "idle" /\ rest' = NoRest /\ flushed' = Len(log)
    BY <1>2, <1>3, <1>20
  <2>2. Coming' = Len(log) + 1 /\ rest'.from = 0 /\ rest'.begin = TRUE
    BY <1>2, <2>1 DEF Coming, NoRest
  <2>3. a = TailMark(Len(Stream))'
    <3>1. a.begin = TRUE
      BY <1>15, <1>20 DEF Ends
    <3> QED
      BY <1>8, <1>14, <1>15, <1>20, <2>2, <3>1 DEF TailMark
  <2>4. Kept(N)'
    <3>1. ASSUME NEW k \in N, k.next <= Len(log)
          PROVE  k \in M /\ After(k, log).at <= Len(W)
      <4>1. k # a
        BY <1>4, <1>15, <1>20, <3>1
      <4> QED
        BY <1>14, <1>18, <4>1 DEF LastMark, Behind
    <3>2. ASSUME NEW k \in N, k.next <= synced PROVE After(k, log).at <= Len(disk)
      <4>1. k.next \in 1 .. Len(log) + 1
        BY <1>4, <1>18, MarkTyped
      <4>2. k.next <= Len(log)
        BY <1>2, <1>4, <3>2, <4>1
      <4> QED
        BY <1>11, <3>1, <3>2, <4>2 DEF Kept
    <3> QED
      BY <1>2, <1>6, <1>7, <2>1, <3>1, <3>2 DEF Kept
  <2>5. IntactShape(N)'
    BY <1>2, <1>8, <1>18, <1>19, <2>1, <2>3, <2>4 DEF IntactShape
  <2> QED
    BY <2>5
<1>21. CASE ~Ends(f)
  <2>1. /\ wpc' = "append" /\ flushed' = flushed
        /\ rest' = [rest EXCEPT !.from = @ + f.size, !.size = @ - f.size, !.begin = FALSE]
    BY <1>2, <1>3, <1>21
  <2>2. rest \in [id : Ids, from : Nat, size : Nat, begin : BOOLEAN]
    BY DEF TypeInv, CallInv
  <2>3. rest'.from = f.from + f.size /\ rest'.begin = FALSE /\ rest' # NoRest
    <3>1. rest'.from = f.from + f.size /\ rest'.begin = FALSE
      BY <1>3, <2>1, <2>2
    <3> QED
      BY <3>1 DEF NoRest
  <2>4. Coming' = Len(log)
    BY <1>2, <1>4, <2>3 DEF Coming
  <2>5. a = TailMark(Len(Stream))'
    <3>1. a.begin = FALSE
      <4>1. Ends(f) \in BOOLEAN
        BY DEF Ends
      <4> QED
        BY <1>15, <1>21, <4>1
    <3> QED
      BY <1>3, <1>8, <1>14, <1>15, <1>21, <2>3, <2>4, <3>1 DEF TailMark
  <2>6. Kept(N)'
    <3>1. \A k \in N : k \in M \/ (k.next \in Nat /\ k.next > flushed)
      BY <1>2, <1>4, <1>15, <1>18, <1>21
    <3>2. log' \in Seq(Records) /\ Extends(log, log')
      BY <1>2, <1>4, SameExtends
    <3> QED
      BY <1>2, <1>7, <1>11, <1>19, <2>1, <3>1, <3>2, StillKept
  <2>7. IntactShape(N)'
    BY <1>2, <1>8, <1>18, <1>19, <2>1, <2>5, <2>6 DEF IntactShape
  <2> QED
    BY <2>7
<1> QED
  BY <1>20, <1>21

-----------------------------------------------------------------------------
LEMMA BufferIntact ==
    ASSUME TypeInv, AlignInv, RestInv, IntactFile, NEW n \in Lengths, AppendToBuffer(n)
    PROVE  IntactFile'
<1> SUFFICES ASSUME faults' = 0 PROVE \E M : IntactShape(M)'
  BY DEF IntactFile
<1>1. PICK r : r = NextId(n)
  OBVIOUS
<1>2. PICK f : f = Fragment(r, 0, r[3], TRUE, TRUE)
  OBVIOUS
<1>3. /\ wpc = "idle" /\ wpc' = "idle" /\ MayAppend /\ log' = Append(log, r)
      /\ rep' = (rep \o Header(f)) \o Data(f) /\ Written' = Written /\ rest' = rest
      /\ faults' = faults /\ disk' = disk /\ flushed' = flushed /\ synced' = synced
      /\ blockOffset + HeaderSize + n <= BlockSize /\ r[3] = n
  BY <1>1, <1>2 DEF AppendToBuffer, fileVars, Written, NextId
<1>4. /\ r \in Records /\ log \in Seq(Records) /\ Len(log) \in Nat /\ flushed \in Nat
      /\ flushed <= Len(log) /\ n \in Nat /\ blockOffset \in 0 .. BlockSize
  BY <1>1, <1>3, AppendedTyped, FlushedTyped DEF TypeInv, OffsetInv
<1>5. /\ f \in Fragments /\ f.id = r /\ f.from = 0 /\ f.size = n /\ f.type = "full"
      /\ Ends(f) /\ Starts(f)
  BY <1>2, <1>3, <1>4, FullFragment DEF FullIs, Ends, Starts
<1>6. /\ Header(f) \in Seq(Cells) /\ Data(f) \in Seq(Cells) /\ rep \in Seq(Cells)
      /\ Written \in Seq(Cells) /\ Stream \in Seq(Cells) /\ Len(Written) \in Nat
      /\ Len(Stream) \in Nat
  BY <1>5, FragmentBytes, StreamTyped
<1>7. Stream' = Stream \o Bytes(f)
  <2>1. PICK w \in Seq(Cells), v \in Seq(Cells), h \in Seq(Cells), d \in Seq(Cells) :
            w = Written /\ v = rep /\ h = Header(f) /\ d = Data(f)
    BY <1>6
  <2>2. w \in Seq(Cells) /\ v \in Seq(Cells) /\ h \in Seq(Cells) /\ d \in Seq(Cells)
    OBVIOUS
  <2>3. w \o ((v \o h) \o d) = (w \o v) \o (h \o d)
    BY ONLY SMTT(15), <2>2
  <2> QED
    BY <1>3, <2>1, <2>3 DEF Stream, Bytes
<1>8. PICK W : W = Stream'
  OBVIOUS
<1>9. /\ W \in Seq(Cells) /\ Len(W) = Len(Stream) + HeaderSize + n /\ FrontOf(Stream, W)
      /\ \A j \in 1 .. HeaderSize + n : W[Len(Stream) + j] = Bytes(f)[j]
  <2>1. Bytes(f) \in Seq(Cells) /\ Len(Bytes(f)) = HeaderSize + n
    BY <1>5, BytesAre
  <2>2. /\ W \in Seq(Cells) /\ Len(W) = Len(Stream) + Len(Bytes(f)) /\ FrontOf(Stream, W)
        /\ \A j \in 1 .. Len(Bytes(f)) : W[Len(Stream) + j] = Bytes(f)[j]
    BY <1>6, <1>7, <1>8, <2>1, Added
  <2> QED
    BY <1>4, <1>6, <2>1, <2>2
<1>10. PICK lh : lh = log'
  OBVIOUS
<1>11. PICK M : IntactShape(M)
  BY <1>3 DEF IntactFile
<1>12. PICK t : t = TailMark(Len(Stream))
  OBVIOUS
<1>13. /\ Marked(M, log) /\ Start \in M /\ Path(M, Stream, log) /\ Kept(M)
       /\ LastMark(M, t, log)
  BY <1>3, <1>11, <1>12 DEF IntactShape
<1>14. /\ lh \in Seq(Records) /\ Len(lh) = Len(log) + 1 /\ Marked(M, lh)
       /\ lh[Len(log) + 1] = r /\ Extends(log, lh)
  <2>1. /\ lh \in Seq(Records) /\ Len(lh) = Len(log) + 1 /\ Marked(M, lh)
        /\ lh[Len(log) + 1] = r /\ \A i \in 1 .. Len(log) : lh[i] = log[i]
    BY <1>3, <1>4, <1>10, <1>13, MoreRecords
  <2> QED
    BY <1>4, <2>1 DEF Extends
<1>15. rest = NoRest /\ Coming = Len(log) + 1
  BY <1>3, IdleIs
<1>16. t \in M /\ t.at = Len(Stream) /\ t.next = Len(log) + 1 /\ t.from = 0 /\ t.begin = TRUE
  BY <1>12, <1>13, <1>15, TailIs DEF LastMark, NoRest
<1>17. Room(t.at) = BlockSize - blockOffset /\ Room(t.at) >= HeaderSize + n
  <2>1. blockOffset < BlockSize
    BY <1>3, <1>4
  <2>2. Room(t.at) = BlockSize - blockOffset
    BY <1>3, <1>16, <2>1, RoomForMore
  <2> QED
    BY <1>3, <1>4, <2>2
<1>18. Due(t, lh) = f
  <2>1. n - 0 = n /\ (IF n < Room(t.at) - HeaderSize THEN n ELSE Room(t.at) - HeaderSize) = n
    BY <1>4, <1>17
  <2>2. Due(t, lh) = Fragment(r, 0, n, TRUE, TRUE)
    BY <1>3, <1>14, <1>16, <2>1 DEF Due
  <2> QED
    BY <1>2, <1>3, <2>2
<1>19. PICK a : a = After(t, lh)
  OBVIOUS
<1>20. /\ Holds(t, lh)
       /\ a = [at |-> Len(W), next |-> Len(log) + 2, from |-> 0, begin |-> TRUE]
  <2>1. Holds(t, lh)
    BY <1>4, <1>14, <1>16 DEF Holds
  <2>2. a = Then(t, t.next, f)
    BY <1>4, <1>17, <1>18, <1>19 DEF After
  <2>3. Ends(f) = TRUE
    BY <1>5 DEF Ends
  <2>4. t.at + HeaderSize + f.size = Len(W) /\ t.next + 1 = Len(log) + 2
    BY <1>4, <1>5, <1>6, <1>9, <1>16
  <2> QED
    BY <2>1, <2>2, <2>3, <2>4 DEF Then
<1>21. a.at = Len(W) /\ a.next = Len(log) + 2
  BY <1>20
<1>22. PathThere(M, t, W, lh)
  <2>1. BytesAt(Due(t, lh), t.at, W)
    BY <1>5, <1>9, <1>16, <1>18 DEF BytesAt
  <2>2. /\ t.at <= Len(Stream) /\ Len(W) <= After(t, lh).at
        /\ \A m \in M : m = t \/ m = After(t, lh) \/ Behind(m, t, log)
    BY <1>6, <1>9, <1>13, <1>16, <1>19, <1>21 DEF LastMark
  <2> QED
    BY ONLY <1>4, <1>6, <1>9, <1>13, <1>14, <1>16, <1>20, <2>1, <2>2, PathGrows
<1>23. PICK N : /\ M \subseteq N /\ Marked(N, lh) /\ Path(N, W, lh)
                /\ \A k \in N : k \in M \/ k = a
                /\ LastMark(N, a, lh)
  BY <1>19, <1>21, <1>22 DEF PathThere
<1>24. a = TailMark(Len(Stream))'
  <2>1. Coming' = Len(log) + 2 /\ rest'.from = 0 /\ rest'.begin = TRUE
    BY <1>3, <1>4, <1>10, <1>14, <1>15 DEF Coming, NoRest
  <2> QED
    BY <1>8, <1>20, <2>1 DEF TailMark
<1>25. Kept(N)'
  <2>1. \A k \in N : k \in M \/ (k.next \in Nat /\ k.next > flushed)
    BY <1>4, <1>21, <1>23
  <2>2. /\ log' \in Seq(Records) /\ Extends(log, log') /\ Len(Written') \in Nat
        /\ Len(Written) <= Len(Written')
    BY <1>3, <1>6, <1>10, <1>14
  <2> QED
    BY <1>3, <1>13, <2>1, <2>2, StillKept
<1>26. IntactShape(N)'
  BY <1>3, <1>8, <1>10, <1>13, <1>23, <1>24, <1>25 DEF IntactShape
<1> QED
  BY <1>26

LEMMA FileIntact ==
    ASSUME TypeInv, RestInv, IntactFile, NEW n \in Lengths, AppendToFile(n) PROVE IntactFile'
<1> SUFFICES ASSUME faults' = 0 PROVE \E M : IntactShape(M)'
  BY DEF IntactFile
<1>1. /\ wpc = "idle" /\ wpc' \in {"append", "flush"} /\ log' = log
      /\ Written' = Written /\ Stream' = Stream /\ faults' = faults /\ disk' = disk
      /\ flushed' = flushed /\ synced' = synced /\ rest'.from = 0 /\ rest'.begin = TRUE
  BY DEF AppendToFile, fileVars, Written, Stream
<1>2. PICK M : IntactShape(M)
  BY <1>1 DEF IntactFile
<1>3. PICK t : t = TailMark(Len(Stream))
  OBVIOUS
<1>4. t = TailMark(Len(Stream))'
  <2>1. Coming' = Len(log) + 1
    BY <1>1 DEF Coming
  <2>2. Coming = Len(log) + 1 /\ rest.from = 0 /\ rest.begin = TRUE
    BY <1>1, IdleIs DEF NoRest
  <2> QED
    BY <1>1, <1>3, <2>1, <2>2 DEF TailMark
<1>5. Kept(M)'
  BY <1>1, <1>2 DEF IntactShape, Kept
<1>6. IntactShape(M)'
  BY <1>1, <1>2, <1>3, <1>4, <1>5 DEF IntactShape
<1> QED
  BY <1>6

\* The front of an intact log, as far as it was synced at least
LEMMA FrontIntact ==
    ASSUME TypeInv, NEW M, Marked(M, log), Start \in M, Path(M, Stream, log), Kept(M),
           NEW V \in Seq(Cells), FrontOf(V, Stream), Len(disk) <= Len(V),
           NEW K, K = Upto(M, Len(V))
    PROVE  /\ Marked(K, log) /\ Start \in K /\ Path(K, V, log) /\ K \subseteq M
           /\ \A m \in K : m.next <= synced => After(m, log).at <= Len(V)
<1>1. /\ Len(V) \in Nat /\ Stream \in Seq(Cells) /\ log \in Seq(Records) /\ Len(disk) \in Nat
      /\ synced \in Nat /\ synced <= flushed /\ flushed <= Len(log) /\ flushed \in Nat
      /\ Len(log) \in Nat
  BY StreamTyped, FlushedTyped
<1>2. Marked(K, log) /\ Start \in K /\ K \subseteq M
  BY <1>1, UptoMarked
<1>3. Path(K, V, log)
  BY <1>1, FrontPath
<1>4. ASSUME NEW m \in K, m.next <= synced PROVE After(m, log).at <= Len(V)
  <2>1. m \in M /\ m.next \in 1 .. Len(log) + 1
    BY <1>1, <1>2, MarkTyped
  <2>2. m.next <= Len(log)
    BY <1>1, <1>4, <2>1
  <2>3. After(m, log).at \in Nat
    BY <1>1, <2>1, <2>2, AfterIs DEF Holds
  <2>4. After(m, log).at <= Len(disk)
    BY <1>4, <2>1 DEF Kept
  <2> QED
    BY <1>1, <2>3, <2>4
<1> QED
  BY <1>2, <1>3, <1>4

LEMMA QuietIntact ==
    ASSUME TypeInv, RestInv, IntactFile, Close \/ FlushCall \/ Sync \/ WriteFails \/ Kill
    PROVE  IntactFile'
<1> SUFFICES ASSUME faults' = 0 PROVE \E M : IntactShape(M)'
  BY DEF IntactFile
<1>1. /\ log' = log /\ faults = 0 /\ flushed' = flushed /\ synced' \in {synced, flushed}
      /\ WriteFails => wpc \in {"flush", "append", "header"} /\ rest.begin
  <2>1. CASE WriteFails
    BY <2>1, FlushedTyped DEF WriteFails
  <2>2. CASE ~WriteFails
    BY <2>2 DEF Close, FlushCall, Sync, Kill, fileVars
  <2> QED
    BY <2>1, <2>2
<1>2. PICK M : IntactShape(M)
  BY <1>1 DEF IntactFile
<1>3. /\ Written' = Written
      /\ \/ disk' = disk /\ synced' = synced
         \/ disk' = Written
  <2>1. CASE Sync \/ Kill
    <3>1. disk' = Written /\ pend' = <<>>
      BY <2>1 DEF Sync, Kill
    <3> QED
      BY <3>1, StreamTyped, NothingAdded DEF Written
  <2>2. CASE Close \/ FlushCall \/ WriteFails
    BY <2>2 DEF Close, FlushCall, WriteFails, fileVars, Written
  <2> QED
    BY <2>1, <2>2
<1>4. Marked(M, log) /\ Start \in M /\ Path(M, Stream, log) /\ Kept(M)
  BY <1>2 DEF IntactShape
<1>5. Kept(M)'
  <2>1. CASE disk' = disk /\ synced' = synced
    BY <1>1, <1>3, <1>4, <2>1 DEF Kept
  <2>2. CASE disk' = Written
    <3>1. ASSUME NEW m \in M, m.next <= synced' PROVE m.next <= flushed
      <4>1. m.next \in 1 .. Len(log) + 1 /\ flushed \in Nat /\ synced \in Nat /\ synced <= flushed
            /\ Len(log) \in Nat
        BY <1>4, MarkTyped, FlushedTyped
      <4> QED
        BY <1>1, <3>1, <4>1
    <3> QED
      BY <1>1, <1>3, <1>4, <2>2, <3>1 DEF Kept
  <2> QED
    BY <1>3, <2>1, <2>2
<1>6. CASE Close
  <2>1. Stream' = Stream /\ wpc' = "closed"
    BY <1>3, <1>6 DEF Close, Stream
  <2>2. IntactShape(M)'
    BY <1>1, <1>4, <1>5, <2>1 DEF IntactShape
  <2> QED
    BY <2>2
<1>7. CASE FlushCall \/ Sync \/ WriteFails
  <2>1. /\ Stream' = Stream /\ wpc' \in {"idle", "flush"} /\ wpc \in {"idle", "flush", "append", "header"}
        /\ rest.begin = TRUE /\ rest.from = 0 /\ rest'.begin = TRUE /\ rest'.from = 0
    <3>1. CASE FlushCall \/ Sync
      BY <1>3, <3>1, IdleIs DEF FlushCall, Sync, Stream, NoRest
    <3>2. CASE WriteFails
      <4>1. Stream' = Stream /\ wpc' = "idle" /\ rest' = NoRest
        BY <1>3, <3>2 DEF WriteFails, Stream
      <4>2. rest.begin \in BOOLEAN /\ (rest.begin => rest.from = 0)
        BY DEF TypeInv, CallInv, RestInv, NoRest
      <4> QED
        BY <1>1, <3>2, <4>1, <4>2 DEF NoRest
    <3> QED
      BY <1>7, <3>1, <3>2
  <2>2. PICK t : t = TailMark(Len(Stream))
    OBVIOUS
  <2>3. t = TailMark(Len(Stream))'
    <3>1. Coming = Len(log) + 1 /\ Coming' = Len(log) + 1
      BY <1>1, <2>1 DEF Coming
    <3> QED
      BY <2>1, <2>2, <3>1 DEF TailMark
  <2>4. IntactShape(M)'
    BY <1>1, <1>2, <1>4, <1>5, <2>1, <2>2, <2>3 DEF IntactShape
  <2> QED
    BY <2>4
<1>8. CASE Kill
  <2>1. wpc' = "dead" /\ rep' = <<>> /\ synced' = synced
    BY <1>8 DEF Kill, WriterGone
  <2>2. Stream' = Written
    BY <1>3, <2>1, StreamTyped, NothingAdded DEF Stream
  <2>3. PICK K : K = Upto(M, Len(Written))
    OBVIOUS
  <2>4. Marked(K, log) /\ Start \in K /\ Path(K, Written, log) /\ K \subseteq M
    <3>1. Len(disk) <= Len(Written)
      BY WrittenTyped, FlushedTyped DEF TypeInv, BytesTyped
    <3> QED
      BY <1>4, <2>3, <3>1, StreamTyped, FrontIntact
  <2>5. Kept(K)'
    BY <1>5, <2>4 DEF Kept
  <2>6. IntactShape(K)'
    BY <1>1, <2>1, <2>2, <2>4, <2>5 DEF IntactShape
  <2> QED
    BY <2>6
<1> QED
  BY <1>6, <1>7, <1>8

LEMMA LossIntact ==
    ASSUME TypeInv, RestInv, IntactFile, NEW k \in 0 .. Len(pend), PowerLoss(k) PROVE IntactFile'
<1> SUFFICES ASSUME faults' = 0 PROVE \E M : IntactShape(M)'
  BY DEF IntactFile
<1>1. /\ log' = log /\ wpc' = "dead" /\ rep' = <<>> /\ pend' = <<>>
      /\ synced' = synced /\ flushed' = synced
  BY DEF PowerLoss, WriterGone
<1>2. PICK V : V = disk \o SubSeq(pend, 1, k)
  OBVIOUS
<1>3. disk' = V /\ faults = 0
  <2>1. faults \in Nat
    BY FlushedTyped
  <2> QED
    BY <1>2, <2>1 DEF PowerLoss
<1>4. V \in Seq(Cells) /\ FrontOf(V, Stream) /\ Len(disk) <= Len(V)
  <2>1. Len(disk) \in Nat /\ k \in Nat
    BY FlushedTyped DEF TypeInv, BytesTyped
  <2>2. V \in Seq(Cells) /\ Len(V) = Len(disk) + k /\ FrontOf(V, Stream)
    BY <1>2, WhatSurvives
  <2> QED
    BY <2>1, <2>2
<1>5. Written' = V /\ Stream' = V
  BY <1>1, <1>3, <1>4, NothingAdded DEF Stream, Written
<1>6. PICK M : IntactShape(M)
  BY <1>3 DEF IntactFile
<1>7. PICK K : K = Upto(M, Len(V))
  OBVIOUS
<1>8. /\ Marked(K, log) /\ Start \in K /\ Path(K, V, log)
      /\ \A m \in K : m.next <= synced => After(m, log).at <= Len(V)
  BY <1>4, <1>6, <1>7, FrontIntact DEF IntactShape
<1>9. Kept(K)'
  BY <1>1, <1>3, <1>5, <1>8 DEF Kept
<1>10. IntactShape(K)'
  BY <1>1, <1>5, <1>8, <1>9 DEF IntactShape
<1> QED
  BY <1>10

\* An empty file
LEMMA EmptyPath ==
    ASSUME NEW lg \in Seq(Records)
    PROVE  Marked({Start}, lg) /\ Path({Start}, <<>>, lg)
<1>1. Marked({Start}, lg)
  BY StartMarked
<1>2. Len(<<>>) = 0 /\ Start.at = 0
  BY DEF Start
<1> QED
  BY <1>1, <1>2 DEF Path

LEMMA OpenIntact == ASSUME TypeInv, RestInv, Open PROVE IntactFile'
<1> SUFFICES ASSUME faults' = 0 PROVE \E M : IntactShape(M)'
  BY DEF IntactFile
<1>1. /\ wpc' = "idle" /\ rest' = NoRest /\ rep' = rep /\ rep = <<>>
      /\ log' = <<>> /\ disk' = <<>> /\ pend' = <<>> /\ flushed' = 0 /\ synced' = 0
  <2>1. rep = <<>>
    BY DEF Open
  <2>2. log' = <<>>
    <3>1. held = 0 /\ log \in Seq(Records) /\ log' = SubSeq(log, Len(log) - held + 1, Len(log))
      BY <2>1 DEF Open, RestInv, TypeInv, TypeOK
    <3> QED
      BY <3>1
  <2> QED
    BY <2>1, <2>2 DEF Open
<1>2. <<>> \in Seq(Cells) /\ <<>> \in Seq(Records) /\ Len(<<>>) = 0
  BY EmptyTyped
<1>3. Written' = <<>> /\ Stream' = <<>>
  BY <1>1, <1>2, NothingAdded DEF Written, Stream
<1>4. /\ Start.at = 0 /\ Start.next = 1
      /\ Start = [at |-> 0, next |-> 1, from |-> 0, begin |-> TRUE]
  BY DEF Start
<1>5. Start = TailMark(Len(Stream))'
  <2>1. Coming' = 1
    BY <1>1, <1>2 DEF Coming, NoRest
  <2>2. rest'.from = 0 /\ rest'.begin = TRUE
    BY <1>1 DEF NoRest
  <2> QED
    BY <1>2, <1>3, <1>4, <2>1, <2>2 DEF TailMark
<1>6. Kept({Start})'
  BY <1>1, <1>4 DEF Kept
<1>7. LastMark({Start}, Start, <<>>)
  BY DEF LastMark
<1>8. PICK lg : lg = log'
  OBVIOUS
<1>9. IntactShape({Start})'
  <2>1. Marked({Start}, lg) /\ Path({Start}, <<>>, lg)
    BY <1>1, <1>2, <1>8, EmptyPath
  <2>2. /\ wpc' # "data" /\ Start \in {Start}
        /\ LastMark({Start}, Start, lg)
    BY <1>1, <1>7, <1>8
  <2>3. PICK t : t = Start
    OBVIOUS
  <2> QED
    BY <1>1, <1>3, <1>5, <1>6, <1>8, <2>1, <2>2 DEF IntactShape
<1> QED
  BY <1>9

LEMMA InitIntact == Init => IntactFile
<1> SUFFICES ASSUME Init PROVE \E M : IntactShape(M)
  BY DEF IntactFile
<1>1. /\ log = <<>> /\ disk = <<>> /\ pend = <<>> /\ rep = <<>> /\ wpc = "closed"
      /\ flushed = 0 /\ synced = 0
  BY DEF Init
<1>2. <<>> \in Seq(Cells) /\ <<>> \in Seq(Records)
  BY EmptyTyped
<1>3. Written = <<>> /\ Stream = <<>>
  BY <1>1, <1>2, NothingAdded DEF Written, Stream
<1>4. Kept({Start})
  BY <1>1 DEF Kept, Start
<1>5. Marked({Start}, log) /\ Path({Start}, <<>>, log)
  BY <1>1, <1>2, EmptyPath
<1>6. IntactShape({Start})
  BY <1>1, <1>3, <1>4, <1>5 DEF IntactShape
<1> QED
  BY <1>6

LEMMA WriterIntact ==
    ASSUME TypeInv, AlignInv, RestInv, IntactFile, WriterStep PROVE IntactFile'
<1>1. CASE Open
  BY <1>1, OpenIntact
<1>2. CASE Close \/ FlushCall \/ Sync \/ WriteFails
  BY <1>2, QuietIntact
<1>3. CASE Append1
  BY <1>3, BufferIntact, FileIntact DEF Append1
<1>4. CASE FlushWrite
  BY <1>4, FlushIntact
<1>5. CASE AppendPad
  BY <1>5, PadIntact
<1>6. CASE WriteHeader
  BY <1>6, HeaderIntact
<1>7. CASE WriteData
  BY <1>7, DataIntact
<1> QED
  BY <1>1, <1>2, <1>3, <1>4, <1>5, <1>6, <1>7 DEF WriterStep

LEMMA CrashIntact == ASSUME TypeInv, RestInv, IntactFile, Crash PROVE IntactFile'
  BY QuietIntact, LossIntact DEF Crash

LEMMA KeptIntact ==
    ASSUME IntactFile, UNCHANGED <<fileVars, writerVars>> PROVE IntactFile'
<1> SUFFICES ASSUME faults' = 0 PROVE \E M : IntactShape(M)'
  BY DEF IntactFile
<1>1. PICK M : IntactShape(M)
  BY DEF IntactFile, fileVars
<1>2. /\ log' = log /\ wpc' = wpc /\ rest' = rest /\ Written' = Written /\ Stream' = Stream
      /\ Coming' = Coming /\ NextFragment' = NextFragment /\ disk' = disk
      /\ flushed' = flushed /\ synced' = synced
  BY DEF fileVars, writerVars, Stream, Written, Coming, NextFragment
<1>3. PICK t, u : t = TailMark(Len(Stream)) /\ u = TailMark(Len(Stream) - HeaderSize)
  OBVIOUS
<1>4. t = TailMark(Len(Stream))' /\ u = TailMark(Len(Stream) - HeaderSize)'
  BY <1>2, <1>3 DEF TailMark
<1>5. Kept(M)'
  BY <1>1, <1>2 DEF IntactShape, Kept
<1>6. IntactShape(M)'
  BY <1>1, <1>2, <1>3, <1>4, <1>5 DEF IntactShape
<1> QED
  BY <1>6

-----------------------------------------------------------------------------
(* A file that something damaged                                            *)

\* X, with which what was written begins, is intact; what was flushed before is in it.
FrontShape(M, X) ==
    /\ X \in Seq(Cells) /\ FrontOf(X, Written)
    /\ Marked(M, log) /\ Start \in M /\ Path(M, X, log)
    /\ \A m \in M : /\ m.next <= flushed => After(m, log).at <= Len(X)
                    /\ m.next <= synced => After(m, log).at <= Len(disk)

FrontFile == faults > 0 => \E M, X : FrontShape(M, X)

LEMMA IsFront == ASSUME NEW X PROVE FrontOf(X, X)
  BY DEF FrontOf

LEMMA FrontFront ==
    ASSUME NEW X \in Seq(Cells), NEW Y \in Seq(Cells), NEW Z \in Seq(Cells),
           FrontOf(X, Y), FrontOf(Y, Z)
    PROVE  FrontOf(X, Z)
<1>1. Len(X) \in Nat /\ Len(Y) \in Nat /\ Len(Z) \in Nat
  OBVIOUS
<1> QED
  BY <1>1 DEF FrontOf

\* Of two sequences that a third one begins with one begins with the other.
LEMMA FrontsOfOne ==
    ASSUME NEW X \in Seq(Cells), NEW Y \in Seq(Cells), NEW Z \in Seq(Cells),
           FrontOf(X, Z), FrontOf(Y, Z), Len(X) <= Len(Y)
    PROVE  FrontOf(X, Y)
<1>1. Len(X) \in Nat /\ Len(Y) \in Nat /\ Len(Z) \in Nat
  OBVIOUS
<1> QED
  BY <1>1 DEF FrontOf

\* There is such a front in any case; nothing is damaged until something is.
LEMMA FrontBefore ==
    ASSUME TypeInv, IntactFile, FrontFile
    PROVE  \E M, X : FrontShape(M, X) /\ (faults = 0 => X = Written)
<1>1. CASE faults = 0
  <2>1. PICK M : IntactShape(M)
    BY <1>1 DEF IntactFile
  <2>2. PICK K : K = Upto(M, Len(Written))
    OBVIOUS
  <2>3. /\ Marked(M, log) /\ Start \in M /\ Path(M, Stream, log) /\ Kept(M)
        /\ Written \in Seq(Cells) /\ Stream \in Seq(Cells) /\ FrontOf(Written, Stream)
        /\ log \in Seq(Records) /\ Len(Written) \in Nat
    BY <2>1, StreamTyped, LogTyped DEF IntactShape
  <2>4. Marked(K, log) /\ Start \in K /\ K \subseteq M /\ Path(K, Written, log)
    BY <2>2, <2>3, UptoMarked, FrontPath
  <2>5. FrontShape(K, Written)
    BY <2>3, <2>4, IsFront DEF FrontShape, Kept
  <2> QED
    BY <2>5
<1>2. CASE faults > 0
  BY <1>2 DEF FrontFile
<1> QED
  BY <1>1, <1>2, FlushedTyped

\* The front gets no longer, and holds what counts as flushed then.
LEMMA FrontKept ==
    ASSUME TypeInv, NEW M, NEW X, FrontShape(M, X),
           log' = log \/ (\E r \in Records : log' = Append(log, r)),
           NEW Z \in Seq(Cells), FrontOf(Z, X), FrontOf(Z, Written'),
           flushed' \in Int, flushed' <= Len(log), synced' \in Int, synced' <= flushed',
           \A m \in M : /\ m.next <= flushed' => After(m, log).at <= Len(Z)
                        /\ m.next <= synced' => After(m, log).at <= Len(disk')
    PROVE  FrontFile'
<1>1. log \in Seq(Records) /\ Len(log) \in Nat /\ Len(Z) \in Nat /\ X \in Seq(Cells)
  BY LogTyped DEF FrontShape
<1>2. PICK lh, K : lh = log' /\ K = Upto(M, Len(Z))
  OBVIOUS
<1>3. Marked(K, log) /\ Start \in K /\ K \subseteq M /\ Path(K, Z, log)
  BY <1>1, <1>2, UptoMarked, FrontPath DEF FrontShape
<1>4. lh \in Seq(Records) /\ Extends(log, lh) /\ Marked(K, lh)
  <2>1. CASE log' = log
    BY <1>1, <1>2, <1>3, <2>1, SameExtends
  <2>2. CASE \E r \in Records : log' = Append(log, r)
    <3>1. PICK r \in Records : lh = Append(log, r)
      BY <1>2, <2>2
    <3> QED
      BY <1>1, <1>3, <3>1, MoreRecords DEF Extends
  <2> QED
    BY <2>1, <2>2
<1>5. Path(K, Z, lh)
  BY <1>1, <1>3, <1>4, PathSame
<1>6. ASSUME NEW m \in K, m.next <= flushed' PROVE After(m, lh) = After(m, log)
  <2>1. m.next \in 1 .. Len(log) + 1
    BY <1>1, <1>3, MarkTyped
  <2>2. Holds(m, log)
    BY <1>1, <1>6, <2>1 DEF Holds
  <2> QED
    BY <1>1, <1>3, <1>4, <2>2, SameDue
<1>7. \A m \in K : m.next \in Int
  BY <1>1, <1>3, MarkTyped
<1>8. \A m \in K : /\ m.next <= flushed' => After(m, lh).at <= Len(Z)
                   /\ m.next <= synced' => After(m, lh).at <= Len(disk')
  <2> SUFFICES ASSUME NEW m \in K
               PROVE  /\ m.next <= flushed' => After(m, lh).at <= Len(Z)
                      /\ m.next <= synced' => After(m, lh).at <= Len(disk')
    OBVIOUS
  <2>1. m \in M /\ (m.next <= synced' => m.next <= flushed')
    BY <1>3, <1>7
  <2> QED
    BY <1>6, <2>1
<1>9. FrontShape(K, Z)'
  BY <1>2, <1>3, <1>4, <1>5, <1>8 DEF FrontShape
<1> QED
  BY <1>9 DEF FrontFile

\* While the writer goes on nothing that was written is lost.
LEMMA WriterAdds ==
    ASSUME TypeInv, WriterStep, ~Open, faults' > 0
    PROVE  /\ log' = log \/ (\E r \in Records : log' = Append(log, r))
           /\ Written' \in Seq(Cells) /\ FrontOf(Written, Written')
           /\ flushed' = flushed /\ synced' \in {synced, flushed}
           /\ \/ disk' = disk /\ synced' = synced
              \/ disk' = Written
<1>1. Written \in Seq(Cells) /\ rep \in Seq(Cells) /\ FrontOf(Written, Written)
  BY StreamTyped, IsFront
<1>2. CASE Close \/ FlushCall \/ WriteFails
  <2>1. /\ Written' = Written /\ log' = log /\ flushed' = flushed
        /\ synced' = synced /\ disk' = disk
    BY <1>2 DEF Close, FlushCall, WriteFails, fileVars, Written
  <2> QED
    BY <1>1, <2>1
<1>3. CASE Sync
  <2>1. disk' = Written /\ pend' = <<>> /\ log' = log /\ flushed' = flushed /\ synced' = flushed
    BY <1>3 DEF Sync
  <2>2. Written' = Written
    BY <1>1, <2>1, NothingAdded DEF Written
  <2> QED
    BY <1>1, <2>1, <2>2
<1>4. ASSUME NEW n \in Lengths, AppendToBuffer(n) \/ AppendToFile(n)
      PROVE  /\ Written' = Written /\ flushed' = flushed /\ synced' = synced /\ disk' = disk
             /\ log' = log \/ (\E r \in Records : log' = Append(log, r))
  <2>1. wpc = "idle" /\ MayAppend
    BY <1>4 DEF AppendToBuffer, AppendToFile
  <2>2. NextId(n) \in Records
    BY <2>1, AppendedTyped
  <2>3. log' = log \/ log' = Append(log, NextId(n))
    BY <1>4 DEF AppendToBuffer, AppendToFile
  <2> QED
    BY <1>4, <2>2, <2>3 DEF AppendToBuffer, AppendToFile, fileVars, Written
<1>5. ASSUME NEW s \in Seq(Cells), Write(s)
      PROVE  Written' \in Seq(Cells) /\ FrontOf(Written, Written') /\ disk' = disk
  <2>1. PICK t \in Seq(Cells) : Written' = Written \o t
    BY <1>5, WriteGrows DEF Grown
  <2> QED
    BY <1>5, <2>1, GrownFront, WriteGrows
<1>6. CASE FlushWrite
  BY <1>1, <1>5, <1>6 DEF FlushWrite, FlushedUpTo
<1>7. CASE AppendPad
  <2>1. /\ \/ \E s \in Seq(Cells) : Write(s)
           \/ Written' = Written /\ disk' = disk
        /\ log' = log /\ flushed' = flushed /\ synced' = synced
    <3> DEFINE s == [j \in 1 .. Leftover |-> Pad]
    <3>1. Leftover \in Nat
      BY DEF Leftover, TypeInv, OffsetInv
    <3>2. s \in Seq(Cells)
      BY <3>1, Padding
    <3>3. Write(s) \/ UNCHANGED fileVars
      BY <1>7 DEF AppendPad
    <3> HIDE DEF s
    <3>4. log' = log /\ flushed' = flushed /\ synced' = synced
      BY <1>7 DEF AppendPad
    <3> QED
      BY <3>2, <3>3, <3>4 DEF fileVars, Written
  <2>2. CASE \E s \in Seq(Cells) : Write(s)
    <3>1. PICK s \in Seq(Cells) : Write(s)
      BY <2>2
    <3>2. Written' \in Seq(Cells) /\ FrontOf(Written, Written') /\ disk' = disk
      BY <1>5, <3>1
    <3> QED
      BY <2>1, <3>2
  <2>3. CASE Written' = Written /\ disk' = disk
    BY <1>1, <2>1, <2>3
  <2> QED
    BY <2>1, <2>2, <2>3
<1>8. CASE WriteHeader
  <2>1. Header(NextFragment) \in Seq(Cells) /\ Write(Header(NextFragment)) /\ wpc = "header"
    BY <1>8, NextTyped, FragmentBytes DEF WriteHeader
  <2>2. rest.id \in Records
    BY <2>1 DEF TypeInv, CallInv, InRecord
  <2> QED
    BY <1>5, <1>8, <2>1, <2>2 DEF WriteHeader
<1>9. CASE WriteData
  <2>1. Data(NextFragment) \in Seq(Cells) /\ Write(Data(NextFragment))
    BY <1>9, NextTyped, FragmentBytes DEF WriteData
  <2>2. log' = log /\ flushed' = flushed /\ synced' = synced
    BY <1>9 DEF WriteData, FlushedUpTo
  <2> QED
    BY <1>5, <2>1, <2>2
<1> QED
  BY <1>1, <1>2, <1>3, <1>4, <1>6, <1>7, <1>8, <1>9 DEF WriterStep, Append1

LEMMA WriterFront ==
    ASSUME TypeInv, IntactFile, FrontFile, WriterStep, ~Open PROVE FrontFile'
<1> SUFFICES ASSUME faults' > 0 PROVE FrontFile'
  BY DEF FrontFile
<1>1. PICK M, X : FrontShape(M, X)
  BY FrontBefore
<1>2. /\ log' = log \/ (\E r \in Records : log' = Append(log, r))
      /\ Written' \in Seq(Cells) /\ FrontOf(Written, Written')
      /\ flushed' = flushed /\ synced' \in {synced, flushed}
      /\ \/ disk' = disk /\ synced' = synced
         \/ disk' = Written
  BY WriterAdds
<1>3. /\ X \in Seq(Cells) /\ Written \in Seq(Cells) /\ FrontOf(X, Written) /\ Len(X) <= Len(Written)
      /\ Marked(M, log) /\ log \in Seq(Records) /\ flushed \in Int /\ flushed <= Len(log)
      /\ synced \in Int /\ synced <= flushed /\ Len(log) \in Nat
  BY <1>1, StreamTyped, FlushedTyped DEF FrontShape, FrontOf
<1>4. FrontOf(X, Written') /\ FrontOf(X, X)
  BY <1>2, <1>3, FrontFront, IsFront
<1>5. ASSUME NEW m \in M
      PROVE  /\ m.next <= flushed' => After(m, log).at <= Len(X)
             /\ m.next <= synced' => After(m, log).at <= Len(disk')
  <2>1. /\ m.next <= flushed => After(m, log).at <= Len(X)
        /\ m.next <= synced => After(m, log).at <= Len(disk)
    BY <1>1 DEF FrontShape
  <2>2. CASE disk' = disk /\ synced' = synced
    BY <1>2, <2>1, <2>2
  <2>3. CASE disk' = Written
    <3>1. m.next \in 1 .. Len(log) + 1
      BY <1>3, MarkTyped
    <3>2. ASSUME m.next <= flushed PROVE After(m, log).at <= Len(Written)
      <4>1. Holds(m, log)
        BY <1>3, <3>1, <3>2 DEF Holds
      <4>2. log \in Seq(Records) /\ Marked(M, log)
        BY <1>3
      <4>3. After(m, log).at \in Nat
        BY ONLY <4>1, <4>2, m \in M, AfterIs
      <4>4. Len(X) \in Nat /\ Len(Written) \in Nat /\ Len(X) <= Len(Written)
        BY <1>3
      <4> QED
        BY <2>1, <3>2, <4>3, <4>4
    <3>3. m.next <= synced' => m.next <= flushed
      BY <1>2, <1>3, <3>1
    <3>4. m.next <= flushed' => After(m, log).at <= Len(X)
      BY <1>2, <2>1
    <3>5. m.next <= synced' => After(m, log).at <= Len(disk')
      BY <2>3, <3>2, <3>3
    <3> QED
      BY <3>4, <3>5
  <2> QED
    BY <1>2, <2>2, <2>3
<1>6. flushed' \in Int /\ flushed' <= Len(log) /\ synced' \in Int /\ synced' <= flushed'
  BY <1>2, <1>3
<1> QED
  BY <1>1, <1>2, <1>3, <1>4, <1>5, <1>6, FrontKept

\* Where a log begins that nothing has been written of yet
LEMMA OpenFront == ASSUME TypeInv, Open, TypeInv' PROVE FrontFile'
<1>1. disk' = <<>> /\ pend' = <<>> /\ flushed' = 0 /\ synced' = 0
  BY DEF Open
<1>2. <<>> \in Seq(Cells) /\ Written' = <<>> /\ FrontOf(<<>>, <<>>)
  BY <1>1, EmptyTyped, NothingAdded, IsFront DEF Written
<1>3. PICK lh : lh = log'
  OBVIOUS
<1>4. Marked({Start}, lh) /\ Path({Start}, <<>>, lh)
  BY <1>3, EmptyPath DEF TypeInv, TypeOK
<1>5. Start.next = 1
  BY DEF Start
<1>6. FrontShape({Start}, <<>>)'
  BY <1>1, <1>2, <1>3, <1>4, <1>5 DEF FrontShape
<1> QED
  BY <1>6 DEF FrontFile

LEMMA KillFront == ASSUME TypeInv, IntactFile, FrontFile, Kill PROVE FrontFile'
<1>1. PICK M, X : FrontShape(M, X)
  BY FrontBefore
<1>2. log' = log /\ disk' = Written /\ pend' = <<>> /\ flushed' = flushed /\ synced' = synced
  BY DEF Kill
<1>3. /\ Written \in Seq(Cells) /\ X \in Seq(Cells) /\ FrontOf(X, Written) /\ FrontOf(X, X)
      /\ Len(disk) <= Len(Written) /\ Marked(M, log)
      /\ flushed \in Int /\ flushed <= Len(log) /\ synced \in Int /\ synced <= flushed
      /\ log \in Seq(Records) /\ Len(log) \in Nat /\ Len(disk) \in Nat /\ Len(Written) \in Nat
  BY <1>1, StreamTyped, WrittenTyped, IsFront, FlushedTyped DEF FrontShape, TypeInv, BytesTyped
<1>4. Written' = Written
  BY <1>2, <1>3, NothingAdded DEF Written
<1>5. ASSUME NEW m \in M
      PROVE  /\ m.next <= flushed => After(m, log).at <= Len(X)
             /\ m.next <= synced => After(m, log).at <= Len(Written)
  <2>1. /\ m.next <= flushed => After(m, log).at <= Len(X)
        /\ m.next <= synced => After(m, log).at <= Len(disk)
    BY <1>1 DEF FrontShape
  <2>2. ASSUME m.next <= synced PROVE After(m, log).at <= Len(Written)
    <3>1. m.next \in 1 .. Len(log) + 1
      BY <1>3, MarkTyped
    <3>2. Holds(m, log)
      BY <1>3, <2>2, <3>1 DEF Holds
    <3>3. After(m, log).at \in Nat
      BY <1>3, <3>2, AfterIs
    <3> QED
      BY <1>3, <2>1, <2>2, <3>3
  <2> QED
    BY <2>1, <2>2
<1> QED
  BY <1>1, <1>2, <1>3, <1>4, <1>5, FrontKept

\* What was synced is in what survives.
LEMMA LossFront ==
    ASSUME TypeInv, IntactFile, FrontFile, NEW k \in 0 .. Len(pend), PowerLoss(k) PROVE FrontFile'
<1>1. PICK M, X : FrontShape(M, X)
  BY FrontBefore
<1>2. PICK V : V = disk \o SubSeq(pend, 1, k)
  OBVIOUS
<1>3. /\ log' = log /\ pend' = <<>> /\ flushed' = synced /\ synced' = synced
      /\ disk' = V \/ disk' = V \o [j \in 1 .. Len(pend) - k |-> Pad]
  BY <1>2 DEF PowerLoss
<1>4. /\ Written \in Seq(Cells) /\ X \in Seq(Cells) /\ FrontOf(X, Written) /\ Marked(M, log)
      /\ flushed \in Int /\ flushed <= Len(log) /\ synced \in Int /\ synced <= flushed
      /\ log \in Seq(Records) /\ Len(log) \in Nat /\ Len(disk) \in Nat
  BY <1>1, StreamTyped, FlushedTyped DEF FrontShape
<1>5. V \in Seq(Cells) /\ FrontOf(V, Written) /\ Len(disk) <= Len(V) /\ Len(V) \in Nat
  <2>1. V \in Seq(Cells) /\ Len(V) = Len(disk) + k /\ FrontOf(V, Written)
    BY <1>2, WhatSurvives
  <2> QED
    BY <1>4, <2>1
<1>6. disk' \in Seq(Cells) /\ FrontOf(V, disk')
  <2>1. CASE disk' = V
    BY <1>5, <2>1, IsFront
  <2>2. CASE disk' = V \o [j \in 1 .. Len(pend) - k |-> Pad]
    <3>1. Len(pend) - k \in Nat
      BY DEF TypeInv, BytesTyped
    <3>2. [j \in 1 .. Len(pend) - k |-> Pad] \in Seq(Cells)
      BY <3>1, Padding
    <3> QED
      BY <1>5, <2>2, <3>2, Added
  <2> QED
    BY <1>3, <2>1, <2>2
<1>7. Written' = disk'
  BY <1>3, <1>6, NothingAdded DEF Written
<1>8. PICK Z \in {X, V} : FrontOf(Z, X) /\ FrontOf(Z, V)
  <2>1. CASE Len(X) <= Len(V)
    BY <1>4, <1>5, <2>1, FrontsOfOne, IsFront
  <2>2. CASE Len(V) <= Len(X)
    BY <1>4, <1>5, <2>2, FrontsOfOne, IsFront
  <2>3. Len(X) \in Nat
    BY <1>4
  <2> QED
    BY <1>5, <2>1, <2>2, <2>3
<1>9. Z \in Seq(Cells) /\ FrontOf(Z, Written')
  <2>1. Z \in Seq(Cells)
    BY <1>4, <1>5, <1>8
  <2> QED
    BY <1>5, <1>6, <1>7, <1>8, <2>1, FrontFront
<1>10. ASSUME NEW m \in M, m.next <= synced
       PROVE  After(m, log).at <= Len(Z) /\ After(m, log).at <= Len(disk')
  <2>1. m.next \in 1 .. Len(log) + 1
    BY <1>4, MarkTyped
  <2>2. Holds(m, log)
    BY <1>4, <1>10, <2>1 DEF Holds
  <2>3. After(m, log).at \in Nat
    BY <1>4, <2>2, AfterIs
  <2>4. m.next <= flushed
    BY <1>4, <1>10, <2>1
  <2>5. After(m, log).at <= Len(X) /\ After(m, log).at <= Len(disk)
    BY <1>1, <1>10, <2>4 DEF FrontShape
  <2>6. Len(X) \in Nat /\ Len(disk') \in Nat /\ Len(V) <= Len(disk')
    BY <1>4, <1>6 DEF FrontOf
  <2> QED
    BY <1>4, <1>5, <1>8, <2>3, <2>5, <2>6
<1>11. /\ flushed' \in Int /\ flushed' <= Len(log) /\ synced' \in Int /\ synced' <= flushed'
  BY <1>3, <1>4
<1>12. \A m \in M : /\ m.next <= flushed' => After(m, log).at <= Len(Z)
                    /\ m.next <= synced' => After(m, log).at <= Len(disk')
  BY <1>3, <1>10
<1> QED
  BY <1>1, <1>3, <1>8, <1>9, <1>11, <1>12, FrontKept

LEMMA StepFront ==
    ASSUME TypeInv, TypeInv', IntactFile, FrontFile, WriterStep \/ Crash PROVE FrontFile'
  BY WriterFront, OpenFront, KillFront, LossFront DEF Crash

LEMMA FrontStays ==
    ASSUME FrontFile, UNCHANGED <<fileVars, writerVars>> PROVE FrontFile'
  BY DEF fileVars, writerVars, FrontFile, FrontShape, Written

-----------------------------------------------------------------------------
(* The reader                                                               *)

\* Where the reader is in the file
Pos == rpos - Len(buf)

\* What the reader has in its buffer: the rest of a block, or of the file.
AtBlock == Len(buf) = Room(Pos) \/ (Len(buf) = 0 /\ Room(Pos) = BlockSize)
AtLast  == rpos = Len(File) /\ Len(buf) < Room(Pos)
BufferInv ==
    /\ rpc = "off" => buf = <<>> /\ rpos = 0 /\ eof = FALSE /\ parts = <<>> /\ out = <<>>
    /\ rpc # "off" => wpc \in {"closed", "dead"}
    /\ parts \in Seq(Fragments) /\ out \in Seq(Ids)
    /\ rpc = "read" =>
           /\ Len(buf) <= rpos /\ rpos <= Len(File)
           /\ \A j \in 1 .. Len(buf) : buf[j] = File[Pos + j]
           /\ eof => AtLast
           /\ ~eof => AtBlock

LEMMA ReaderTyped ==
    ASSUME TypeInv
    PROVE  /\ buf \in Seq(Cells) /\ Len(buf) \in Nat /\ rpos \in Nat /\ eof \in BOOLEAN
           /\ File \in Seq(Cells) /\ Len(File) \in Nat
           /\ flushed \in Nat /\ faults \in Nat
  BY FileTyped, FlushedTyped DEF TypeInv, TypeOK, BytesTyped

\* How a reader goes on
LEMMA BufferIs ==
    ASSUME TypeInv, BufferInv, rpc = "read"
    PROVE  /\ parts \in Seq(Fragments) /\ out \in Seq(Ids) /\ Len(out) \in Nat
           /\ wpc \in {"closed", "dead"}
           /\ Len(buf) <= rpos /\ rpos <= Len(File)
           /\ \A j \in 1 .. Len(buf) : buf[j] = File[Pos + j]
           /\ Pos \in Nat /\ rpos = Pos + Len(buf)
           /\ Room(Pos) \in 1 .. BlockSize /\ Len(buf) <= Room(Pos)
           /\ eof => AtLast
           /\ ~eof => AtBlock
<1>1. /\ parts \in Seq(Fragments) /\ out \in Seq(Ids) /\ wpc \in {"closed", "dead"}
      /\ Len(buf) <= rpos /\ rpos <= Len(File)
      /\ \A j \in 1 .. Len(buf) : buf[j] = File[Pos + j]
      /\ eof => AtLast
      /\ ~eof => AtBlock
  BY DEF BufferInv
<1>2. Len(buf) \in Nat /\ rpos \in Nat /\ eof \in BOOLEAN
  BY ReaderTyped
<1>3. Pos \in Nat /\ rpos = Pos + Len(buf)
  BY <1>1, <1>2 DEF Pos
<1>4. Room(Pos) \in 1 .. BlockSize
  BY <1>3, RoomTyped
<1>5. Len(buf) <= Room(Pos)
  <2>1. AtLast \/ AtBlock
    BY <1>1
  <2> QED
    BY <1>2, <1>4, <2>1 DEF AtLast, AtBlock
<1> QED
  BY <1>1, <1>3, <1>4, <1>5

\* The file begins with what the writer wrote; a new file holds nothing else.
LEMMA FileIs ==
    ASSUME TypeInv
    PROVE  /\ FrontOf(Written, File) /\ Len(Written) <= Len(File)
           /\ base = <<>> => File = Written
<1>1. base \in Seq(Cells) /\ Written \in Seq(Cells) /\ Len(Written) \in Nat /\ Len(base) \in Nat
  BY WrittenTyped DEF TypeInv, BytesTyped
<1>2. PICK t : t = SubSeq(base, Len(Written) + 1, Len(base))
  OBVIOUS
<1>3. t \in Seq(Cells)
  BY <1>1, <1>2
<1>4. File = Written \o t
  BY <1>2 DEF File
<1>5. FrontOf(Written, File)
  BY <1>1, <1>3, <1>4, Added
<1>6. ASSUME base = <<>> PROVE File = Written
  <2>1. Len(base) = 0
    BY <1>6
  <2>2. Len(t) = 0
    BY <1>1, <1>2, <2>1
  <2>3. t = <<>>
    BY <1>3, <2>2
  <2> QED
    BY <1>1, <1>4, <2>3, NothingAdded
<1> QED
  BY <1>5, <1>6 DEF FrontOf

\* A fragment of which the buffer begins with all that is there of it is found.
LEMMA IsFound ==
    ASSUME TypeInv, NEW f \in Fragments, Len(buf) >= HeaderSize,
           \A j \in 1 .. HeaderSize + f.size : j <= Len(buf) => buf[j] = Bytes(f)[j]
    PROVE  /\ WellFormed /\ Found = f /\ Sizes = {f.size}
           /\ HeaderSize + f.size <= Len(buf) => Matches
<1>1. buf \in Seq(Cells) /\ Len(buf) \in Nat /\ HeaderSize \in Nat \ {0}
  BY ReaderTyped
<1>2. f.size \in Nat /\ Header(f) \in Seq(Cells) /\ Data(f) \in Seq(Cells)
      /\ Len(Header(f)) = HeaderSize /\ Len(Data(f)) = f.size
  BY FragmentBytes DEF Fragments
<1>3. \A j \in 1 .. HeaderSize : buf[j] = Header(f)[j]
  BY <1>1, <1>2 DEF Bytes
<1>4. buf[1] = [part |-> "header", at |-> 1, frag |-> f]
  BY <1>1, <1>2, FirstByte
<1>5. buf[1].part = "header" /\ Found = f
  BY <1>4 DEF Found
<1>6. SubSeq(buf, 1, HeaderSize) = Header(f)
  <2>1. /\ SubSeq(buf, 1, HeaderSize) \in Seq(Cells) /\ Len(SubSeq(buf, 1, HeaderSize)) = HeaderSize
        /\ \A j \in 1 .. HeaderSize : SubSeq(buf, 1, HeaderSize)[j] = buf[j]
    BY <1>1
  <2> QED
    BY <1>2, <1>3, <2>1, SameSequence
<1>7. WellFormed
  BY <1>5, <1>6 DEF WellFormed, HeaderIs
<1>8. Sizes = {f.size}
  BY <1>5, <1>7 DEF Sizes
<1>9. ASSUME HeaderSize + f.size <= Len(buf) PROVE Intact
  <2> DEFINE s == SubSeq(buf, HeaderSize + 1, HeaderSize + f.size)
  <2>1. s \in Seq(Cells) /\ Len(s) = f.size
    BY <1>1, <1>2, <1>9, BytesFrom
  <2>2. ASSUME NEW i \in 1 .. f.size PROVE s[i] = Data(f)[i]
    <3>1. s[i] = buf[HeaderSize + i]
      BY <1>1, <1>2, <1>9
    <3>2. HeaderSize + i \in 1 .. HeaderSize + f.size /\ HeaderSize + i <= Len(buf)
      BY <1>1, <1>2, <1>9
    <3>3. Bytes(f)[HeaderSize + i] = Data(f)[i]
      BY BytesAre
    <3> QED
      BY <3>1, <3>2, <3>3
  <2> HIDE DEF s
  <2>3. s = Data(f)
    BY <1>2, <2>1, <2>2, SameSequence
  <2> QED
    BY <1>5, <2>3 DEF Intact, s
<1> QED
  BY <1>5, <1>7, <1>8, <1>9 DEF Matches

LEMMA InitBuffer == Init => BufferInv
<1>1. <<>> \in Seq(Fragments) /\ <<>> \in Seq(Ids)
  OBVIOUS
<1> QED
  BY <1>1 DEF Init, BufferInv

\* While nobody reads, and when nothing is done
LEMMA QuietBuffer ==
    ASSUME BufferInv,
           \/ rpc = "off" /\ UNCHANGED readerVars
           \/ UNCHANGED <<fileVars, writerVars, readerVars>>
    PROVE  BufferInv'
<1>1. CASE rpc = "off" /\ UNCHANGED readerVars
  BY <1>1 DEF BufferInv, readerVars
<1>2. CASE UNCHANGED <<fileVars, writerVars, readerVars>>
  BY <1>2 DEF BufferInv, AtBlock, AtLast, Room, readerVars, fileVars, writerVars, Pos, File, Written
<1> QED
  BY <1>1, <1>2

LEMMA BeginBuffer == ASSUME TypeInv, BufferInv, ReaderOpen PROVE BufferInv' /\ Pos' = 0
<1>1. /\ UNCHANGED <<fileVars, writerVars, buf, rpos, eof, parts, out>>
      /\ rpc = "off" /\ rpc' = "read"
      /\ wpc \in {"closed", "dead"}
  BY DEF ReaderOpen
<1>2. /\ wpc' = wpc /\ buf' = buf /\ rpos' = rpos /\ eof' = eof /\ parts' = parts /\ out' = out
      /\ File' = File
  BY <1>1 DEF fileVars, writerVars, File, Written
<1>3. buf = <<>> /\ rpos = 0 /\ eof = FALSE /\ Len(buf) = 0 /\ Pos = 0
  <2>1. buf = <<>> /\ rpos = 0 /\ eof = FALSE
    BY <1>1 DEF BufferInv
  <2>2. Len(buf) = 0 /\ rpos = 0
    BY <2>1, EmptyTyped
  <2>3. Pos = 0
    BY <2>2 DEF Pos
  <2> QED
    BY <2>1, <2>2, <2>3
<1>4. Len(File) \in Nat
  BY ReaderTyped
<1>5. Room(0) = BlockSize
  <2>1. 0 % BlockSize = 0
    OBVIOUS
  <2> QED
    BY <2>1, RoomStart
<1>6. Pos' = 0 /\ Room(Pos)' = BlockSize
  BY <1>2, <1>3, <1>5 DEF Pos, Room
<1>7. parts \in Seq(Fragments) /\ out \in Seq(Ids)
  BY DEF BufferInv
<1>8. AtBlock' /\ eof' = FALSE
  BY <1>2, <1>3, <1>6 DEF AtBlock
<1> QED
  BY <1>1, <1>2, <1>3, <1>4, <1>6, <1>7, <1>8 DEF BufferInv

\* What file_.read gives
LEMMA BlockIs ==
    ASSUME TypeInv, BufferInv, ReadBlock
    PROVE  \E n \in Nat :
        /\ n <= BlockSize /\ rpos + n <= Len(File)
        /\ n = BlockSize \/ rpos + n = Len(File)
        /\ buf' = SubSeq(File, rpos + 1, rpos + n) /\ rpos' = rpos + n
        /\ eof' = (n < BlockSize) /\ rpc' = IF n = 0 THEN "done" ELSE "read"
        /\ Len(buf') = n /\ \A j \in 1 .. n : buf'[j] = File[rpos + j]
        /\ UNCHANGED <<parts, out>>
        /\ Len(buf) < HeaderSize /\ AtBlock /\ rpc = "read"
<1> DEFINE n    == Len(File) - rpos
           size == IF n < 0 THEN 0 ELSE IF n < BlockSize THEN n ELSE BlockSize
<1>1. File \in Seq(Cells) /\ Len(File) \in Nat /\ rpos \in Nat
  BY ReaderTyped
<1>2. rpc = "read" /\ rpos <= Len(File)
  BY DEF ReadBlock, ReadStep, BufferInv
<1>3. size \in Nat /\ size <= BlockSize /\ rpos + size <= Len(File)
      /\ (size = BlockSize \/ rpos + size = Len(File))
  BY <1>1, <1>2
<1>4. /\ buf' = SubSeq(File, rpos + 1, rpos + size) /\ rpos' = rpos + size
      /\ eof' = (size < BlockSize) /\ rpc' = IF size = 0 THEN "done" ELSE "read"
      /\ UNCHANGED <<parts, out>> /\ Len(buf) < HeaderSize /\ ~eof
  BY DEF ReadBlock
<1> HIDE DEF size
<1>5. Len(buf') = size /\ \A j \in 1 .. size : buf'[j] = File[rpos + j]
  <2>1. PICK F \in Seq(Cells), a \in Nat, k \in Nat : F = File /\ a = rpos /\ k = size
    BY <1>1, <1>3
  <2>2. a + k <= Len(F)
    BY <1>3, <2>1
  <2>3. Len(SubSeq(F, a + 1, a + k)) = k
    BY <2>2, BytesFrom
  <2>4. ASSUME NEW j \in 1 .. k PROVE SubSeq(F, a + 1, a + k)[j] = F[a + j]
    BY <2>2
  <2> QED
    BY <1>4, <2>1, <2>3, <2>4
<1>6. AtBlock
  BY <1>2, <1>4, BufferIs
<1> QED
  BY <1>2, <1>3, <1>4, <1>5, <1>6

\* Where that leaves the reader, if there is more
LEMMA BlockBuffer ==
    ASSUME TypeInv, BufferInv, ReadBlock
    PROVE  /\ BufferInv'
           /\ rpc' = "read" => Pos' = IF Len(buf) = 0 THEN Pos ELSE Pos + Room(Pos)
           /\ rpc' = "read" => Pos' < Len(File)
           /\ Len(buf) # 0 => Pos + Room(Pos) = rpos /\ Room(Pos) < HeaderSize
           /\ rpc' = "read" \/ (rpc' = "done" /\ rpos = Len(File))
           /\ UNCHANGED <<parts, out>>
<1>1. PICK n \in Nat :
        /\ n <= BlockSize /\ rpos + n <= Len(File)
        /\ n = BlockSize \/ rpos + n = Len(File)
        /\ buf' = SubSeq(File, rpos + 1, rpos + n) /\ rpos' = rpos + n
        /\ eof' = (n < BlockSize) /\ rpc' = IF n = 0 THEN "done" ELSE "read"
        /\ Len(buf') = n /\ \A j \in 1 .. n : buf'[j] = File[rpos + j]
        /\ UNCHANGED <<parts, out>>
        /\ Len(buf) < HeaderSize /\ AtBlock /\ rpc = "read"
  BY BlockIs
<1>0. /\ n <= BlockSize /\ rpos + n <= Len(File)
      /\ n = BlockSize \/ rpos + n = Len(File)
      /\ rpos' = rpos + n /\ Len(buf') = n /\ Len(buf) < HeaderSize /\ AtBlock /\ rpc = "read"
      /\ rpc' = IF n = 0 THEN "done" ELSE "read"
  BY <1>1
<1>2. /\ File' = File /\ wpc' = wpc
  <2>1. UNCHANGED <<fileVars, writerVars>>
    BY DEF ReadBlock, ReadStep
  <2> QED
    BY <2>1 DEF fileVars, writerVars, File, Written
<1>3. /\ Len(buf) \in Nat /\ rpos \in Nat /\ Len(File) \in Nat
  BY ReaderTyped
<1>4. /\ Len(buf) <= rpos /\ rpos <= Len(File) /\ parts \in Seq(Fragments)
      /\ out \in Seq(Ids) /\ wpc \in {"closed", "dead"}
      /\ Pos \in Nat /\ rpos = Pos + Len(buf)
  BY <1>1, BufferIs
<1>5. PICK q \in Nat : q = Pos /\ rpos = q + Len(buf)
  BY <1>4
<1>6. Room(q) \in 1 .. BlockSize /\ (Len(buf) = Room(q) \/ (Len(buf) = 0 /\ Room(q) = BlockSize))
  BY <1>0, <1>5, RoomTyped DEF AtBlock
<1>7. /\ Len(buf) # 0 => q + Room(q) = rpos /\ Room(q) < HeaderSize
      /\ Len(buf) = 0 => q = rpos /\ Room(q) = BlockSize
  BY <1>0, <1>3, <1>5, <1>6
<1>8. Room(rpos) = BlockSize
  BY <1>5, <1>7, RoomNext
<1>9. Pos' = rpos
  BY <1>0, <1>3 DEF Pos
<1>10. Room(Pos)' = BlockSize
  BY <1>8, <1>9 DEF Room
<1>11. BufferInv'
  <2>1. rpc' \in {"read", "done"}
    BY <1>0
  <2>2. Len(buf') <= rpos' /\ rpos' <= Len(File')
    BY <1>0, <1>2, <1>3
  <2>3. \A j \in 1 .. Len(buf') : buf'[j] = File'[Pos' + j]
    BY <1>1, <1>2, <1>9
  <2>4. n < BlockSize => AtLast'
    BY <1>0, <1>2, <1>3, <1>10 DEF AtLast
  <2>5. ~(n < BlockSize) => AtBlock'
    BY <1>0, <1>10 DEF AtBlock
  <2> QED
    <3>1. (eof' => AtLast') /\ (~eof' => AtBlock')
      BY <1>1, <2>4, <2>5
    <3>2. parts' = parts /\ out' = out
      BY <1>1
    <3> QED
      BY <1>2, <1>4, <2>1, <2>2, <2>3, <3>1, <3>2 DEF BufferInv
<1>12. rpc' = "read" => rpos < Len(File)
  BY <1>0, <1>3
<1>13. rpc' = "done" => rpos = Len(File)
  BY <1>0, <1>3
<1>14. rpc' \in {"read", "done"}
  BY <1>0
<1>16. UNCHANGED <<parts, out>>
  BY <1>1
<1>15. rpc' = "read" => Pos' = (IF Len(buf) = 0 THEN Pos ELSE Pos + Room(Pos))
  BY <1>3, <1>5, <1>7, <1>9
<1>17. rpc' = "read" => Pos' < Len(File)
  BY <1>9, <1>12
<1>18. Len(buf) # 0 => Pos + Room(Pos) = rpos /\ Room(Pos) < HeaderSize
  BY <1>5, <1>7
<1> QED
  BY <1>11, <1>13, <1>14, <1>15, <1>16, <1>17, <1>18

LEMMA RecordOfTyped ==
    ASSUME NEW ps \in Seq(Fragments), NEW f \in Fragments
    PROVE  RecordOf(Append(ps, f)) \in Ids
<1>1. PICK q : q = Append(ps, f)
  OBVIOUS
<1>2. q \in Seq(Fragments) /\ Len(q) >= 1
  BY <1>1
<1>3. q[1] \in Fragments
  BY <1>2
<1>4. q[1].id \in Ids
  BY <1>3 DEF Fragments
<1> QED
  BY <1>1, <1>4 DEF RecordOf, Torn, Ids

LEMMA StrayTyped == ASSUME NEW t \in Kinds PROVE Stray(t) \in Fragments
  BY DEF Stray, Torn, Fragments, Ids

\* What ReadRecord makes of what it finds, be it a fragment or not
LEMMA TakeTyped ==
    ASSUME parts \in Seq(Fragments), out \in Seq(Ids), NEW f, NEW n, Take(f, n),
           f.type # "none" => f \in Fragments
    PROVE  /\ parts' \in Seq(Fragments) /\ out' \in Seq(Ids)
           /\ out' = out \/ (\E r \in Ids : out' = Append(out, r) /\ rpc' = "read")
<1>1. /\ parts' = <<>> \/ (f.type # "none" /\ parts' = Append(parts, f))
      /\ \/ out' = out
         \/ /\ f.type # "none" /\ rpc' = "read"
            /\ out' = Append(out, RecordOf(Append(parts, f)))
  BY DEF Take
<1>2. parts' \in Seq(Fragments)
  <2>1. CASE parts' = <<>>
    BY <2>1
  <2>2. CASE f.type # "none" /\ parts' = Append(parts, f)
    <3>1. f \in Fragments /\ parts' = Append(parts, f)
      BY <2>2
    <3> QED
      BY ONLY <3>1, parts \in Seq(Fragments)
  <2> QED
    BY <1>1, <2>1, <2>2
<1>3. CASE out' = out
  BY <1>2, <1>3
<1>4. CASE f.type # "none" /\ rpc' = "read" /\ out' = Append(out, RecordOf(Append(parts, f)))
  <2>1. PICK r \in Ids : r = RecordOf(Append(parts, f))
    BY <1>4, RecordOfTyped
  <2>2. out' = Append(out, r)
    BY <1>4, <2>1
  <2>3. out' \in Seq(Ids)
    BY ONLY <2>2, out \in Seq(Ids)
  <2> QED
    BY <1>2, <1>4, <2>2, <2>3
<1> QED
  BY <1>1, <1>3, <1>4

\* Reading on behind a fragment, or what the reader takes for one
LEMMA TakeBuffer ==
    ASSUME TypeInv, BufferInv, ReadFragment \/ ReadUnchecked
    PROVE  /\ BufferInv'
           /\ out' = out \/ (\E r \in Ids : out' = Append(out, r) /\ rpc' = "read")
           /\ rpc' \in {"read", "thrown"}
           /\ Pos \in Nat
           /\ ReadFragment => /\ Pos' = Pos + HeaderSize + Found.size
                              /\ Found \in Fragments
<1>1. /\ buf \in Seq(Cells) /\ Len(buf) \in Nat /\ rpos \in Nat
      /\ Len(File) \in Nat /\ eof \in BOOLEAN
      /\ HeaderSize \in Nat \ {0}
  BY ReaderTyped
<1>2. rpc = "read" /\ UNCHANGED <<fileVars, writerVars>>
  BY DEF ReadFragment, ReadUnchecked, ReadStep
<1>3. PICK n \in Nat : /\ HeaderSize + n <= Len(buf)
                       /\ buf' = SubSeq(buf, HeaderSize + n + 1, Len(buf))
                       /\ rpc' \in {"read", "thrown"} /\ rpos' = rpos /\ eof' = eof
                       /\ parts' \in Seq(Fragments) /\ out' \in Seq(Ids)
                       /\ out' = out \/ (\E r \in Ids : out' = Append(out, r) /\ rpc' = "read")
                       /\ ReadFragment => n = Found.size /\ Found \in Fragments
  <2>1. BytesTyped /\ parts \in Seq(Fragments) /\ out \in Seq(Ids)
    BY DEF TypeInv, BufferInv
  <2>2. CASE ReadFragment
    <3>1. Len(buf) >= HeaderSize /\ Matches /\ Take(Found, Found.size)
      BY <2>2 DEF ReadFragment
    <3>2. WellFormed /\ HeaderSize + Found.size <= Len(buf)
      BY <3>1 DEF Matches
    <3>3. Found \in Fragments /\ Found.size \in Nat
      BY <2>1, <3>1, <3>2, FoundTyped DEF Fragments
    <3>4. /\ parts' \in Seq(Fragments) /\ out' \in Seq(Ids)
          /\ out' = out \/ (\E r \in Ids : out' = Append(out, r) /\ rpc' = "read")
      BY <2>1, <3>1, <3>3, TakeTyped
    <3>5. /\ buf' = SubSeq(buf, HeaderSize + Found.size + 1, Len(buf))
          /\ rpc' \in {"read", "thrown"} /\ rpos' = rpos /\ eof' = eof
      BY <3>1 DEF Take
    <3> QED
      BY <3>2, <3>3, <3>4, <3>5
  <2>3. CASE ReadUnchecked
    <3>1. PICK n \in Sizes, t \in Types : HeaderSize + n <= Len(buf) /\ Take(Stray(t), n)
      BY <2>3 DEF ReadUnchecked
    <3>2. n \in Nat /\ Len(buf) >= HeaderSize
      BY <2>1, <2>3, SizesTyped DEF ReadUnchecked
    <3>3. t # "none" => t \in Kinds
      <4>1. ASSUME IsType(buf[HeaderSize]) PROVE buf[HeaderSize].frag.type \in Kinds
        <5>1. buf[HeaderSize] \in Cells /\ buf[HeaderSize].part = "header"
          BY <1>1, <3>2, <4>1 DEF IsType
        <5>2. buf[HeaderSize].frag \in Fragments
          BY <5>1 DEF Cells, Pad
        <5> QED
          BY <5>2 DEF Fragments
      <4> QED
        BY <3>1, <4>1 DEF Types, Kinds
    <3>4. Stray(t).type # "none" => Stray(t) \in Fragments
      BY <3>3, StrayTyped DEF Stray
    <3>5. /\ parts' \in Seq(Fragments) /\ out' \in Seq(Ids)
          /\ out' = out \/ (\E r \in Ids : out' = Append(out, r) /\ rpc' = "read")
      BY <2>1, <3>1, <3>4, TakeTyped
    <3>6. /\ buf' = SubSeq(buf, HeaderSize + n + 1, Len(buf))
          /\ rpc' \in {"read", "thrown"} /\ rpos' = rpos /\ eof' = eof
      BY <3>1 DEF Take
    <3>7. ~ReadFragment
      BY <2>3 DEF ReadFragment, ReadUnchecked
    <3> QED
      BY <3>1, <3>2, <3>5, <3>6, <3>7
  <2> QED
    BY <2>2, <2>3
<1>5. /\ Len(buf) <= rpos /\ rpos <= Len(File) /\ wpc \in {"closed", "dead"}
      /\ \A j \in 1 .. Len(buf) : buf[j] = File[Pos + j]
      /\ eof => AtLast
      /\ ~eof => AtBlock
  BY <1>2, BufferIs
<1>6. PICK q \in Nat : q = Pos /\ rpos = q + Len(buf) /\ Len(buf) <= Room(q)
  BY <1>2, BufferIs
<1>7. PICK d \in Nat : d = HeaderSize + n /\ d > 0 /\ d <= Len(buf)
  <2>1. HeaderSize + n \in Nat /\ HeaderSize + n > 0
    BY <1>1
  <2> QED
    BY <1>3, <2>1
<1>8. Room(q) \in 1 .. BlockSize /\ Len(buf) <= Room(q) /\ d <= Room(q)
  <2>1. Room(q) \in 1 .. BlockSize
    BY RoomTyped
  <2> QED
    BY <1>1, <1>6, <1>7, <2>1
<1>9. /\ buf' \in Seq(Cells) /\ Len(buf') = Len(buf) - d
      /\ \A j \in 1 .. Len(buf) - d : buf'[j] = buf[d + j]
  <2>1. buf' = SubSeq(buf, d + 1, Len(buf))
    BY <1>3, <1>7
  <2>2. PICK b \in Seq(Cells) : b = buf
    BY <1>1
  <2>3. /\ SubSeq(b, d + 1, Len(b)) \in Seq(Cells) /\ Len(SubSeq(b, d + 1, Len(b))) = Len(b) - d
        /\ \A j \in 1 .. Len(b) - d : SubSeq(b, d + 1, Len(b))[j] = b[d + j]
    BY <1>7, <2>2
  <2> QED
    BY <2>1, <2>2, <2>3
<1>11. Pos' = q + d
  <2>1. Pos' = rpos' - Len(buf')
    BY DEF Pos
  <2> QED
    BY <1>1, <1>3, <1>6, <1>7, <1>9, <2>1
<1>12. Room(Pos)' = Room(q + d)
  BY <1>11 DEF Room
<1>13. /\ d < Room(q) => Room(q + d) = Room(q) - d
       /\ d = Room(q) => Room(q + d) = BlockSize
  BY RoomLater, RoomNext
<1>14. File' = File /\ wpc' = wpc
  BY <1>2 DEF fileVars, writerVars, File, Written
<1>16. BufferInv'
  <2>1. Len(buf') <= rpos' /\ rpos' <= Len(File')
    BY SMTT(15), <1>1, <1>3, <1>5, <1>7, <1>9, <1>14
  <2>2. \A j \in 1 .. Len(buf') : buf'[j] = File'[Pos' + j]
    <3> SUFFICES ASSUME NEW j \in 1 .. Len(buf) - d PROVE buf'[j] = File[q + d + j]
      BY <1>9, <1>11, <1>14
    <3>1. d + j \in 1 .. Len(buf)
      BY <1>1, <1>7
    <3>2. buf[d + j] = File[q + (d + j)]
      BY <1>5, <1>6, <3>1
    <3>3. q + (d + j) = q + d + j
      BY <1>7
    <3> QED
      BY <1>9, <3>2, <3>3
  <2>3. AtLast => AtLast'
    BY <1>1, <1>3, <1>6, <1>7, <1>8, <1>9, <1>12, <1>13, <1>14 DEF AtLast
  <2>4. ASSUME AtBlock PROVE AtBlock'
    <3>1. Len(buf) = Room(q) /\ Len(buf) \in Nat
      BY <1>1, <1>6, <1>7, <2>4 DEF AtBlock
    <3>2. CASE d < Room(q)
      BY <1>9, <1>12, <1>13, <3>1, <3>2 DEF AtBlock
    <3>3. CASE d = Room(q)
      <4>1. Len(buf') = 0 /\ Room(Pos)' = BlockSize
        BY <1>9, <1>12, <1>13, <3>1, <3>3
      <4> QED
        BY <4>1 DEF AtBlock
    <3> QED
      BY <1>7, <1>8, <3>1, <3>2, <3>3
  <2>5. (eof' => AtLast') /\ (~eof' => AtBlock')
    BY <1>3, <1>5, <2>3, <2>4
  <2> QED
    <3>1. wpc' \in {"closed", "dead"} /\ rpc' # "off"
      BY <1>3, <1>5, <1>14
    <3> QED
      BY <1>3, <2>1, <2>2, <2>5, <3>1 DEF BufferInv
<1>17. ReadFragment => Pos' = Pos + HeaderSize + Found.size
  <2>1. q + d = q + HeaderSize + n
    BY <1>1, <1>7
  <2> QED
    BY <1>3, <1>6, <1>11, <2>1
<1> QED
  <2>1. /\ rpc' \in {"read", "thrown"} /\ (ReadFragment => Found \in Fragments)
        /\ out' = out \/ (\E r \in Ids : out' = Append(out, r) /\ rpc' = "read")
    BY <1>3
  <2> QED
    BY <1>6, <1>16, <1>17, <2>1

LEMMA ReadsBuffer == ASSUME TypeInv, BufferInv, ReaderOpen \/ Read PROVE BufferInv'
<1>1. ASSUME ReadEnd \/ ReadTooLong \/ ReadMismatch PROVE BufferInv'
  <2>1. /\ UNCHANGED <<fileVars, writerVars, parts, out>> /\ rpc = "read"
        /\ \/ rpc' \in {"done", "thrown"}
           \/ rpc' = "read" /\ UNCHANGED <<buf, rpos, eof>>
    BY <1>1 DEF ReadEnd, ReadTooLong, ReadMismatch, ReadStep
  <2>2. wpc' = wpc /\ parts' = parts /\ out' = out
    BY <2>1 DEF writerVars
  <2>3. CASE rpc' \in {"done", "thrown"}
    BY <2>1, <2>2, <2>3 DEF BufferInv
  <2>4. CASE rpc' = "read" /\ UNCHANGED <<buf, rpos, eof>>
    BY <2>1, <2>4, QuietBuffer DEF readerVars
  <2> QED
    BY <2>1, <2>3, <2>4
<1> QED
  BY <1>1, BeginBuffer, BlockBuffer, TakeBuffer DEF Read

\* The fragments ps are the first n bytes of record id.
Chain(ps, id, n) ==
    /\ ps # <<>> /\ \A j \in 1 .. Len(ps) : ps[j].id = id
    /\ ps[1].from = 0
    /\ \A j \in 1 .. Len(ps) - 1 : ps[j + 1].from = ps[j].from + ps[j].size
    /\ ps[Len(ps)].from + ps[Len(ps)].size = n

LEMMA ChainGrows ==
    ASSUME NEW ps \in Seq(Fragments), NEW f \in Fragments,
           \/ ps = <<>> /\ f.from = 0
           \/ Chain(ps, f.id, f.from)
    PROVE  Chain(Append(ps, f), f.id, f.from + f.size)
<1>0. Append(ps, f) \in Seq(Fragments)
  OBVIOUS
<1>1. PICK q \in Seq(Fragments) : q = Append(ps, f)
  BY <1>0
<1>2. Len(ps) \in Nat /\ Len(q) = Len(ps) + 1 /\ q # <<>> /\ q[Len(q)] = f
      /\ \A j \in 1 .. Len(ps) : q[j] = ps[j]
  BY <1>1
<1>3. CASE ps = <<>> /\ f.from = 0
  <2>1. Len(ps) = 0
    BY <1>3
  <2>2. Len(q) = 1 /\ q[1] = f
    BY <1>2, <2>1
  <2> QED
    BY <1>1, <1>2, <1>3, <2>2 DEF Chain
<1>4. CASE Chain(ps, f.id, f.from)
  <2>1. Len(ps) >= 1
    BY <1>2, <1>4, NotEmpty DEF Chain
  <2>2. \A j \in 1 .. Len(q) : q[j].id = f.id
    <3>1. \A j \in 1 .. Len(ps) : q[j].id = f.id
      BY <1>2, <1>4 DEF Chain
    <3>2. \A j \in 1 .. Len(q) : j \in 1 .. Len(ps) \/ j = Len(q)
      BY <1>2
    <3> QED
      BY <1>2, <3>1, <3>2
  <2>3. q[1].from = 0
    BY <1>2, <1>4, <2>1 DEF Chain
  <2>4. ASSUME NEW j \in 1 .. Len(q) - 1 PROVE q[j + 1].from = q[j].from + q[j].size
    <3>1. CASE j = Len(ps)
      <4>1. q[j + 1] = f /\ q[j] = ps[Len(ps)]
        BY <1>2, <2>1, <3>1
      <4>2. ps[Len(ps)].from + ps[Len(ps)].size = f.from
        BY <1>4 DEF Chain
      <4> QED
        BY <4>1, <4>2
    <3>2. CASE j # Len(ps)
      <4>1. j \in 1 .. Len(ps) - 1 /\ j \in 1 .. Len(ps) /\ j + 1 \in 1 .. Len(ps)
        BY <1>2, <3>2
      <4>2. q[j + 1] = ps[j + 1] /\ q[j] = ps[j]
        BY <1>2, <4>1
      <4>3. ps[j + 1].from = ps[j].from + ps[j].size
        BY <1>4, <4>1 DEF Chain
      <4> QED
        BY <4>2, <4>3
    <3> QED
      BY <3>1, <3>2
  <2> QED
    BY <1>1, <1>2, <2>2, <2>3, <2>4 DEF Chain
<1> QED
  BY <1>3, <1>4

LEMMA ChainWhole ==
    ASSUME NEW ps \in Seq(Fragments), NEW id, Chain(ps, id, id[3])
    PROVE  RecordOf(ps) = id
<1>1. DOMAIN ps = 1 .. Len(ps) /\ Len(ps) >= 1
  BY NotEmpty DEF Chain
<1>2. ps[1].id = id
  BY <1>1 DEF Chain
<1> QED
  BY <1>1, <1>2 DEF Chain, RecordOf

\* What ReadRecord has put together at mark m
PartsAre(m, lg) == IF m.begin THEN parts = <<>> ELSE Chain(parts, lg[m.next], m.from)

\* ... and together with the fragment it finds there
LEMMA PartsGrow ==
    ASSUME NEW lg \in Seq(Records), NEW M, Marked(M, lg), NEW m \in M,
           parts \in Seq(Fragments), PartsAre(m, lg),
           NEW f \in Fragments, NEW n \in m.next .. Len(lg), Expected(f, m, n, lg)
    PROVE  /\ parts = <<>> <=> m.begin
           /\ Chain(Append(parts, f), lg[n], f.from + f.size)
           /\ Ends(f) => RecordOf(Append(parts, f)) = lg[n]
<1>1. /\ m.begin \in BOOLEAN /\ m.begin => m.from = 0
  BY MarkTyped
<1>2. parts = <<>> <=> m.begin
  BY <1>1 DEF PartsAre, Chain
<1>3. f.id = lg[n] /\ f.from = m.from /\ (~m.begin => n = m.next)
      /\ (Ends(f) <=> f.from + f.size = lg[n][3])
  BY DEF Expected
<1>4. Chain(Append(parts, f), f.id, f.from + f.size)
  <2>1. CASE m.begin
    BY <1>1, <1>2, <1>3, <2>1, ChainGrows
  <2>2. CASE ~m.begin
    BY <1>3, <2>2, ChainGrows DEF PartsAre
  <2> QED
    BY <1>1, <2>1, <2>2
<1>5. ASSUME Ends(f) PROVE RecordOf(Append(parts, f)) = lg[n]
  <2>1. Append(parts, f) \in Seq(Fragments)
    OBVIOUS
  <2>2. Chain(Append(parts, f), f.id, f.id[3])
    BY <1>3, <1>4, <1>5
  <2> QED
    BY <1>3, <2>1, <2>2, ChainWhole
<1> QED
  BY <1>2, <1>3, <1>4, <1>5

\* What ReadRecord does with the fragment it finds
LEMMA TakesIs ==
    ASSUME ReadFragment, Found \in Fragments
    PROVE  /\ (Starts(Found) <=> parts = <<>>) =>
                  /\ rpc' = "read"
                  /\ Ends(Found) => /\ parts' = <<>>
                                    /\ out' = Append(out, RecordOf(Append(parts, Found)))
                  /\ ~Ends(Found) => parts' = Append(parts, Found) /\ out' = out
           /\ UNCHANGED <<fileVars, writerVars>> /\ rpc = "read"
<1>1. Found.type # "none"
  BY DEF Fragments, Kinds
<1>2. Take(Found, Found.size) /\ UNCHANGED <<fileVars, writerVars>> /\ rpc = "read"
  BY DEF ReadFragment, ReadStep
<1> QED
  BY <1>1, <1>2 DEF Take, Starts, Ends

\* Where that leaves it
LEMMA PartsThen ==
    ASSUME TypeInv, NEW M, Marked(M, log), NEW m \in M,
           parts \in Seq(Fragments), PartsAre(m, log), ReadFragment,
           NEW f \in Fragments, f = Found, Starts(f) <=> m.begin,
           NEW n \in m.next .. Len(log), Expected(f, m, n, log)
    PROVE  /\ PartsAre(Then(m, n, f), log)'
           /\ rpc' = "read"
           /\ Ends(f) => out' = Append(out, log[n])
           /\ ~Ends(f) => out' = out
<1>1. log \in Seq(Records)
  BY LogTyped
<1>2. /\ parts = <<>> <=> m.begin
      /\ Chain(Append(parts, f), log[n], f.from + f.size)
      /\ Ends(f) => RecordOf(Append(parts, f)) = log[n]
  BY <1>1, PartsGrow
<1>3. /\ rpc' = "read"
      /\ Ends(f) => parts' = <<>> /\ out' = Append(out, RecordOf(Append(parts, f)))
      /\ ~Ends(f) => parts' = Append(parts, f) /\ out' = out
      /\ log' = log
  BY <1>2, TakesIs DEF writerVars
<1>4. PICK k : k = Then(m, n, f)
  OBVIOUS
<1>5. /\ k.begin = Ends(f) /\ (~Ends(f) => k.next = n /\ k.from = f.from + f.size)
  BY <1>4 DEF Then
<1>6. PartsAre(k, log)'
  <2>1. CASE Ends(f)
    BY <1>3, <1>5, <2>1 DEF PartsAre
  <2>2. CASE ~Ends(f)
    <3>1. parts' = Append(parts, f) /\ log' = log /\ k.next = n /\ k.from = f.from + f.size
      BY <1>3, <1>5, <2>2
    <3>2. Chain(parts', log'[k.next], k.from)
      BY <1>2, <3>1
    <3> QED
      BY <1>5, <2>2, <3>2 DEF PartsAre
  <2> QED
    BY <2>1, <2>2
<1> QED
  BY <1>2, <1>3, <1>4, <1>6

-----------------------------------------------------------------------------
(* Reading what was flushed, and a whole file that nothing damaged           *)

\* The reader is at mark m.
AtMark(m)  == m.at = Pos /\ PartsAre(m, log)
\* Fragment f of record n is read at mark m.
Takes(M, m, f, n) ==
    /\ m \in M /\ f \in Fragments /\ f = Found /\ Expected(f, m, n, log)
    /\ Starts(f) <=> m.begin
    /\ n \in m.next .. Len(log) /\ Then(m, n, f) \in M

\* What ends the reading, or changes nothing
LEMMA EndsIs ==
    ASSUME ReadEnd \/ ReadTooLong \/ ReadMismatch
    PROVE  /\ UNCHANGED <<fileVars, writerVars, parts, out>> /\ rpc = "read"
           /\ \/ rpc' \in {"done", "thrown"}
              \/ rpc' = "read" /\ UNCHANGED vars
  BY DEF ReadEnd, ReadTooLong, ReadMismatch, ReadStep, vars, readerVars

\* Until it comes to the damage, or to what an older log left, the reader is where the
\* next record is.
Sound == rpc = "read" /\ ((faults = 0 /\ base = <<>>) \/ Len(out) < flushed)

\* X is the front of the file that is intact; without damage that is all that was written.
Clean(M, X) == FrontShape(M, X) /\ (faults = 0 => X = Written)
ReadInv ==
    Sound => \E M, X : Clean(M, X) /\ \E m \in M : AtMark(m) /\ m.next = Len(out) + 1

\* The reader goes on at mark m.
Reads(M, X, m) ==
    /\ FrontShape(M, X) /\ m \in M /\ AtMark(m)
    /\ (X = Written /\ base = <<>>) \/ m.next <= flushed

\* What is ahead of it
LEMMA Ahead ==
    ASSUME TypeInv, BufferInv, rpc = "read", NEW M, NEW X, NEW m, Reads(M, X, m)
    PROVE  /\ Room(Pos) < HeaderSize /\ Pos + Room(Pos) <= Len(File) => Jump(m) \in M
           /\ Room(Pos) >= HeaderSize /\ Pos < Len(File) =>
                  /\ m.next <= Len(log) /\ BytesAt(Due(m, log), Pos, File)
                  /\ Pos + HeaderSize + Due(m, log).size <= Len(File) =>
                         Then(m, m.next, Due(m, log)) \in M
           /\ m.next <= flushed =>
                  /\ Pos < Len(File)
                  /\ Room(Pos) < HeaderSize => Pos + Room(Pos) < Len(File)
                  /\ Room(Pos) >= HeaderSize => Pos + HeaderSize + Due(m, log).size <= Len(File)
<1>1. /\ Marked(M, log) /\ Path(M, X, log) /\ m \in M /\ m.at = Pos
      /\ (X = Written /\ base = <<>>) \/ m.next <= flushed
      /\ \A l \in M : l.next <= flushed => After(l, log).at <= Len(X)
      /\ X \in Seq(Cells) /\ FrontOf(X, Written)
  BY DEF Reads, FrontShape, AtMark
<1>2. /\ log \in Seq(Records) /\ Len(log) \in Nat /\ flushed \in Nat /\ flushed <= Len(log)
  BY FlushedTyped
<1>3. /\ File \in Seq(Cells) /\ Len(File) \in Nat /\ Written \in Seq(Cells)
      /\ FrontOf(Written, File) /\ (base = <<>> => File = Written)
  BY FileIs, ReaderTyped, StreamTyped
<1>4. Len(X) \in Nat /\ FrontOf(X, File) /\ Len(X) <= Len(File)
  <2>1. FrontOf(X, File)
    BY <1>1, <1>3, FrontFront
  <2> QED
    BY <1>1, <2>1 DEF FrontOf
<1>5. PICK q \in Nat : q = Pos /\ m.at = q /\ Room(q) \in 1 .. BlockSize
  BY <1>1, BufferIs
<1>6. m.next \in Nat
  BY <1>1, <1>2, MarkTyped
<1>7. PICK k : k = After(m, log)
  OBVIOUS
<1>8. ASSUME Holds(m, log)
      PROVE  /\ k.at \in Nat /\ q < k.at /\ Marked({k}, log)
             /\ Room(q) < HeaderSize => k = Jump(m) /\ k.at = q + Room(q) /\ k.next = m.next
             /\ Room(q) >= HeaderSize => k = Then(m, m.next, Due(m, log))
                                         /\ k.at = q + HeaderSize + Due(m, log).size
  <2>1. /\ k.at \in Nat /\ m.at < k.at /\ Marked({k}, log)
        /\ Room(m.at) < HeaderSize => k = Jump(m) /\ k.at = m.at + Room(m.at)
        /\ Room(m.at) >= HeaderSize => k = Then(m, m.next, Due(m, log))
                                       /\ k.at = m.at + HeaderSize + Due(m, log).size
    BY <1>1, <1>2, <1>7, <1>8, AfterIs
  <2>2. Jump(m).next = m.next
    BY <1>1, <1>2, JumpIs
  <2> QED
    BY <1>5, <2>1, <2>2
<1>9. ASSUME m.next <= flushed
      PROVE  Holds(m, log) /\ k.at <= Len(X) /\ q < Len(X) /\ k \in M
  <2>1. Holds(m, log)
    BY <1>2, <1>6, <1>9 DEF Holds
  <2>2. k.at <= Len(X)
    BY <1>1, <1>7, <1>9
  <2>3. q < Len(X)
    BY <1>4, <1>5, <1>8, <2>1, <2>2
  <2> QED
    BY <1>1, <1>5, <1>7, <2>1, <2>2, <2>3 DEF Path
<1>10. ASSUME Room(q) < HeaderSize, q + Room(q) <= Len(File) PROVE Jump(m) \in M
  <2>1. Holds(m, log)
    BY <1>5, <1>10 DEF Holds
  <2>2. k = Jump(m) /\ k.at = q + Room(q) /\ q < k.at /\ k.at \in Nat
    BY <1>8, <1>10, <2>1
  <2>3. CASE m.next <= flushed
    BY <1>9, <2>2, <2>3
  <2>4. CASE X = Written /\ base = <<>>
    <3>1. k.at <= Len(X) /\ q < Len(X)
      BY <1>3, <1>4, <1>5, <1>10, <2>2, <2>4
    <3> QED
      BY <1>1, <1>5, <1>7, <2>2, <3>1 DEF Path
  <2> QED
    BY <1>1, <2>3, <2>4
<1>11. ASSUME Room(q) >= HeaderSize, q < Len(File)
       PROVE  /\ m.next <= Len(log) /\ BytesAt(Due(m, log), q, File)
              /\ q + HeaderSize + Due(m, log).size <= Len(File) =>
                     Then(m, m.next, Due(m, log)) \in M
  <2>1. q < Len(X)
    BY <1>1, <1>3, <1>9, <1>11
  <2>2. m.next <= Len(log) /\ BytesAt(Due(m, log), q, X)
    BY <1>1, <1>5, <1>11, <2>1 DEF Path
  <2>3. PICK f \in Fragments : f = Due(m, log) /\ f.size \in Nat
    BY <1>1, <1>2, <1>5, <1>11, <2>2, DueIs
  <2>4. Holds(m, log) /\ k = Then(m, m.next, f) /\ k.at = q + HeaderSize + f.size /\ k.at \in Nat
    <3>1. Holds(m, log)
      BY <2>2 DEF Holds
    <3> QED
      BY <1>8, <1>11, <2>3, <3>1
  <2>5. CASE m.next <= flushed
    <3>1. k.at <= Len(X) /\ k \in M
      BY <1>9, <2>5
    <3>2. BytesAt(f, q, File)
      BY <1>1, <1>3, <1>4, <2>2, <2>3, <2>4, <3>1, FrontBytes DEF Whole
    <3> QED
      BY <2>2, <2>3, <2>4, <3>1, <3>2
  <2>6. CASE X = Written /\ base = <<>>
    <3>1. X = File
      BY <1>3, <2>6
    <3>2. k.at <= Len(File) => k \in M
      BY <1>1, <1>5, <1>7, <2>1, <3>1 DEF Path
    <3> QED
      BY <2>2, <2>3, <2>4, <3>1, <3>2
  <2> QED
    BY <1>1, <2>5, <2>6
<1>12. ASSUME m.next <= flushed
       PROVE  /\ q < Len(File)
              /\ Room(q) < HeaderSize => q + Room(q) < Len(File)
              /\ Room(q) >= HeaderSize => q + HeaderSize + Due(m, log).size <= Len(File)
  <2>1. Holds(m, log) /\ k.at <= Len(X) /\ q < Len(X) /\ k \in M
    BY <1>9, <1>12
  <2>2. ASSUME Room(q) < HeaderSize PROVE q + Room(q) < Len(File)
    <3>1. k.at = q + Room(q) /\ k.next = m.next /\ k.at \in Nat
      BY <1>8, <2>1, <2>2
    <3>2. Holds(k, log)
      BY <1>2, <1>6, <1>12, <3>1 DEF Holds
    <3>3. PICK l : l = After(k, log)
      OBVIOUS
    <3>4. l.at \in Nat /\ k.at < l.at
      BY <1>1, <1>2, <2>1, <3>2, <3>3, AfterIs
    <3>5. l.at <= Len(X)
      BY <1>1, <1>12, <2>1, <3>1, <3>3
    <3> QED
      BY <1>4, <3>1, <3>4, <3>5
  <2>3. ASSUME Room(q) >= HeaderSize PROVE q + HeaderSize + Due(m, log).size <= Len(File)
    <3>1. k.at \in Nat /\ k.at = q + HeaderSize + Due(m, log).size
      BY <1>8, <2>1, <2>3
    <3> QED
      BY <1>4, <2>1, <3>1
  <2> QED
    BY <1>4, <1>5, <2>1, <2>2, <2>3
<1> QED
  BY <1>5, <1>10, <1>11, <1>12

\* What it sees, if there is a header's length in the buffer
LEMMA Sees ==
    ASSUME TypeInv, BufferInv, rpc = "read", NEW M, NEW X, NEW m, Reads(M, X, m),
           Len(buf) >= HeaderSize, NEW f, f = Due(m, log)
    PROVE  /\ f \in Fragments /\ f.size \in Nat /\ m.next \in 1 .. Len(log)
           /\ WellFormed /\ Found = f /\ Sizes = {f.size}
           /\ HeaderSize + f.size <= Len(buf) =>
                  Matches /\ Then(m, m.next, f) \in M
           /\ HeaderSize + f.size > Len(buf) => eof /\ m.next > flushed
           /\ Expected(f, m, m.next, log) /\ (Starts(f) <=> m.begin)
<1>1. /\ Len(buf) \in Nat /\ rpos \in Nat /\ Len(File) \in Nat /\ flushed \in Nat
      /\ HeaderSize \in Nat \ {0} /\ File \in Seq(Cells)
  BY ReaderTyped
<1>2. /\ Pos \in Nat /\ rpos = Pos + Len(buf) /\ rpos <= Len(File)
      /\ Room(Pos) \in 1 .. BlockSize /\ Len(buf) <= Room(Pos)
      /\ \A j \in 1 .. Len(buf) : buf[j] = File[Pos + j]
      /\ eof => AtLast
      /\ ~eof => AtBlock
  BY BufferIs
<1>3. PICK q \in Nat : q = Pos /\ rpos = q + Len(buf)
  BY <1>2
<1>4. q < Len(File) /\ Room(q) >= HeaderSize
  BY <1>1, <1>2, <1>3
<1>5. /\ m.next <= Len(log) /\ BytesAt(f, q, File)
      /\ q + HeaderSize + f.size <= Len(File) => Then(m, m.next, f) \in M
      /\ m.next <= flushed => q + HeaderSize + f.size <= Len(File)
  BY <1>3, <1>4, Ahead
<1>6. /\ Marked(M, log) /\ m \in M /\ m.at = q /\ log \in Seq(Records)
  BY <1>3, LogTyped DEF Reads, FrontShape, AtMark
<1>7. /\ f \in Fragments /\ f.size \in Nat /\ HeaderSize + f.size <= Room(q)
      /\ Expected(f, m, m.next, log) /\ Fits(f, m) /\ m.next \in 1 .. Len(log)
  BY <1>4, <1>5, <1>6, DueIs
<1>8. ASSUME NEW j \in 1 .. HeaderSize + f.size, j <= Len(buf) PROVE buf[j] = Bytes(f)[j]
  <2>1. j \in 1 .. Len(buf) /\ q + j <= Len(File)
    BY <1>1, <1>2, <1>3, <1>7, <1>8
  <2> QED
    BY <1>2, <1>3, <1>5, <1>8, <2>1 DEF BytesAt
<1>9. /\ WellFormed /\ Found = f /\ Sizes = {f.size}
      /\ HeaderSize + f.size <= Len(buf) => Matches
  BY <1>7, <1>8, IsFound
<1>10. HeaderSize + f.size <= Len(buf) => Then(m, m.next, f) \in M
  BY <1>1, <1>2, <1>3, <1>5, <1>7
<1>11. ASSUME HeaderSize + f.size > Len(buf) PROVE eof /\ m.next > flushed
  <2>1. ~AtBlock
    BY <1>1, <1>3, <1>4, <1>7, <1>11 DEF AtBlock
  <2>2. AtLast /\ eof
    <3>1. eof \in BOOLEAN
      BY ReaderTyped
    <3> QED
      BY <1>2, <2>1, <3>1
  <2>3. q + HeaderSize + f.size > Len(File)
    BY <1>1, <1>3, <1>7, <1>11, <2>2 DEF AtLast
  <2>4. m.next \in Nat
    BY <1>7
  <2> QED
    BY <1>1, <1>5, <1>7, <2>2, <2>3, <2>4
<1> QED
  BY <1>7, <1>9, <1>10, <1>11 DEF Fits

LEMMA CleanStays ==
    ASSUME NEW M, NEW X, Clean(M, X), UNCHANGED <<fileVars, writerVars>> PROVE Clean(M, X)'
  BY DEF fileVars, writerVars, Clean, FrontShape, Written

LEMMA BeginIntact ==
    ASSUME TypeInv, BufferInv, IntactFile, FrontFile, ReaderOpen PROVE ReadInv'
<1>1. UNCHANGED <<fileVars, writerVars>> /\ parts' = parts /\ out' = out /\ rpc = "off"
  BY DEF ReaderOpen
<1>3. PICK M, X : Clean(M, X)
  BY FrontBefore DEF Clean
<1>4. Clean(M, X)' /\ Start \in M
  BY <1>1, <1>3, CleanStays DEF Clean, FrontShape
<1>5. parts = <<>> /\ out = <<>>
  BY <1>1 DEF BufferInv
<1>6. Start.at = 0 /\ Start.begin = TRUE /\ Start.next = 1
  BY DEF Start
<1>7. Pos' = 0
  BY BeginBuffer
<1>8. AtMark(Start)'
  BY <1>1, <1>5, <1>6, <1>7 DEF AtMark, PartsAre
<1>9. Len(out') = 0
  BY <1>1, <1>5
<1> QED
  BY <1>4, <1>6, <1>8, <1>9 DEF ReadInv

\* Where the reader is sound
LEMMA SoundIs ==
    ASSUME TypeInv, BufferInv, ReadInv, Sound
    PROVE  \E M, X, m : Reads(M, X, m) /\ m.next = Len(out) + 1 /\ Clean(M, X) /\ m \in M
<1>1. PICK M, X : Clean(M, X) /\ \E m \in M : AtMark(m) /\ m.next = Len(out) + 1
  BY DEF ReadInv
<1>2. PICK m \in M : AtMark(m) /\ m.next = Len(out) + 1
  BY <1>1
<1>3. Len(out) \in Nat /\ flushed \in Nat /\ rpc = "read"
  BY BufferIs, ReaderTyped DEF Sound
<1>4. (X = Written /\ base = <<>>) \/ m.next <= flushed
  BY <1>1, <1>2, <1>3 DEF Sound, Clean
<1> QED
  BY <1>1, <1>2, <1>4 DEF Reads, Clean

LEMMA BlockIntact == ASSUME TypeInv, BufferInv, ReadInv, ReadBlock PROVE ReadInv'
<1> SUFFICES ASSUME Sound'
             PROVE  \E M, X : Clean(M, X)' /\ \E m \in M : AtMark(m)' /\ m.next = Len(out') + 1
  BY DEF ReadInv
<1>1. UNCHANGED <<fileVars, writerVars>> /\ rpc = "read"
  BY DEF ReadBlock, ReadStep
<1>2. /\ Pos' = IF Len(buf) = 0 THEN Pos ELSE Pos + Room(Pos)
      /\ Len(buf) # 0 => Pos + Room(Pos) = rpos /\ Room(Pos) < HeaderSize
      /\ parts' = parts /\ out' = out
  BY BlockBuffer DEF Sound
<1>3. Sound /\ log' = log
  BY <1>1, <1>2 DEF Sound, fileVars, writerVars
<1>4. PICK M, X, m : Reads(M, X, m) /\ m.next = Len(out) + 1 /\ Clean(M, X) /\ m \in M
  BY <1>3, SoundIs
<1>5. Clean(M, X)' /\ AtMark(m)
  BY <1>1, <1>4, CleanStays DEF Reads
<1>6. CASE Len(buf) = 0
  <2>1. AtMark(m)'
    BY <1>2, <1>3, <1>5, <1>6 DEF AtMark, PartsAre
  <2> QED
    BY <1>2, <1>4, <1>5, <2>1
<1>7. CASE Len(buf) # 0
  <2>1. PICK q \in Nat : q = Pos /\ q + Room(q) = rpos /\ Room(q) < HeaderSize /\ Pos' = q + Room(q)
    BY <1>1, <1>2, <1>7, BufferIs
  <2>2. rpos <= Len(File)
    BY <1>1, BufferIs
  <2>3. Jump(m) \in M
    BY <1>1, <1>4, <2>1, <2>2, Ahead
  <2>4. PICK k : k = Jump(m)
    OBVIOUS
  <2>5. k.at = q + Room(q) /\ k.next = m.next /\ k.from = m.from /\ k.begin = m.begin
    <3>1. m.at = q
      BY <1>5, <2>1 DEF AtMark
    <3> QED
      BY <1>4, <2>4, <3>1, LogTyped, JumpIs DEF Clean, FrontShape
  <2>6. AtMark(k)'
    BY <1>2, <1>3, <1>5, <2>1, <2>5 DEF AtMark, PartsAre
  <2> QED
    BY <1>2, <1>4, <1>5, <2>3, <2>4, <2>5, <2>6
<1> QED
  BY <1>6, <1>7

\* Whatever is read is the next record, or a part of it.
LEMMA TakeIntact ==
    ASSUME TypeInv, BufferInv, ReadInv, Sound, ReadFragment
    PROVE  \E M, X, m, f :
               /\ Takes(M, m, f, m.next) /\ Reads(M, X, m) /\ Clean(M, X)
               /\ m.next = Len(out) + 1 /\ m.next \in 1 .. Len(log)
               /\ PartsAre(Then(m, m.next, f), log)'
               /\ rpc' = "read"
               /\ Ends(f) => out' = Append(out, log[m.next])
               /\ ~Ends(f) => out' = out
<1>1. PICK M, X, m : Reads(M, X, m) /\ m.next = Len(out) + 1 /\ Clean(M, X) /\ m \in M
  BY SoundIs
<1>2. /\ rpc = "read" /\ Len(buf) >= HeaderSize /\ HeaderSize + Found.size <= Len(buf)
  BY DEF ReadFragment, ReadStep, Matches
<1>3. PICK f : f = Due(m, log)
  OBVIOUS
<1>4. /\ f \in Fragments /\ m.next \in 1 .. Len(log) /\ Found = f
      /\ Expected(f, m, m.next, log) /\ (Starts(f) <=> m.begin)
      /\ Then(m, m.next, f) \in M
  BY <1>1, <1>2, <1>3, Sees
<1>5. /\ log \in Seq(Records) /\ Marked(M, log) /\ parts \in Seq(Fragments) /\ AtMark(m)
  BY <1>1, <1>2, LogTyped, BufferIs DEF FrontShape, Reads
<1>6. m.next \in m.next .. Len(log)
  BY <1>4
<1>7. Takes(M, m, f, m.next)
  BY <1>1, <1>4, <1>6 DEF Takes
<1>8. /\ PartsAre(Then(m, m.next, f), log)'
      /\ rpc' = "read"
      /\ Ends(f) => out' = Append(out, log[m.next])
      /\ ~Ends(f) => out' = out
  BY <1>1, <1>4, <1>5, <1>6, PartsThen DEF AtMark
<1> QED
  BY <1>1, <1>4, <1>7, <1>8

\* Reading on takes nothing back.
LEMMA SoundBefore ==
    ASSUME TypeInv, BufferInv, ReadFragment \/ ReadUnchecked, Sound' PROVE Sound
<1>1. UNCHANGED <<fileVars, writerVars>> /\ rpc = "read"
  BY DEF ReadFragment, ReadUnchecked, ReadStep
<1>2. base' = base /\ flushed' = flushed /\ faults' = faults
  BY <1>1 DEF fileVars, writerVars
<1>3. Len(out) \in Nat /\ flushed \in Nat /\ out \in Seq(Ids)
  BY <1>1, BufferIs, ReaderTyped
<1>4. out' = out \/ (\E r \in Ids : out' = Append(out, r))
  BY TakeBuffer
<1>5. Len(out') \in {Len(out), Len(out) + 1}
  BY ONLY <1>3, <1>4
<1> QED
  BY <1>1, <1>2, <1>3, <1>5 DEF Sound

LEMMA FragmentIntact ==
    ASSUME TypeInv, BufferInv, ReadInv, ReadFragment PROVE ReadInv'
<1> SUFFICES ASSUME Sound'
             PROVE  \E M, X : Clean(M, X)' /\ \E m \in M : AtMark(m)' /\ m.next = Len(out') + 1
  BY DEF ReadInv
<1>1. UNCHANGED <<fileVars, writerVars>> /\ rpc = "read"
  BY DEF ReadFragment, ReadStep
<1>3. Len(out) \in Nat /\ out \in Seq(Ids) /\ log \in Seq(Records)
  BY <1>1, BufferIs, LogTyped
<1>7. PICK M, X, m, f :
               /\ Takes(M, m, f, m.next) /\ Reads(M, X, m) /\ Clean(M, X)
               /\ m.next = Len(out) + 1 /\ m.next \in 1 .. Len(log)
               /\ PartsAre(Then(m, m.next, f), log)'
               /\ rpc' = "read"
               /\ Ends(f) => out' = Append(out, log[m.next])
               /\ ~Ends(f) => out' = out
  BY SoundBefore, TakeIntact
<1>8. /\ f = Found /\ f \in Fragments /\ Then(m, m.next, f) \in M /\ AtMark(m)
  BY <1>7 DEF Takes, Reads
<1>9. Clean(M, X)'
  BY <1>1, <1>7, CleanStays
<1>10. PICK k : k = Then(m, m.next, f)
  OBVIOUS
<1>11. /\ k.at = m.at + HeaderSize + f.size
       /\ k.next = IF Ends(f) THEN m.next + 1 ELSE m.next
  BY <1>10 DEF Then
<1>12. AtMark(k)'
  <2>1. Pos' = Pos + HeaderSize + f.size
    BY <1>8, TakeBuffer
  <2> QED
    BY <1>7, <1>8, <1>10, <1>11, <2>1 DEF AtMark
<1>13. k.next = Len(out') + 1
  <2>1. ASSUME Ends(f) PROVE Len(out') = Len(out) + 1
    <3>1. log[m.next] \in Ids
      BY <1>3, <1>7 DEF Ids
    <3>2. out' = Append(out, log[m.next])
      BY <1>7, <2>1
    <3> QED
      BY ONLY <1>3, <3>1, <3>2
  <2> QED
    BY <1>3, <1>7, <1>11, <2>1
<1> QED
  BY <1>8, <1>9, <1>10, <1>12, <1>13

\* What is expected is not taken without its checksum, nor for something else.
LEMMA NothingElse ==
    ASSUME TypeInv, BufferInv, ReadInv, Sound
    PROVE  ~ReadUnchecked /\ ~ReadMismatch
<1> SUFFICES ASSUME ReadUnchecked \/ ReadMismatch PROVE FALSE
  OBVIOUS
<1>1. PICK M, X, m : Reads(M, X, m)
  BY SoundIs
<1>2. /\ rpc = "read" /\ Len(buf) >= HeaderSize /\ ~Matches
      /\ \E n \in Sizes : HeaderSize + n <= Len(buf)
  BY DEF ReadUnchecked, ReadMismatch, ReadStep
<1>3. PICK f : f = Due(m, log)
  OBVIOUS
<1>4. Sizes = {f.size} /\ (HeaderSize + f.size <= Len(buf) => Matches)
  BY <1>1, <1>2, <1>3, Sees
<1> QED
  BY <1>2, <1>4

LEMMA UncheckedIntact ==
    ASSUME TypeInv, BufferInv, ReadInv, ReadUnchecked PROVE ReadInv'
  BY SoundBefore, NothingElse DEF ReadInv

LEMMA StutterIntact == ASSUME TypeInv, BufferInv, ReadInv, UNCHANGED vars PROVE ReadInv'
<1> SUFFICES ASSUME Sound'
             PROVE  \E M, X : Clean(M, X)' /\ \E m \in M : AtMark(m)' /\ m.next = Len(out') + 1
  BY DEF ReadInv
<1>1. UNCHANGED <<fileVars, writerVars, readerVars>>
  BY DEF vars
<1>2. /\ log' = log /\ Pos' = Pos /\ parts' = parts /\ out' = out /\ Sound
  BY <1>1 DEF fileVars, writerVars, readerVars, Pos, Sound
<1>3. PICK M, X, m : Reads(M, X, m) /\ m.next = Len(out) + 1 /\ Clean(M, X) /\ m \in M
  BY <1>2, SoundIs
<1>4. Clean(M, X)'
  BY <1>1, <1>3, CleanStays
<1>5. AtMark(m)'
  BY <1>2, <1>3 DEF AtMark, PartsAre, Reads
<1> QED
  BY <1>2, <1>3, <1>4, <1>5

\* A sound reader does not fail, and comes to its end behind what was flushed.
LEMMA EndsIntact ==
    ASSUME TypeInv, BufferInv, ReadInv, Sound, Read, rpc' # "read"
    PROVE  rpc' = "done" /\ Len(out) >= flushed /\ out' = out
<1>1. PICK M, X, m : Reads(M, X, m) /\ m.next = Len(out) + 1 /\ Clean(M, X) /\ m \in M
  BY SoundIs
<1>2. rpc = "read" /\ Len(out) \in Nat /\ flushed \in Nat
  BY BufferIs, ReaderTyped DEF Sound
<1>3. m.next > flushed => Len(out) >= flushed
  BY <1>1, <1>2
<1>4. PICK f : f = Due(m, log)
  OBVIOUS
<1>5. ASSUME Len(buf) >= HeaderSize
      PROVE  /\ Sizes = {f.size} /\ f.size \in Nat
             /\ HeaderSize + f.size > Len(buf) => eof /\ m.next > flushed
  BY <1>1, <1>2, <1>4, <1>5, Sees
<1>6. CASE ReadBlock
  <2>1. rpc' = "done" /\ rpos = Len(File) /\ out' = out
    BY <1>6, BlockBuffer
  <2>2. /\ Len(buf) # 0 => Pos + Room(Pos) = rpos /\ Room(Pos) < HeaderSize
    BY <1>6, BlockBuffer
  <2>3. /\ rpos = Pos + Len(buf) /\ Pos \in Nat /\ Len(buf) \in Nat
    BY <1>2, BufferIs, ReaderTyped
  <2>4. m.next <= flushed =>
                  /\ Pos < Len(File)
                  /\ Room(Pos) < HeaderSize => Pos + Room(Pos) < Len(File)
    BY <1>1, <1>2, Ahead
  <2>5. ~(m.next <= flushed)
    BY <2>1, <2>2, <2>3, <2>4
  <2> QED
    BY <1>1, <1>2, <1>3, <2>1, <2>5
<1>7. CASE ReadEnd
  <2>1. rpc' = "done" /\ out' = out /\ Len(buf) < HeaderSize /\ eof
    BY <1>7 DEF ReadEnd
  <2>2. rpos = Len(File) /\ Len(buf) < Room(Pos) /\ rpos = Pos + Len(buf) /\ Pos \in Nat
        /\ Len(buf) \in Nat /\ Room(Pos) \in Nat /\ Len(File) \in Nat
    BY <1>2, <2>1, BufferIs, ReaderTyped DEF AtLast
  <2>3. m.next <= flushed =>
                  /\ Pos < Len(File)
                  /\ Room(Pos) < HeaderSize => Pos + Room(Pos) < Len(File)
                  /\ Room(Pos) >= HeaderSize => Pos + HeaderSize + f.size <= Len(File)
    BY <1>1, <1>2, <1>4, Ahead
  <2>4. ASSUME m.next <= flushed PROVE FALSE
    <3>1. CASE Room(Pos) < HeaderSize
      BY <2>2, <2>3, <2>4, <3>1
    <3>2. CASE Room(Pos) >= HeaderSize
      <4>1. /\ m.next <= Len(log) /\ m \in M /\ Marked(M, log) /\ m.at = Pos /\ log \in Seq(Records)
        BY <1>1, <1>2, <2>3, <2>4, <3>2, Ahead, LogTyped DEF Reads, FrontShape, AtMark
      <4>2. f.size \in Nat
        BY <1>4, <3>2, <4>1, DueIs
      <4> QED
        BY <2>1, <2>2, <2>3, <2>4, <3>2, <4>2
    <3> QED
      BY <2>2, <3>1, <3>2
  <2> QED
    BY <1>1, <1>2, <1>3, <2>1, <2>4
<1>8. CASE ReadTooLong
  <2>1. /\ Len(buf) >= HeaderSize /\ (\E n \in Sizes : HeaderSize + n > Len(buf))
        /\ rpc' = IF eof THEN "done" ELSE "thrown"
        /\ out' = out
    BY <1>8 DEF ReadTooLong
  <2>2. HeaderSize + f.size > Len(buf)
    BY <1>5, <2>1
  <2> QED
    BY <1>3, <1>5, <2>1, <2>2
<1>9. CASE ReadFragment
  <2>1. rpc' = "read"
    BY <1>9, TakeIntact
  <2> QED
    BY <2>1
<1> QED
  BY <1>6, <1>7, <1>8, <1>9, NothingElse DEF Read

LEMMA ReadsIntact ==
    ASSUME TypeInv, BufferInv, IntactFile, FrontFile, ReadInv, ReaderOpen \/ Read PROVE ReadInv'
<1>1. ASSUME ReadEnd \/ ReadTooLong \/ ReadMismatch PROVE ReadInv'
  <2>1. CASE rpc' \in {"done", "thrown"}
    BY <2>1 DEF ReadInv, Sound
  <2>2. CASE UNCHANGED vars
    BY <2>2, StutterIntact
  <2> QED
    BY <1>1, <2>1, <2>2, EndsIs
<1> QED
  BY <1>1, BeginIntact, BlockIntact, FragmentIntact, UncheckedIntact DEF Read

-----------------------------------------------------------------------------
(* The inductive invariant of the log                                       *)

WalInv ==
    /\ TypeInv /\ AlignInv /\ RestInv /\ IntactFile /\ FrontFile
    /\ BufferInv /\ ReadInv

LEMMA InitWal == Init => WalInv
<1> SUFFICES ASSUME Init PROVE WalInv
  OBVIOUS
<1>1. FrontFile /\ ReadInv
  BY DEF Init, FrontFile, ReadInv, Sound
<1> QED
  BY <1>1, InitTypes, InitAligned, InitRest, InitIntact, InitBuffer DEF WalInv

LEMMA WriterWal == ASSUME WalInv, rpc = "off", WriterStep \/ Crash PROVE WalInv'
<1>1. TypeInv' /\ AlignInv'
  BY WriterTypes, WriterAligned, CrashTypes DEF WalInv, AlignInv
<1>2. RestInv'
  BY WriterRest DEF WalInv
<1>3. IntactFile' /\ FrontFile'
  BY <1>1, WriterIntact, CrashIntact, StepFront DEF WalInv
<1>4. UNCHANGED readerVars /\ rpc' = "off"
  <2>1. UNCHANGED readerVars
    BY DEF WriterStep, Crash, Append1, Open, Close, AppendToBuffer, AppendToFile, FlushCall,
           FlushWrite, AppendPad, WriteHeader, WriteData, WriteFails, Sync, Kill, PowerLoss
  <2> QED
    BY <2>1 DEF readerVars
<1>5. BufferInv'
  BY <1>4, QuietBuffer DEF WalInv
<1>6. ReadInv'
  BY <1>4 DEF ReadInv, Sound
<1> QED
  BY <1>1, <1>2, <1>3, <1>5, <1>6 DEF WalInv

LEMMA ReaderWal == ASSUME WalInv, ReaderOpen \/ Read PROVE WalInv'
<1>1. TypeInv' /\ UNCHANGED <<fileVars, writerVars>>
  BY ReadTypes DEF WalInv
<1>2. AlignInv' /\ RestInv'
  <2>1. UNCHANGED writerVars
    BY <1>1
  <2> QED
    BY <1>1, <2>1, AlignedKept, KeptRest DEF WalInv
<1>3. IntactFile' /\ FrontFile'
  BY <1>1, KeptIntact, FrontStays DEF WalInv
<1>4. BufferInv' /\ ReadInv'
  BY ReadsBuffer, ReadsIntact DEF WalInv
<1> QED
  BY <1>1, <1>2, <1>3, <1>4 DEF WalInv

LEMMA StepWal == ASSUME WalInv, [Next]_vars PROVE WalInv'
<1>1. CASE UNCHANGED vars
  <2>1. UNCHANGED <<fileVars, writerVars, readerVars>>
    BY <1>1 DEF vars
  <2>2. TypeInv' /\ AlignInv' /\ RestInv'
    BY <1>1, <2>1, StutterTypes, AlignedKept, KeptRest DEF WalInv
  <2>3. IntactFile' /\ FrontFile' /\ BufferInv'
    BY <2>1, KeptIntact, FrontStays, QuietBuffer DEF WalInv
  <2>4. ReadInv'
    BY <1>1, StutterIntact DEF WalInv
  <2> QED
    BY <2>2, <2>3, <2>4 DEF WalInv
<1>2. CASE Next
  BY <1>2, WriterWal, ReaderWal DEF Next
<1> QED
  BY <1>1, <1>2

-----------------------------------------------------------------------------
(* Every step of the log is one of the contract                             *)

LEMMA RefinesInit == Init => Abstract!Init
  BY DEF Init, Abstract!Init, Damaged, Reused, Phase

LEMMA RefinesOpen == ASSUME WalInv, rpc = "off", Open PROVE Abstract!Create
<1>1. TypeInv /\ RestInv
  BY DEF WalInv
<1>2. /\ wpc \in {"closed", "dead"} /\ wpc' = "idle" /\ rpc' = "off" /\ out' = out
      /\ flushed' = 0 /\ synced' = 0
      /\ log' = SubSeq(log, Len(log) - held + 1, Len(log))
      /\ faults' = IF rep = <<>> THEN 0 ELSE 1
  BY DEF Open, readerVars
<1>3. log \in Seq(Records) /\ Len(log) \in Nat /\ held \in 0 .. Len(log)
  BY <1>1, FlushedTyped DEF TypeInv, TypeOK
<1>4. Phase = (IF wpc = "closed" THEN "closed" ELSE "down") /\ Phase' = "open"
  BY <1>2 DEF Phase
<1>5. PICK n \in 0 .. Len(log) : n = Len(log) - held
  BY <1>3
<1>6. PICK lh : lh = SubSeq(log, n + 1, Len(log))
  OBVIOUS
<1>7. lh \in Seq(Records) /\ Len(lh) = held
  <2>1. n + 1 \in Nat \ {0} /\ Len(log) \in 0 .. Len(log)
    BY <1>3
  <2>2. /\ lh \in Seq(Records)
        /\ Len(lh) = IF n + 1 <= Len(log) THEN Len(log) - (n + 1) + 1 ELSE 0
    BY <1>3, <1>6, <2>1, Piece
  <2> QED
    BY <1>3, <1>5, <2>2
<1>8. lh = <<>> <=> rep = <<>>
  <2>1. lh = <<>> <=> held = 0
    BY <1>7, NotEmpty
  <2> QED
    BY <1>1, <2>1 DEF RestInv
<1>9. log' = lh
  BY <1>2, <1>5, <1>6
<1>10. wpc = "dead" => log' = <<>>
  BY <1>1, <1>8, <1>9 DEF RestInv
<1>11. Damaged' = (log' # <<>>)
  <2>1. CASE rep = <<>>
    <3>1. faults' = 0 /\ log' = <<>>
      BY <1>2, <1>8, <1>9, <2>1
    <3>2. Damaged' = FALSE
      BY <3>1 DEF Damaged
    <3> QED
      BY <3>1, <3>2
  <2>2. CASE rep # <<>>
    <3>1. faults' = 1 /\ log' # <<>>
      BY <1>2, <1>8, <1>9, <2>2
    <3>2. Damaged' = TRUE
      BY <3>1 DEF Damaged
    <3> QED
      BY <3>1, <3>2
  <2> QED
    BY <2>1, <2>2
<1>12. Reused' \in BOOLEAN
  BY DEF Reused
<1> QED
  BY <1>2, <1>4, <1>5, <1>6, <1>9, <1>10, <1>11, <1>12 DEF Abstract!Create

\* A step of a writer that has the file open and goes on with it
Goes == /\ rpc = "off" /\ rpc' = "off" /\ Phase = "open" /\ Phase' = "open"
        /\ UNCHANGED <<Reused, out>>

LEMMA WriterGoes ==
    ASSUME TypeInv, rpc = "off", UNCHANGED <<base, readerVars>>,
           wpc \notin {"closed", "dead"}, wpc' \notin {"closed", "dead"}
    PROVE  Goes
  BY DEF Goes, Phase, Reused, readerVars

\* What is appended to the buffer, or gets its first header
LEMMA RefinesAdd ==
    ASSUME WalInv, Goes, NEW r \in Records, log' = Append(log, r),
           faults' \in {faults, faults + 1}, UNCHANGED <<flushed, synced>>
    PROVE  Abstract!Add(r)
<1>1. faults \in Nat
  BY FlushedTyped DEF WalInv
<1>2. Abstract!MayDamage
  BY <1>1 DEF Abstract!MayDamage, Damaged
<1> QED
  BY <1>2 DEF Goes, Abstract!Add

LEMMA RefinesAppend ==
    ASSUME WalInv, rpc = "off", NEW n \in Lengths, AppendToBuffer(n)
    PROVE  \E r \in Records : Abstract!Add(r)
<1>1. TypeInv
  BY DEF WalInv
<1>2. /\ wpc = "idle" /\ MayAppend /\ log' = Append(log, NextId(n))
      /\ UNCHANGED <<fileVars, flushed, synced, readerVars>>
      /\ wpc' = "idle"
  BY DEF AppendToBuffer
<1>3. NextId(n) \in Records
  BY <1>1, <1>2, AppendedTyped
<1>4. UNCHANGED <<base, faults>>
  BY <1>2 DEF fileVars
<1>5. Goes
  BY <1>1, <1>2, <1>4, WriterGoes
<1> QED
  BY <1>2, <1>3, <1>4, <1>5, RefinesAdd

\* More is written of what is in the log, or something went wrong with it.
LEMMA RefinesMore ==
    ASSUME WalInv, Goes, UNCHANGED <<log, synced>>, faults' \in {faults, faults + 1},
           faults' = 0 => flushed' \in flushed .. Len(log),
           faults' # 0 => flushed' = flushed
    PROVE  Abstract!WriteOut \/ Abstract!Harm
<1>1. faults \in Nat
  BY FlushedTyped DEF WalInv
<1>2. CASE faults' = 0
  <2>1. faults = 0
    BY <1>1, <1>2
  <2>2. Damaged = FALSE /\ Damaged' = FALSE
    BY <1>2, <2>1 DEF Damaged
  <2> QED
    BY <1>2, <2>2 DEF Goes, Abstract!WriteOut
<1>3. CASE faults' # 0
  <2>1. Damaged' = TRUE
    BY <1>1, <1>3 DEF Damaged
  <2> QED
    BY <1>3, <2>1 DEF Goes, Abstract!Harm
<1> QED
  BY <1>2, <1>3

LEMMA WriteFaults ==
    ASSUME NEW s, Write(s) PROVE faults' \in {faults, faults + 1} /\ UNCHANGED base
  BY DEF Write

LEMMA RefinesWrite ==
    ASSUME WalInv, rpc = "off",
           FlushWrite \/ AppendPad \/ WriteHeader \/ WriteData \/ WriteFails
    PROVE  Abstract!WriteOut \/ Abstract!Harm \/ (\E r \in Records : Abstract!Add(r))
<1>1. TypeInv
  BY DEF WalInv
<1>2. /\ wpc \in {"flush", "append", "header", "data"}
      /\ wpc' \in {"idle", "append", "header", "data"}
      /\ UNCHANGED <<synced, readerVars>>
  BY DEF FlushWrite, AppendPad, WriteHeader, WriteData, WriteFails
<1>3. faults' \in {faults, faults + 1} /\ UNCHANGED base
  <2>1. CASE FlushWrite \/ AppendPad \/ WriteHeader \/ WriteData
    BY <2>1, WriteFaults DEF FlushWrite, AppendPad, WriteHeader, WriteData, fileVars
  <2>2. CASE WriteFails
    BY <2>2 DEF WriteFails
  <2> QED
    BY <2>1, <2>2
<1>4. flushed \in Nat /\ Len(log) \in Nat /\ flushed <= Len(log)
  BY <1>1, FlushedTyped
<1>5. Goes
  BY <1>1, <1>2, <1>3, WriterGoes
<1>6. CASE WriteHeader /\ rest.begin
  <2>1. rest.id \in Records
    BY <1>1, <1>6 DEF TypeInv, CallInv, InRecord, WriteHeader
  <2>2. log' = Append(log, rest.id) /\ UNCHANGED flushed
    BY <1>6 DEF WriteHeader
  <2> QED
    BY <1>2, <1>3, <1>5, <2>1, <2>2, RefinesAdd
<1>7. CASE ~(WriteHeader /\ rest.begin)
  <2>1. log' = log /\ flushed' \in {flushed, IF faults' = 0 THEN Len(log) ELSE flushed}
    BY <1>7 DEF FlushWrite, AppendPad, WriteHeader, WriteData, WriteFails, FlushedUpTo
  <2>2. faults' = 0 => flushed' \in flushed .. Len(log)
    BY <1>4, <2>1
  <2>3. faults' # 0 => flushed' = flushed
    BY <2>1
  <2> QED
    BY <1>2, <1>3, <1>5, <2>1, <2>2, <2>3, RefinesMore
<1> QED
  BY <1>6, <1>7

LEMMA RefinesQuiet ==
    ASSUME WalInv, rpc = "off", FlushCall \/ (\E n \in Lengths : AppendToFile(n))
    PROVE  UNCHANGED Abstract!vars
<1>1. TypeInv
  BY DEF WalInv
<1>2. /\ wpc = "idle" /\ wpc' \in {"flush", "append"}
      /\ UNCHANGED <<fileVars, log, flushed, synced, readerVars>>
  BY DEF FlushCall, AppendToFile
<1>3. UNCHANGED base /\ UNCHANGED Damaged
  BY <1>2 DEF fileVars, Damaged
<1>4. Goes
  BY <1>1, <1>2, <1>3, WriterGoes
<1> QED
  BY <1>2, <1>3, <1>4 DEF Goes, Abstract!vars

LEMMA RefinesSync == ASSUME WalInv, rpc = "off", Sync PROVE Abstract!Sync
<1>1. TypeInv
  BY DEF WalInv
<1>2. /\ wpc = "idle" /\ wpc' = "idle" /\ synced' = flushed
      /\ UNCHANGED <<faults, base, log, flushed, readerVars>>
  BY DEF Sync
<1>3. Goes /\ UNCHANGED Damaged
  BY <1>1, <1>2, WriterGoes DEF Damaged
<1> QED
  BY <1>2, <1>3 DEF Goes, Abstract!Sync

LEMMA RefinesClose == ASSUME WalInv, rpc = "off", Close PROVE Abstract!Close
<1>1. /\ wpc = "idle" /\ wpc' = "closed"
      /\ UNCHANGED <<fileVars, log, flushed, synced, readerVars>>
  BY DEF Close
<1>2. Phase = "open" /\ Phase' = "closed" /\ UNCHANGED <<Damaged, Reused, out>>
  BY <1>1 DEF Phase, Damaged, Reused, readerVars, fileVars
<1> QED
  BY <1>1, <1>2 DEF Abstract!Close

LEMMA RefinesCrash == ASSUME WalInv, rpc = "off", Crash PROVE Abstract!Kill \/ Abstract!PowerLoss
<1>1. /\ WriterAlive /\ wpc' = "dead" /\ UNCHANGED <<base, log, synced, readerVars>>
  BY DEF Crash, Kill, PowerLoss, WriterGone
<1>2. Phase \in {"open", "closed"} /\ Phase' = "down" /\ UNCHANGED <<Reused, out>>
  BY <1>1 DEF WriterAlive, Phase, Reused, readerVars
<1>3. CASE Kill
  <2>1. UNCHANGED <<faults, flushed>>
    BY <1>3 DEF Kill
  <2>2. UNCHANGED Damaged
    BY <2>1 DEF Damaged
  <2> QED
    BY <1>1, <1>2, <2>1, <2>2 DEF Abstract!Kill
<1>4. ASSUME NEW k \in 0 .. Len(pend), PowerLoss(k) PROVE Abstract!PowerLoss
  <2>1. flushed' = synced /\ faults' \in {faults, faults + 1}
    BY <1>4 DEF PowerLoss
  <2>2. faults \in Nat
    BY FlushedTyped DEF WalInv
  <2>3. Abstract!MayDamage
    BY <2>1, <2>2 DEF Abstract!MayDamage, Damaged
  <2> QED
    BY <1>1, <1>2, <2>1, <2>3 DEF Abstract!PowerLoss
<1> QED
  BY <1>3, <1>4 DEF Crash

LEMMA RefinesBegin == ASSUME WalInv, ReaderOpen PROVE Abstract!Begin
<1>1. /\ wpc \in {"closed", "dead"} /\ rpc = "off" /\ rpc' = "read" /\ out' = out
      /\ UNCHANGED <<fileVars, writerVars>>
  BY DEF ReaderOpen
<1>2. UNCHANGED <<log, flushed, synced, wpc, faults, base>>
  BY <1>1 DEF fileVars, writerVars
<1>3. Phase \in {"closed", "down"} /\ Phase' = "reading" /\ UNCHANGED <<Damaged, Reused, out>>
  BY <1>1, <1>2 DEF Phase, Damaged, Reused
<1> QED
  BY <1>2, <1>3 DEF Abstract!Begin

\* What every step of the reader leaves alone, and what it may do
LEMMA ReadIs ==
    ASSUME WalInv, Read
    PROVE  /\ UNCHANGED <<log, flushed, synced, Damaged, Reused>>
           /\ rpc = "read" /\ Phase = "reading"
           /\ \/ rpc' \in {"read", "done", "thrown"} /\ out' = out
              \/ rpc' = "read" /\ (\E r \in Ids : out' = Append(out, r))
<1>1. UNCHANGED <<fileVars, writerVars>>
  BY ReadTypes DEF WalInv
<1>2. UNCHANGED <<log, flushed, synced, Damaged, Reused>>
  BY <1>1 DEF fileVars, writerVars, Damaged, Reused
<1>3. rpc = "read"
  BY DEF Read, ReadBlock, ReadEnd, ReadTooLong, ReadMismatch, ReadFragment, ReadUnchecked, ReadStep
<1>4. \/ rpc' \in {"read", "done", "thrown"} /\ out' = out
      \/ rpc' = "read" /\ (\E r \in Ids : out' = Append(out, r))
  <2>1. CASE ReadBlock
    <3>1. UNCHANGED <<parts, out>> /\ rpc' \in {"read", "done"}
      BY <2>1, BlockBuffer DEF WalInv
    <3> QED
      BY <3>1
  <2>2. CASE ReadFragment \/ ReadUnchecked
    BY <2>2, TakeBuffer DEF WalInv
  <2>3. CASE ReadEnd \/ ReadTooLong \/ ReadMismatch
    BY <2>3, EndsIs
  <2> QED
    BY <2>1, <2>2, <2>3 DEF Read
<1> QED
  BY <1>2, <1>3, <1>4 DEF Phase

\* Where the reader is not sound it is beyond what was flushed.
LEMMA BeyondIs ==
    ASSUME WalInv, rpc = "read", ~Sound PROVE Abstract!Beyond /\ Len(out) >= flushed
<1>1. Len(out) \in Nat /\ flushed \in Nat /\ faults \in Nat
  BY BufferIs, FlushedTyped DEF WalInv
<1> QED
  BY <1>1 DEF Sound, Damaged, Reused, Abstract!Beyond

\* A record comes back.
LEMMA RefinesReturn ==
    ASSUME WalInv, Read, rpc' = "read", NEW r \in Ids, out' = Append(out, r)
    PROVE  Abstract!Return \/ Abstract!ReturnAny
<1>1. /\ UNCHANGED <<log, flushed, synced, Damaged, Reused>>
      /\ rpc = "read" /\ Phase = "reading" /\ Phase' = "reading"
  BY ReadIs DEF Phase
<1>2. out \in Seq(Ids) /\ Len(out) \in Nat /\ log \in Seq(Records) /\ out # out'
  <2>1. out \in Seq(Ids) /\ Len(out) \in Nat
    BY <1>1, BufferIs DEF WalInv
  <2>2. Len(out') = Len(out) + 1
    BY ONLY <2>1, r \in Ids, out' = Append(out, r)
  <2> QED
    BY <2>1, <2>2, LogTyped DEF WalInv
<1>3. CASE Sound
  <2>1. ReadFragment
    <3>1. ~ReadUnchecked
      BY <1>3, NothingElse DEF WalInv
    <3>2. ~ReadBlock
      BY <1>2, BlockBuffer DEF WalInv
    <3>3. ~ReadEnd /\ ~ReadTooLong /\ ~ReadMismatch
      BY <1>2, EndsIs
    <3> QED
      BY <3>1, <3>2, <3>3 DEF Read
  <2>2. PICK M, X, m, f :
               /\ Takes(M, m, f, m.next) /\ Reads(M, X, m) /\ Clean(M, X)
               /\ m.next = Len(out) + 1 /\ m.next \in 1 .. Len(log)
               /\ PartsAre(Then(m, m.next, f), log)'
               /\ rpc' = "read"
               /\ Ends(f) => out' = Append(out, log[m.next])
               /\ ~Ends(f) => out' = out
    BY <1>3, <2>1, TakeIntact DEF WalInv
  <2>3. out' = Append(out, log[Len(out) + 1])
    BY <1>2, <2>2
  <2>4. Len(out) < Len(log)
    BY <1>2, <2>2
  <2> QED
    BY <1>1, <2>3, <2>4 DEF Abstract!Return
<1>4. CASE ~Sound
  <2>1. r \in Records \cup {Torn}
    BY DEF Ids, Torn
  <2> QED
    BY <1>1, <1>4, <2>1, BeyondIs DEF Abstract!ReturnAny
<1> QED
  BY <1>3, <1>4

\* Reading ends.
LEMMA RefinesEnd ==
    ASSUME WalInv, Read, rpc' \in {"done", "thrown"}, out' = out
    PROVE  Abstract!Finish \/ Abstract!Fail
<1>1. /\ UNCHANGED <<log, flushed, synced, Damaged, Reused>>
      /\ rpc = "read" /\ Phase = "reading"
  BY ReadIs
<1>2. CASE rpc' = "done"
  <2>1. Len(out) >= flushed
    BY <1>1, <1>2, EndsIntact, BeyondIs DEF WalInv
  <2>2. Phase' = "done"
    BY <1>2 DEF Phase
  <2> QED
    BY <1>1, <2>1, <2>2 DEF Abstract!Finish
<1>3. CASE rpc' = "thrown"
  <2>1. ~Sound
    BY <1>3, EndsIntact DEF WalInv
  <2>2. Phase' = "failed"
    BY <1>3 DEF Phase
  <2> QED
    BY <1>1, <2>1, <2>2, BeyondIs DEF Abstract!Fail
<1> QED
  BY <1>2, <1>3

LEMMA RefinesRead == ASSUME WalInv, Read PROVE [Abstract!Next]_(Abstract!vars)
<1>1. /\ UNCHANGED <<log, flushed, synced, Damaged, Reused>>
      /\ rpc = "read" /\ Phase = "reading"
      /\ \/ rpc' \in {"read", "done", "thrown"} /\ out' = out
         \/ rpc' = "read" /\ (\E r \in Ids : out' = Append(out, r))
  BY ReadIs
<1>2. CASE rpc' = "read" /\ (\E r \in Ids : out' = Append(out, r))
  BY <1>2, RefinesReturn DEF Abstract!Next
<1>3. CASE rpc' = "read" /\ out' = out
  BY <1>1, <1>3 DEF Phase, Abstract!vars
<1>4. CASE rpc' \in {"done", "thrown"} /\ out' = out
  BY <1>4, RefinesEnd DEF Abstract!Next
<1> QED
  BY <1>1, <1>2, <1>3, <1>4

LEMMA RefinesStep == ASSUME WalInv, [Next]_vars PROVE [Abstract!Next]_(Abstract!vars)
<1>1. CASE UNCHANGED vars
  BY <1>1 DEF vars, fileVars, writerVars, readerVars, Abstract!vars, Damaged, Reused, Phase
<1>2. CASE rpc = "off" /\ WriterStep
  BY <1>2, RefinesOpen, RefinesAppend, RefinesWrite, RefinesQuiet, RefinesSync, RefinesClose
  DEF WriterStep, Append1, Abstract!Next
<1>3. CASE rpc = "off" /\ Crash
  BY <1>3, RefinesCrash DEF Abstract!Next
<1>4. CASE ReaderOpen
  BY <1>4, RefinesBegin DEF Abstract!Next
<1>5. CASE Read
  BY <1>5, RefinesRead
<1> QED
  BY <1>1, <1>2, <1>3, <1>4, <1>5 DEF Next

\* Wherever the writer or the machine stopped, ReadRecord (wal_reader.cpp:18) gives back
\* what a durable log does: in order, whole and none skipped, all that was flushed before
\* the process ended or synced before power was lost; and what was flushed before a write
\* came up short or failed, zeros took the place of a lost tail, or records of rep_ went
\* to the wrong place, it still gives back first, whatever it makes of the rest, checksums
\* of zero that it does not compare (wal_reader.cpp:112) and all.
THEOREM LogIsDurable == FairSpec => ImplementsLog
  BY InitWal, StepWal, RefinesInit, RefinesStep, PTL
  DEF FairSpec, Spec, ImplementsLog, Abstract!Spec

-----------------------------------------------------------------------------
(* What follows from the contract: the promise of recovery                  *)

\* The promise is inductive, once it is known that nothing was read while the
\* log changes.
Unread == Phase \in {"closed", "open", "down"} => out = <<>>

LogInv == Abstract!TypeOK /\ Unread /\ Abstract!Recovered

-----------------------------------------------------------------------------
LEMMA InitLog == Abstract!Init => LogInv
<1> SUFFICES ASSUME Abstract!Init PROVE LogInv
  OBVIOUS
<1>1. Abstract!TypeOK
  <2>1. log = <<>> /\ out = <<>> /\ flushed = 0 /\ synced = 0 /\ Phase = "closed"
    BY DEF Abstract!Init
  <2>2. Damaged \in BOOLEAN /\ Reused \in BOOLEAN
    BY DEF Damaged, Reused
  <2>3. <<>> \in Seq(Records) /\ <<>> \in Seq(Records \cup {Torn}) /\ Len(<<>>) = 0
    OBVIOUS
  <2>4. flushed \in 0 .. Len(log) /\ synced \in 0 .. flushed
    BY <2>1, <2>3
  <2> QED
    BY <2>1, <2>2, <2>3, <2>4 DEF Abstract!TypeOK, Abstract!Phases
<1>2. Unread /\ Abstract!Recovered
  BY DEF Abstract!Init, Unread, Abstract!Recovered
<1> QED
  BY <1>1, <1>2 DEF LogInv

\* A step before the reader comes leaves it with nothing read, which keeps every promise.
LEMMA NothingRead ==
    ASSUME Abstract!TypeOK', out' = <<>>, Phase' \in {"closed", "open", "down", "reading"}
    PROVE  LogInv'
  BY DEF LogInv, Unread, Abstract!Recovered

\* Steps of the writer, and what ends it
LEMMA WriterKeeps ==
    ASSUME LogInv,
           \/ Abstract!Create \/ (\E r \in Records : Abstract!Add(r))
           \/ Abstract!WriteOut \/ Abstract!Harm \/ Abstract!Sync \/ Abstract!Close
           \/ Abstract!Kill \/ Abstract!PowerLoss \/ Abstract!Begin
    PROVE  LogInv'
<1> USE DEF LogInv, Abstract!TypeOK, Unread, Abstract!Phases
<1>0. Damaged' \in BOOLEAN /\ Reused' \in BOOLEAN
  BY DEF Damaged, Reused
<1>1. CASE Abstract!Create
  <2>1. PICK n \in 0 .. Len(log) : log' = SubSeq(log, n + 1, Len(log))
    BY <1>1 DEF Abstract!Create
  <2>2. log' \in Seq(Records)
    BY <2>1
  <2>3. Abstract!TypeOK'
    BY <1>0, <1>1, <2>2 DEF Abstract!Create
  <2> QED
    BY <1>1, <2>3, NothingRead DEF Abstract!Create
<1>2. ASSUME NEW r \in Records, Abstract!Add(r) PROVE LogInv'
  <2>1. log' \in Seq(Records) /\ Len(log') = Len(log) + 1
    BY <1>2 DEF Abstract!Add
  <2>2. Abstract!TypeOK'
    BY <1>0, <1>2, <2>1 DEF Abstract!Add
  <2> QED
    BY <1>2, <2>2, NothingRead DEF Abstract!Add
<1>3. CASE Abstract!WriteOut
  <2>1. Abstract!TypeOK'
    BY <1>0, <1>3 DEF Abstract!WriteOut
  <2> QED
    BY <1>3, <2>1, NothingRead DEF Abstract!WriteOut
<1>4. CASE Abstract!Harm
  <2>1. Abstract!TypeOK'
    BY <1>0, <1>4 DEF Abstract!Harm
  <2> QED
    BY <1>4, <2>1, NothingRead DEF Abstract!Harm
<1>5. CASE Abstract!Sync
  BY <1>5, NothingRead DEF Abstract!Sync
<1>6. CASE Abstract!Close
  BY <1>6, NothingRead DEF Abstract!Close
<1>7. CASE Abstract!Kill
  BY <1>7, NothingRead DEF Abstract!Kill
<1>8. CASE Abstract!PowerLoss
  BY <1>0, <1>8, NothingRead DEF Abstract!PowerLoss
<1>9. CASE Abstract!Begin
  BY <1>9, NothingRead DEF Abstract!Begin
<1> QED
  BY <1>1, <1>2, <1>3, <1>4, <1>5, <1>6, <1>7, <1>8, <1>9

\* What the reader gets next is the record behind those it got, or comes behind what was
\* flushed where something is damaged or an older log was.
LEMMA ReturnKeeps == ASSUME LogInv, Abstract!Return \/ Abstract!ReturnAny PROVE LogInv'
<1> USE DEF LogInv
<1>1. /\ Phase = "reading"
      /\ UNCHANGED <<log, flushed, synced, Damaged, Reused, Phase>>
  BY DEF Abstract!Return, Abstract!ReturnAny
<1>2. /\ log \in Seq(Records) /\ out \in Seq(Records \cup {Torn})
      /\ flushed \in Nat /\ Len(log) \in Nat /\ Len(out) \in Nat
  BY DEF Abstract!TypeOK
<1>3. PICK r \in Records \cup {Torn} :
        /\ out' = Append(out, r)
        /\ \/ Abstract!Beyond
           \/ Len(out) < Len(log) /\ r = log[Len(out) + 1]
  <2>1. CASE Abstract!Return
    <3>1. Len(out) + 1 \in 1 .. Len(log)
      BY <1>2, <2>1 DEF Abstract!Return
    <3>2. log[Len(out) + 1] \in Records
      BY <1>2, <3>1
    <3> QED
      BY <2>1, <3>2 DEF Abstract!Return
  <2>2. CASE Abstract!ReturnAny
    BY <2>2 DEF Abstract!ReturnAny
  <2> QED
    BY <2>1, <2>2
<1>4. /\ out' \in Seq(Records \cup {Torn}) /\ Len(out') = Len(out) + 1
      /\ \A j \in 1 .. Len(out) : out'[j] = out[j]
      /\ out'[Len(out) + 1] = r
  BY ONLY <1>2, <1>3
<1>5. Abstract!TypeOK'
  BY <1>1, <1>4 DEF Abstract!TypeOK
<1>6. Unread'
  BY <1>1 DEF Unread
<1>7. Abstract!Recovered'
  <2>1. ASSUME NEW j \in 1 .. Len(out'), j <= flushed \/ ~(Reused \/ Damaged)
        PROVE  j <= Len(log) /\ out'[j] = log[j]
    <3>1. CASE j \in 1 .. Len(out)
      BY <1>4, <2>1, <3>1 DEF Abstract!Recovered
    <3>2. CASE j = Len(out) + 1
      <4>1. ~Abstract!Beyond
        BY <1>2, <2>1, <3>2 DEF Abstract!Beyond
      <4> QED
        BY <1>2, <1>3, <1>4, <3>2, <4>1
    <3> QED
      BY <1>2, <1>4, <3>1, <3>2
  <2> QED
    BY <1>1, <2>1 DEF Abstract!Recovered
<1> QED
  BY <1>5, <1>6, <1>7

\* The reader stops only when it has all that was flushed.
LEMMA EndKeeps == ASSUME LogInv, Abstract!Finish \/ Abstract!Fail PROVE LogInv'
  BY DEF LogInv, Abstract!Finish, Abstract!Fail, Abstract!Beyond, Abstract!TypeOK,
         Abstract!Phases, Unread, Abstract!Recovered

LEMMA StutterKeeps == ASSUME LogInv, UNCHANGED Abstract!vars PROVE LogInv'
  BY DEF LogInv, Abstract!vars, Abstract!TypeOK, Unread, Abstract!Recovered

\* The invariant holds of every behavior of the contract.
THEOREM LogInvariant == ImplementsLog => []LogInv
<1>1. LogInv /\ [Abstract!Next]_(Abstract!vars) => LogInv'
  <2> SUFFICES ASSUME LogInv, [Abstract!Next]_(Abstract!vars) PROVE LogInv'
    OBVIOUS
  <2> QED
    BY WriterKeeps, ReturnKeeps, EndKeeps, StutterKeeps DEF Abstract!Next
<1> QED
  BY InitLog, <1>1, PTL DEF ImplementsLog, Abstract!Spec

\* What the log gives back (ReadRecord, wal_reader.cpp:18) begins with all that was
\* flushed before the process ended, or synced before power was lost, and before anything
\* was damaged, in the order it was appended; and is nothing else than what was appended,
\* none left out, if nothing was damaged and the file held no older log.
THEOREM Promise == FairSpec => []Abstract!Recovered
<1>1. LogInv => Abstract!Recovered
  BY DEF LogInv
<1> QED
  BY LogIsDurable, LogInvariant, <1>1, PTL
=============================================================================
