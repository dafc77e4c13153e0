------------------------------- MODULE SSTable -------------------------------
(* A table file from SSTableBuilder to SSTable: data blocks, an index block   *)
(* that has one separator and one handle for each of them, and a footer that  *)
(* says where the index is.  What can fail is the file under the builder.     *)
EXTENDS BlockFormat

CONSTANTS KeyBytes,     \* byte strings
          BlockSizes,   \* values of Options::block_size
          MaxAdds,      \* bound: entries of a table
          MaxFlushFails,  \* bound: flushes of the file that fail
          MaxLost       \* bound: appends to the file that fail

ASSUME TableAssumption ==
    /\ KeyBytes \subseteq Seq(0 .. 255)
    /\ BlockSizes \subseteq Nat
    /\ MaxAdds \in Nat /\ MaxFlushFails \in Nat /\ MaxLost \in Nat

VARIABLES blockSize,    \* options_->block_size
          data,         \* data_block_
          index,        \* index_block_
          lastKey,      \* last_key_
          pending,      \* pending_index_entry_
          handle,       \* pending_handle_
          offset,       \* block_offset_
          file,         \* what the file holds: sequence of [at, size, content]
          status,       \* did the last call return OK
          done,         \* Finish has closed the file
          added,        \* ghost: the entries added
          fails         \* ghost: [flush, lost] failures so far

builderVars == <<data, index, lastKey, pending, handle, offset>>
vars == <<blockSize, builderVars, file, status, done, added, fails>>

NoHandle == [offset |-> 0, size |-> 0]
HandleSize == 16
FooterSize == 32
None == <<>>

Init ==
    /\ blockSize \in BlockSizes
    /\ data = EmptyBuilder /\ index = EmptyBuilder
    /\ lastKey = <<>> /\ pending = FALSE
    /\ handle = NoHandle /\ offset = 0
    /\ file = <<>>
    /\ status = TRUE /\ done = FALSE
    /\ added = <<>>
    /\ fails = [flush |-> 0, lost |-> 0]

\* The value added n-th, and that of an index entry
Value(n) == [size |-> 1, data |-> n]
HandleValue(h) == [size |-> HandleSize, data |-> h]

-----------------------------------------------------------------------------
\* char is signed
Signed(byte) == IF byte >= 128 THEN byte - 256 ELSE byte

\* Variant: start may become limit itself.
FindShortestUpTo(start, limit) ==
    LET diff == SharedLen(start, limit) IN
    IF /\ diff < Lesser(Len(start), Len(limit))
       /\ start[diff + 1] < 255
       /\ Signed(start[diff + 1]) < Signed(limit[diff + 1])
    THEN SubSeq(start, 1, diff) \o <<start[diff + 1] + 1>>
    ELSE start

\* Variant: the byte that differs is kept, what follows it is cut.
FindShortestCut(start, limit) ==
    LET diff == SharedLen(start, limit) IN
    IF diff < Lesser(Len(start), Len(limit)) THEN SubSeq(start, 1, diff + 1) ELSE start

\* A key from start up to, but not including, limit
FindShortest(start, limit) ==
    LET diff == SharedLen(start, limit) IN
    IF /\ diff < Lesser(Len(start), Len(limit))
       /\ start[diff + 1] < 255
       /\ Signed(start[diff + 1]) + 1 < Signed(limit[diff + 1])
    THEN SubSeq(start, 1, diff) \o <<start[diff + 1] + 1>>
    ELSE start

-----------------------------------------------------------------------------
FileEnd(f) == IF f = <<>> THEN 0 ELSE f[Len(f)].at + f[Len(f)].size

Chunk(f, content, size) == [at |-> FileEnd(f), size |-> size, content |-> content]

\* What appending size bytes to file w.file can leave there: all of them, or,
\* when append returns an error, half of them.
Writes(w, content, size) ==
    {[file |-> Append(w.file, Chunk(w.file, content, size)), lost |-> w.lost],
     [file |-> Append(w.file, Chunk(w.file, None, size \div 2)), lost |-> w.lost + 1]}

Now == [file |-> file, lost |-> fails.lost]

\* Variant: the handle is that of the end of the block.
HandleAtEnd(at, b) == [offset |-> at + ContentSize(b), size |-> ContentSize(b)]

\* The handle of block b written at an offset, and the offset behind it, which
\* writeBytesBlock sets whatever append returned
HandleAt(at, b) == [offset |-> at, size |-> ContentSize(b)]

\* Variant: the restarts are not counted.
EndOfShort(at, b) == at + DataSize(b)

EndOf(at, b) == at + ContentSize(b)

InOrder(key) == added # <<>> => Less(added[Len(added)].key, key)

\* data_block_ with the next entry in it
Filled(key) == AddTo(data, key, Value(Len(added)))

\* The index entry of the block before, at the first key behind it
Indexed(key) ==
    IF pending THEN AddTo(index, FindShortest(lastKey, key), HandleValue(handle)) ELSE index

\* The first part of Add
AddEntry(key) ==
    /\ ~done /\ Len(added) < MaxAdds /\ InOrder(key)
    /\ index' = Indexed(key)
    /\ lastKey' = key
    /\ added' = Append(added, [key |-> key, value |-> Value(Len(added))])
    /\ UNCHANGED <<blockSize, done>>

\* Add, when the block is not full yet
AddOnly(key) ==
    /\ AddEntry(key)
    /\ DataSize(Filled(key)) < blockSize
    /\ data' = Filled(key)
    /\ pending' = FALSE
    /\ status' = TRUE
    /\ UNCHANGED <<handle, offset, file, fails>>

\* flush: block b is written and file_->flush() called, which may fail
Flush(b) ==
    /\ handle' = HandleAt(offset, b)
    /\ offset' = EndOf(offset, b)
    /\ data' = EmptyBuilder
    /\ pending' = TRUE
    /\ \E w \in Writes(Now, Content(b), ContentSize(b)), f \in 0 .. 1 :
        /\ w.lost <= MaxLost /\ fails.flush + f <= MaxFlushFails
        /\ file' = w.file
        /\ fails' = [flush |-> fails.flush + f, lost |-> w.lost]
        /\ status' = (f = 0)

\* Add, when the entry fills the block
AddAndFlush(key) ==
    /\ AddEntry(key)
    /\ DataSize(Filled(key)) >= blockSize
    /\ Flush(Filled(key))

\* Finish, when flushing the last block fails: it may be called again
FinishFails ==
    /\ ~done /\ data.num > 0
    /\ Flush(data)
    /\ ~status'
    /\ UNCHANGED <<blockSize, index, lastKey, done, added>>

\* What a flush that succeeds leaves to the rest of Finish
FlushedHandle  == IF data.num > 0 THEN HandleAt(offset, data) ELSE handle
FlushedOffset  == IF data.num > 0 THEN EndOf(offset, data) ELSE offset
FlushedFiles   == IF data.num > 0 THEN Writes(Now, Content(data), ContentSize(data)) ELSE {Now}

\* Variant: the index entry is written for a block flushed here only.
LastIndexNow ==
    IF data.num > 0 THEN AddTo(index, lastKey, HandleValue(FlushedHandle)) ELSE index

\* index_block_ with its last entry
LastIndex ==
    IF data.num > 0 \/ pending THEN AddTo(index, lastKey, HandleValue(FlushedHandle)) ELSE index

Finish ==
    /\ ~done
    /\ LET at == HandleAt(FlushedOffset, LastIndex) IN
       \E d \in FlushedFiles :
       \E i \in Writes(d, Content(LastIndex), ContentSize(LastIndex)) :
       \E w \in Writes(i, at, FooterSize) :
          /\ w.lost <= MaxLost
          /\ file' = w.file
          /\ fails' = [fails EXCEPT !.lost = w.lost]
    /\ handle' = FlushedHandle
    /\ offset' = EndOf(FlushedOffset, LastIndex) + FooterSize
    /\ data' = EmptyBuilder /\ index' = EmptyBuilder /\ pending' = FALSE
    /\ status' = TRUE /\ done' = TRUE
    /\ UNCHANGED <<blockSize, lastKey, added>>

Next ==
    \/ \E key \in KeyBytes : AddOnly(key) \/ AddAndFlush(key)
    \/ FinishFails
    \/ Finish

Spec == Init /\ [][Next]_vars

-----------------------------------------------------------------------------
\* The reader of the file, opened with fileSize(), which is offset

Chunks(at, size) ==
    {c \in {file[i] : i \in 1 .. Len(file)} : c.at = at /\ c.size = size /\ c.content # None}

IsThere(h) == Chunks(h.offset, h.size) # {}
ReadAt(h)  == (CHOOSE c \in Chunks(h.offset, h.size) : TRUE).content

\* ReadIndexBlock and the handles in its values
FooterAt   == [offset |-> offset - FooterSize, size |-> FooterSize]
IndexBlock == ReadAt(ReadAt(FooterAt))
BlockAt(i) == ReadAt(IndexBlock.entries[i].value.data)

\* The search of a block for the key, and the value found
FindIn(c, key) ==
    LET j == Find(c, key) IN IF AtEnd(c, j) THEN None ELSE c.entries[j].value

\* How a find comes out: it returns a value, or None, or it ends the process.
Returns(value) == [aborts |-> FALSE, value |-> value]
Aborts         == [aborts |-> TRUE, value |-> None]

\* SSTable::find(const std::string&).  It logs the value of what lower_bound returned
\* before it asks whether that is the end; an end() that was at no entry has lengths
\* nobody set, and a value of as many bytes from address 0 on.
FindIter(key) ==
    LET i == LowerBound(IndexBlock, key) IN
    IF ~AtEnd(IndexBlock, i) THEN {Returns(FindIn(BlockAt(i), key))}
    ELSE IF BelowAll(IndexBlock, key) THEN {Returns(None), Aborts}
    ELSE {Returns(None)}

\* SSTable::find(std::string_view, std::string&)
FindValue(key) ==
    LET i == FindIf(IndexBlock, key) IN
    IF AtEnd(IndexBlock, i) THEN None ELSE FindIn(BlockAt(i), key)

-----------------------------------------------------------------------------
\* A table that was finished and holds something.  What a reader makes of one that
\* lost an append is left open: it decodes whatever bytes it finds.
Table == done /\ added # <<>> /\ fails.lost = 0

Readable ==
    /\ IsThere(FooterAt) /\ IsThere(ReadAt(FooterAt))
    /\ \A i \in 1 .. Len(IndexBlock.entries) : IsThere(IndexBlock.entries[i].value.data)

TableKeys == {added[n].key : n \in 1 .. Len(added)}
ValueOf(key) == (CHOOSE e \in {added[n] : n \in 1 .. Len(added)} : e.key = key).value
Separators == Keys(IndexBlock)

\* The builder's own view: nothing is pending while the data block has entries,
\* the handle is that of the last block of the file, and while nothing is lost
\* block_offset_ is the length of the file.
TypeOK ==
    /\ pending => data = EmptyBuilder
    /\ data.num = Len(data.entries) /\ (data.num > 0 => DataSize(data) < blockSize)
    /\ fails.lost = 0 => offset = FileEnd(file)
    /\ pending => handle.offset + handle.size = offset
    /\ lastKey = IF added = <<>> THEN <<>> ELSE added[Len(added)].key

\* The handles the builder has made, those of the index and the one pending
Handles == {index.entries[i].value.data : i \in DOMAIN index.entries}
           \cup IF pending THEN {handle} ELSE {}

\* Where the first append that failed was to go, or where the next one goes
FirstLoss ==
    LET lost == {i \in DOMAIN file : file[i].content = None} IN
    IF lost = {} THEN FileEnd(file) ELSE file[CHOOSE i \in lost : \A j \in lost : i <= j].at

\* While a table is built, and although nobody looks whether an append failed
\* (SSTable_builder.cpp:171), every handle to what was written before the first that did
\* leads to a block that is there; what comes later does not take its place.
HandlesLead ==
    TypeOK /\ \A h \in Handles : h.offset + h.size <= FirstLoss => IsThere(h)

\* What Finish says is a table is one: the footer leads to the index, and every
\* handle of it to a block, also after a flush failed and was tried again.
FinishedIsReadable == Table => Readable

\* The blocks, in the order of the index, hold what was added, in that order and
\* once each: nothing is dropped or doubled where a block ends.
BlocksHoldAdded ==
    Table =>
        LET upTo[i \in 0 .. Len(IndexBlock.entries)] ==
                IF i = 0 THEN <<>> ELSE upTo[i - 1] \o [j \in 1 .. Len(BlockAt(i).entries) |->
                    [key |-> Keys(BlockAt(i))[j], value |-> BlockAt(i).entries[j].value]]
        IN  upTo[Len(IndexBlock.entries)] = added

\* Each separator is at least the last key of its block and below the first key
\* of the next: the index sends every key to the block it must be in.
SeparatorsSplit ==
    Table =>
        \A i \in 1 .. Len(IndexBlock.entries) :
            LET keys == Keys(BlockAt(i)) IN
            /\ ~Less(Separators[i], keys[Len(BlockAt(i).entries)])
            /\ i > 1 => Less(Separators[i - 1], keys[1])

\* Neither find returns a value that was not added under the key, and from the
\* first separator on the iterator's find returns, with the value if there is one.
FindIsSound ==
    Table =>
        \A key \in KeyBytes :
            /\ \A o \in FindIter(key) :
                  o.value # None => key \in TableKeys /\ o.value = ValueOf(key)
            /\ FindValue(key) # None => key \in TableKeys /\ FindValue(key) = ValueOf(key)
            /\ ~Less(key, Separators[1]) =>
                  FindIter(key) = {Returns(IF key \in TableKeys THEN ValueOf(key) ELSE None)}

-----------------------------------------------------------------------------
(* What callers, tests or comments expect and the code does not do: no        *)
(* configuration checks these, README.md says how each one fails.             *)

\* A table that Finish said OK for can be read.
OkIsReadable == done /\ added # <<>> => Readable

\* A find comes back, whatever the key.
FindReturns == Table => \A key \in KeyBytes : Aborts \notin FindIter(key)

\* What the tests take find and Get to be: every key that was added is found.
IterFindsAdded  == Table => \A key \in TableKeys : FindIter(key) = {Returns(ValueOf(key))}
ValueFindsAdded == Table => \A key \in TableKeys : FindValue(key) # None
=============================================================================
