# Kirsidb: models, checks and proofs

Kirsidb is the storage layer of an LSM key-value store in C++: a skip list and a
memtable, a write-ahead log, write batches, table files (SSTables) with their
blocks and iterators, an LRU cache with a cache of open tables, and the file
classes below them. There is no database class yet that ties them together; each
part is used through its own interface, mostly by the tests.

This directory models the parts as TLA+ modules, checks them with TLC and proves
with TLAPS the central facts of all of them: the skip list and its lock-free readers,
the memtable's entries and iterator, the write batches, the caches, the file writer,
the log, blocks, and tables with their iterator. Paths are relative to `src/`.

- [Inventory](#inventory)
- [The modules](#the-modules)
- [The runs](#the-runs)
- [Bounds](#bounds)
- [Fairness](#fairness)
- [Proofs](#proofs)
- [Known disagreements](#known-disagreements)
- [Not modelled](#not-modelled)
- [Plan](#plan)

## Inventory

| Component | State | Operations | Who calls it | What is hard | What makes it correct |
|---|---|---|---|---|---|
| Skip list (`memtable/skiplist.*`) | `head_`, nodes with `next_[]`, `max_level_`, `mutex_`; an iterator's `node_` | `Insert`, `Find`, `Contains`, `Begin`, `Next`, `Seek` | memtable, any thread | `Insert` holds the unique lock, `Find` and iterators take none: readers walk while a node is linked level by level | levels sorted and complete at every pointer write, no key twice, readers in bounds, scans miss nothing, `Find` ends, `Insert` atomic |
| Memtable, internal keys (`memtable/`) | the skip list of entries ordered by (user key, tag) | `Add`, `find`, `MemTableIterator` | write batch, any thread | the order of tags, entries that are there already, an iterator that walks without a lock while batches go in, entries that are compared as bytes | a Put is found at its sequence number, or missed only while a node is linked in front of it; a walk shows everything in order, the newest version of a key last; bytes read back and sort as what they mean |
| Write batch (`write_batch/`) | one string: sequence, count, records | `Put`, `Delete`, `Append`, `Clear`, `SetContents`, `InsertInto` | clients, several threads | records go into a shared memtable one at a time; damage is found on the way | a call applies the records it has passed and nothing else, each at its own sequence number |
| Write-ahead log (`wal/`) | `rep_`, `block_offset_`, the file; the reader's `buffer_`, `offset_`, `eof_` | `Open`, `AppendRecordToBuffer`, `Flush`, `Sync`, `Close`; `ReadRecord` | clients | the process or the machine stops between two system calls; writes come up short; block boundaries | what is read begins with all that was flushed, or synced, before any damage, and without damage is a prefix of what was appended; the reader of an undamaged file ends |
| LRU cache (`cache/`) | `table_` of entries, `cache_` list of keys, list positions in entries, `unique_id_`, a mutex | `Insert`, `Lookup`, `Erase`, `Release`, `Value`, `NewId` | table cache | two structures tied by positions; pointers handed out that outlive the lock | table and list agree, the right entry is evicted |
| Table cache (`sstable/table_cache.*`) | an LRU cache of open tables | `Get` | clients, several threads | lookup, open, insert, use and delete are separate steps | `Get(n)` reads file n, or one of the same C string, and nothing freed |
| Block builder and iterator (`sstable/block_*`) | `data_`, `restarts_`, `pre_key_`, counters | `add`, `final` (two), `clear`; `begin`, `++`, `lower_bound`, `find`, `find_if` | table builder and reader | prefix compression across restarts, binary search at its edges | a block reads back as what was added; searches find it |
| Table builder (`sstable/SSTable_builder.*`) | data and index block, last key, pending index entry and handle, file offset | `Add`, `flush`, `Finish` | clients | the index entry of a block is written at the next key; flushes fail | the file is the table that was added |
| Table reader (`sstable/SSTable.*`) | index block; an iterator's block and position | `find` (two), `begin`, `end`, `TwoLevelIterator` `++`, `=` | table cache | ownership of the block an iterator is in | walks show every entry once, in order |
| Coding (`sstable/coding.*`) | none | varints, fixed integers, length-prefixed strings | write batch, memtable, log, table cache | boundaries, a buffer that is cut | what is written is read back |
| File classes (`file/`) | `FileWriter`: `buf_`, `pos_`, `fd_`, `closed_`; `RandomAccessFile`: a name | `append`, `flush`, `sync`, `close`, the destructor; `read`, `ReadBlockFromFile` | table builder | buffer boundaries, short writes, the two ways to close, a reader while the file grows | bytes in place and in order; what was flushed is read back |
| tinyio (`file/tinyio.*`) | a descriptor | `open`, `read`, `write`, `sync` | log, table cache | short writes, a write of no bytes | none of its own |

How they interact: a write batch calls `Memtable::Add`, which calls
`SkipList::Insert`; `TableCache::Get` calls the LRU cache, opens a file through
tinyio's `fileManager` and searches an `SSTable`; `SSTableBuilder` fills two
`BlockBuilder`s and appends their content to a `WritableFile`; the log's writer and
reader use a `tinyio::File`. All of it is calls; the state that threads share is
the skip list, under `mutex_` for writers only, and the cache, under its own
mutex for the length of one operation.

## The modules

| Module | Models | One action is |
|---|---|---|
| `KeySet` | abstract: a set of keys that grows at one instant per `Insert` | a call or a return |
| `SkipList` | `SkipList`, its iterator; the properties and the inductive invariant | one pointer read or write of `Insert`, `Contains`, `Find`, `Next`, `Seek` |
| `SkipListReads` | history of what each reader saw, on top of `SkipList` | a step of `SkipList` |
| `Memtable` | internal keys; `Add`, `find` over what `SkipList` is shown to be: an atomic set for those who insert, from which lock-free readers may also get the node being linked, or the end behind it | operators |
| `WriteBatch` | the batch's operations and `InsertInto` in several threads | an operation of a batch; the start of linking the node of one record; its end |
| `MemtableReads` | `MemTableIterator` over the memtable that `WriteBatch` fills | `Seek`, `SeekToFrist`, `Next`; a step of `WriteBatch` |
| `DurableLog` | abstract: records appended, a prefix of them out of the program, a prefix of that safe; what a reader gets | one of the promises being used: append, write out, sync, close, crash, read |
| `Wal` | writer, reader, file, crash; implements `DurableLog` | one `::write`, `::fdatasync` or `::read`; one fragment read |
| `LruMap` | abstract: the entries used last | a use, a drop, a put |
| `LruCache` | `LRUCachePolicy` with list positions and entry pointers; implements `LruMap` | one operation, under the mutex |
| `TableCache` | `Get` and `FindTable` on top of `LruCache` | the code between two calls of the cache or the table |
| `BlockFormat` | the format of a block: what the builder makes, how it is searched | operators, no state |
| `Block` | `BlockBuilder` and a reader of what it returns | one operation |
| `SSTable` | `SSTableBuilder`, and the reader's searches, over `BlockFormat` | one `Add`, flush or `Finish` |
| `TableIterator` | `TwoLevelIterator` on a table that `SSTable` built | `begin`, `find`, `++`, assignment |
| `Coding` | varints and length-prefixed strings | one string written or read |
| `MemtableFormat` | the bytes of memtable entries, internal keys and lookup keys, and their comparison, over the strings `Coding` got from a batch | one `Add` |
| `FileWriter` | `FileWriter`, and `RandomAccessFile` and `ReadBlockFromFile` on its file | one operation, with every `::write` outcome |
| `SkipListProofs` | theorems about `SkipList` and `SkipListReads` | |
| `BatchProofs` | theorems about `WriteBatch` and `MemtableReads` | |
| `CacheProofs` | theorems about `LruCache` and `TableCache` | |
| `WalProofs` | theorems about `Wal` and `DurableLog` | |
| `FileWriterProofs` | theorems about `FileWriter` | |
| `FormatProofs` | theorems about `Block`, `Coding` and `MemtableFormat` | |
| `SSTableProofs` | theorems about `SSTable` and `TableIterator` | |
| `BlockFormatProofs` | what the operators of `BlockFormat` compute: the lemmas under the proofs of blocks and tables | |
| `*MC` | values of constants for TLC | |

State and actions keep the names of the code (`maxLevel` is `max_level_`, `rep` is
`rep_`, `pos` is `pos_`), with three kinds of additions, each said so where it is
declared: program counters (`pc`, `wpc`, `rpc`), history (`log`, `flushed`, `seen`,
`added`, ...), and bounds. An operator under a comment that starts with
"Variant:" is the form the definition after it would have with a plausible
mistake; no specification uses it. The mutation of each property in
`PROJECT.json` puts one of them in place, and TLC then finds the property
violated.

Choices worth knowing:

- `SkipList`: `next_` holds `shared_ptr`s, whose concurrent use is a data race.
  The model takes a read or a write of one pointer as one step. No node is ever
  unlinked, so no reader meets a freed one. The random height is any height.
- `Wal`: a byte of the file says which write it comes from, and a checksum
  matches exactly if header and data come from one `WritePhysicalRecord`. Power
  loss leaves any prefix of what was written since the last sync, and may leave
  zeros in the place of the rest. The writer may open a file that an older log is
  in, which it writes over without cutting it off (`file/tinyio.cpp:56`).
  A `::write` may come up short, or fail with `rep_` and `block_offset_` as they
  were and the caller going on (`WriteFails`). The reader checks no checksum whose
  bytes are zero (`wal/wal_reader.cpp:112`): where those bytes are no header that
  was written, it reads any size and type such bytes may have (`ReadUnchecked`).
- `DurableLog` counts as damage a write that was short, or failed in the middle of
  a record, a tail of zeros, and that a file begins with records its predecessor
  left in `rep_`; `reused` says that an older log was in it. `Recovered` is its
  promise: what was flushed before any damage comes back first, in order, and without
  damage nothing else does. It is a theorem (`Promise`), and `Wal` is proved to
  implement the module (`LogIsDurable`). Behind what was flushed it allows anything, also `Torn`,
  which is no record: see `NoneTorn` under "Known disagreements".
- `Memtable`: an entry is in `table` once its lowest link is set, and in `linking`
  before. `SkipList::Find` may stop at the node being linked, or fall off its null
  links: it finds a key of the table for sure only if no node is linked in front of
  it, which is what `QuietFindMissesNothing` says of `SkipList` and what
  `skiplist_miss` shows.
- `WriteBatch`: a batch is its records and a torn tail; `Coding` has the bytes.
  Adding to a batch with a torn tail is left out.
- `MemtableReads`: one iterator; others do not see it. Its `Next` is one step, as
  the skip list's is: a key read once does not change. `first` and `base` say where
  the walk began and what the table held then. `Seek` may land on the node that is
  being linked, whose lowest link is still null: such a walk may end at once, so the
  properties take `first \in base`.
- `MemtableFormat`: a byte has four values, so that a tag is sixteen bits with two
  of type. An empty user key makes `ExtractUserKey` abort
  (`memtable/internalKeys.h:111`); the model stops there (`aborted`). Lengths at
  which `key.size() + 8` would pass the limit of a length are left out.
- `LruCache`: an entry is told from an earlier one of its key by a `node`, so
  that a pointer to a destroyed entry can be seen. Keys go through `CKey`, the
  C string that `std::string(key.data())` makes of them.
- `TableCache`: what comes after a use of freed memory is undefined; the model
  stops there (`crashed`). A status that is not set is either outcome. `CKey` of the
  cache is the C string of a file number's bytes (`KeyAssumption`).
- `BlockFormat`: a place in a block is an entry's number, not its offset; sizes
  are in bytes, as block boundaries depend on them. Recursion, here and in `Coding`, is by
  recursive functions, so that theorems can be stated above it.
- `SSTable`: the file is what the appends left; the reader's file classes
  (`PosixFileWriter`, `MmapReaderFile`) are not in the repository, so reading is a
  look at the file. Keys are added in order, which `Add` takes for granted and does
  not check, and an empty table is outside the properties. (The second test of
  `tests/test_SSTable.cpp`, lines 107-110, adds `key_10` behind `key_9`, which is above
  it byte by byte: such a table is outside what is modelled.) `FindIter` is the set
  of what a find may do: below the first separator `lower_bound` gives an end whose
  lengths were never set, and logging its value (`sstable/SSTable.cpp:134`) may end
  the process before the end is noticed.
- `Block`: `final(std::string&)` has no guard against being called twice; the
  model calls it on a builder that is not finished, as every caller does.
- `TableIterator`: the iterator is where it points and in whose block; the block
  it owns is `owned`.

## The runs

`tlc -config <cfg> <module>` for each of them.

| Run | Module, cfg | Question and answer |
|---|---|---|
| `skiplist` | `SkipListReadsMC`, `SkipList.cfg` | Do the levels stay sorted (`LevelsSorted`), complete (`LevelsComplete`) and free of duplicates (`KeysUnique`, a conjunct of `ReadsInv`), do links only tighten (`LinksTighten`), do all reads stay in bounds (`ReadsInBounds`) and does `Insert`'s assertion hold (`InsertAssertHolds`), with every call running against every other? Do scans show every key that was there when they began (`ScanComplete`), and does `Find` miss nothing when no writer is linking (`QuietFindMissesNothing`)? Yes. `ReadsInv`, the invariant of the proofs, is checked along. |
| `skiplist_live` | `SkipListMC`, `SkipListLive.cfg` | Does every `Find` end and every `Insert` give the lock back (`FindEndsAlways`, `LockReleased`), and does the list implement `KeySet` (`InsertIsAtomic`)? Yes. |
| `skiplist_miss` | `SkipListReadsMC`, `SkipListMiss.cfg` | Does a lock-free `Find` never miss a key that is there (`FindMissesNothing`)? **No**: it may step onto a node whose lower links are still null. |
| `wal` | `WalMC`, `Wal.cfg` | After a kill or a power failure between any two system calls, does the reader get whole records in order, all that was flushed or synced among them; and do those still come first in a file that an older log was in, or where a write was short or failed, or zeros took the place of a tail (`ImplementsLog`, refinement of `DurableLog`)? Does reading a file of its own that nothing damaged come to its end, without an exception and without a loop (`ReaderEnds`)? Do the writer's assertions hold and do fragments stay aligned (`WriterAssertsHold`, `BlockAligned`)? Yes. |
| `write_batch` | `WriteBatchMC`, `WriteBatch.cfg` | With two threads inserting, sound and damaged batches, does each call apply the records it has passed and no others, where `find` finds its Puts, and misses them exactly while a node is linked in front of them (`AppliedInOrder`)? Do Put, Delete, Append and Clear keep a batch sound (`PlainIsSound`)? Does an iterator that walks meanwhile show every entry that was there, in order and once, with its own value (`WalkShowsAll`), the newest version of a key last (`NewestLast`)? Yes. |
| `lru_cache` | `LruCacheMC`, `LruCache.cfg` | Do table and list agree (`Consistent`), and is it an LRU map (`KeepsRecent`, refinement of `LruMap`)? Yes. |
| `table_cache` | `TableCacheMC`, `TableCache.cfg` | Up to the first use of freed memory, does each `Get` search the file it was asked for (`ReadsItsFile`), or one whose number has the same bytes up to the first zero, with numbers of which two are one C string and one is not? Yes. |
| `table_cache_freed` | `TableCacheMC`, `TableCacheFreed.cfg` | Does `Get` use freed memory (`NeverUsesFreed`)? **Yes**, on the second `Get` of a file. |
| `file_writer` | `FileWriterMC`, `FileWriter.cfg` | Is every byte appended in its place, or cleared where appends share a buffer and only there (`PlacedRight`), in order even after short writes (`BytesInOrder`), and is what was flushed read back from any place while the file grows (`FlushedIsRead`)? Yes. |
| `block` | `BlockMC`, `Block.cfg` | Does every block read back as what was added (`RoundTrip`), do `find` and `find_if` find it (`FindsAll`), and is `lower_bound` the least (`LowerBoundIsLeast`)? Yes, except for the block of one empty key and empty value (`Invisible`). |
| `coding` | `CodingMC`, `Coding.cfg` | Does a reader of a cut buffer get exactly the strings that end in front of the cut, and fail if the cut is inside a string and only then, at every boundary of their lengths (`GetsWholeStrings`)? Do memtable entries made of them fill the buffer allocated for them, read back as what was added, sort as what they mean, and does a lookup key meet exactly its Put (`EntriesReadBack`)? Yes. |
| `table` | `TableIteratorMC`, `Table.cfg` | While a table is built and appends fail, does every handle to what was written before the failure lead to its block (`HandlesLead`)? Is a finished table readable (`FinishedIsReadable`), are its blocks what was added (`BlocksHoldAdded`), do separators split them (`SeparatorsSplit`), is what the searches find right (`FindIsSound`), does a walk show every entry in order and end (`WalksInOrder`, `WalkEnds`), and is the iterator in a block that is there (`IteratorsReach`)? Yes. |

Each module has one type invariant. It is a conjunct of the property that needs
it most: of `ReadsInv`, `BlockAligned`, `PlainIsSound`, `WalkShowsAll`, `Consistent`,
`ReadsItsFile`, `PlacedRight`, `RoundTrip`, `EntriesReadBack`, `HandlesLead` and
`IteratorsReach`. `TypeOK` of `SSTable` and `Block` carry the agreement of counters
and offsets. `FindIsSound` says exactly what the search by iterator does from the first separator
on, and below it only that a find that comes back gives no wrong value.

## Bounds

| Run | Bound | Why it is enough to be interesting |
|---|---|---|
| `skiplist` | 2 threads, 3 keys, 3 nodes, 2 levels, every call | a writer and a reader, or two writers, on every pair of pointer accesses; a key in front of, between and behind others; nodes of both heights. Writers exclude each other, so that a third thread adds no new kind of step; the theorems hold for any number. Symmetry of threads and nodes, which are only compared |
| `skiplist_live` | 2 threads, 2 keys, 2 nodes, no symmetry | a Find that nodes are linked in front of |
| `wal` | blocks of 8 bytes, headers of 3 (checksum, size and type of a byte each), records of 0, 2 and 6, three records, the writer opened twice, one fault (`MaxFaults`) a file, up to one record in a file written over and in the log that does so (`MaxReused`) | a record that fits, ends at, leaves less than a header or exactly a header in the block, or spans two and three blocks; every system call as the one that is cut, short or failed |
| `write_batch` | 2 batches of up to 2 records, 1 key, 1 value, 2 calls of `InsertInto`, batches that begin at number 0 or 1 (`Seqs`) of four (`SeqMod`), a count set to 0 by `SetCount`, filled before the first call with at most one damaged by `SetCount` or `SetContents` among those inserted, the iterator for batches that were filled by Put, Delete and Append (`FillFirst`) | overlapping and disjoint sequence numbers, lookups and walks at every moment of a node's linking; a torn, short or miscounted batch; versions put in front of, between and behind where the iterator is |
| `lru_cache` | capacity 2, 4 keys (two are one C string), 2 values, 2 threads, 2 calls of `NewId` | eviction, replacement and hits at each place of the list |
| `table_cache` | 3 files, capacity 2, 2 threads, 3 tables opened | both threads miss on a file; eviction between lookup and use; numbers 1 and 17 are one C string, 5 is another |
| `file_writer` | buffer of 3, appends of 0, 1, 2, 4 and 7, ten bytes, one short write; every block that `ReadBlockFromFile` can ask for | below, at and above one and two buffers |
| `block` | 8 keys with shared prefixes, a byte above 127 and the empty key, values of 0 and 1 bytes, restarts every 2, up to 7 entries | up to four restarts, a last group of one or two |
| `coding` | a digit of 1 bit, 10 lengths below 32, 2 strings, 2 entries (`MaxEntries`), sequence numbers 1, 4 and the highest | all five branches of `EncodeVarint32`; keys that are the front of one another, tags whose bytes sort otherwise than they do; constants scale, the code does not look at their size |
| `table` | 6 keys, up to 5 entries, blocks of one, two and three entries, one flush that fails (`MaxFlushFails`; walks only where none did, as the file differs at most in where blocks end: `WalkIfFlushed`), one append that does (`MaxLost`), blocks that cannot be read (`MaxReadFails`) | every subset of keys; separators that are shortened, that cannot be, and on both sides of the signed byte |

`CHECK_DEADLOCK FALSE` is set where the system may stop: the process has died or
the reader is done (`wal`), the bounds are used up, a walk is at its end, or the
process aborted.

## Fairness

- `SkipList!Fairness`: a thread inside `Insert` or `Find` goes on (weak fairness of
  its steps while the process runs). Nothing is asked of threads outside a call,
  and nothing of waiting for the lock: that a particular waiter gets it is
  nobody's promise. A `Find` reaches its end although writers link nodes in
  front of it because the keys are finitely many in any run.
- `Wal!FairSpec`: a reader that has been opened keeps calling `ReadRecord`, a loop
  without waiting.
- `TableIterator!ItFairSpec`: a caller that walks goes on with `++`. It is the
  `for` loop of the tests.

## Proofs

`tlapm <module>` for each `*Proofs` module. Every theorem holds for all values of
the constants that satisfy the named assumptions of the modules: any number of
threads, keys, values, nodes, levels and records, blocks, buffers and capacities
of any size. The bounds of the runs (`MaxRuns`, `MaxFaults`, ...) are constants of
the modules too, and any.

| Module | Theorem | Says |
|---|---|---|
| `SkipListProofs` | `Invariant` | `Spec => []SkipListInv`, the inductive invariant |
| | `TypeCorrect`, `AlwaysSorted`, `NothingLost`, `NoDuplicates`, `AssertionHolds`, `InBounds` | `TypeOK`, `LevelsSorted`, `LevelsComplete`, `KeysUnique`, `InsertAssertHolds`, `ReadsInBounds` |
| | `Tightening` | the action property `LinksTighten` |
| | `Atomicity` | `InsertIsAtomic`: refinement of `KeySet` |
| | `ReadsInvariant` | `ReadsSpec => []ReadsInv`, the inductive invariant of the readers |
| | `QuietFindIsRight`, `ScanMissesNothing` | `QuietFindMissesNothing`, `ScanComplete` |
| `BatchProofs` | `BatchInvariant` | `Spec => []BatchInv`, the inductive invariant |
| | `PlainAccepted`, `RecordsApplied` | `PlainIsSound`, `AppliedInOrder` |
| | `ReadsInvariant` | `ReadsSpec => []ReadsInv`, the inductive invariant of `MemtableReads` |
| | `WalksAreWhole`, `LastIsNewest` | `WalkShowsAll`, `NewestLast` |
| `CacheProofs` | `LruInvariant` | `Spec => []LruInv`, the inductive invariant |
| | `TableIsList` | `Consistent` |
| | `CacheKeepsRecent` | `KeepsRecent`: refinement of `LruMap` |
| | `GetReadsItsFile` | `ReadsItsFile` |
| `FileWriterProofs` | `FileInvariant` | `Spec => []FileInv`, the inductive invariant |
| | `BytesKeepPlace`, `FlushedReadsBack`, `BytesAscend` | `PlacedRight`, `FlushedIsRead`, `BytesInOrder` |
| `WalProofs` | `AssertsHold`, `OffsetIsTheFiles` | `WriterAssertsHold`, `BlockAligned` |
| | `LogIsDurable` | `ImplementsLog`: refinement of `DurableLog` |
| | `LogInvariant`, `Promise` | `Recovered` of the abstract log, so of `Wal` |
| `FormatProofs` | `BlockInvariant` | `Spec => []BlockInv` of `Block`, the inductive invariant, if the builder is not used after `final(std::string&)` (`~Reuse`) |
| | `BlockReadsBack`, `FindIsExact`, `LowerBoundIsRight` | `RoundTrip`, `FindsAll`, `LowerBoundIsLeast`, likewise |
| | `WholeStringsAreRead` | `GetsWholeStrings` |
| | `EntriesAreReadBack` | `EntriesReadBack` |
| `SSTableProofs` | `TableInvariant` | `Spec => []TableInv`, the inductive invariant of the builder |
| | `HandlesLeadAlways`, `FinishedTablesAreReadable`, `SeparatorsSplitKeys`, `BlocksHoldWhatWasAdded`, `FindsAreSound` | `HandlesLead`, `FinishedIsReadable`, `SeparatorsSplit`, `BlocksHoldAdded`, `FindIsSound` |
| | `IteratorInvariant` | `ItSpec => []ItInv`, the inductive invariant of the iterator |
| | `IteratorsReachAlways`, `WalksGoInOrder` | `IteratorsReach`, `WalksInOrder` |

### The skip list

Sortedness and completeness are not inductive alone: that linking the new node
keeps them depends on the predecessors in `prev` still being the right ones when
they are used, many steps after they were found. `SkipListInv` says what each
thread knows at each point of the code:

- `LockInv`: a thread is inside `Insert` exactly if it owns the lock, so that
  nobody else changes the list meanwhile.
- `ShapeInv`: levels sorted and complete, keys unique, heights within
  `max_level_`, levels above it empty.
- `WalkInv`: a search stands at a node of its level whose key is smaller.
- `SearchInv`, `AbsentInv`: `prev[i]` is the last node of level i before the key,
  for the levels done; the key is in no node once the bottom is reached.
- `LinkInv`: the new node is allocated, linked above the current level and
  nowhere below, between `prev[i]` and its successor.
- `FindInv`: a lock-free search stands at a linked or partly linked node that is
  as high as its level.

The proof has a lemma per kind of step: those that do not touch the list
(`QuietKeeps` and the lemmas after it), allocating the node (`NodeStep`), setting
its link (`LinkNewStep`), publishing it (`LevelJoined`, `PublishStep`, then
`LinkPrevStep` and `LinkLastStep`), and `OneWriter`, that no other thread can be in
a state these disturb. `Tightening` and `Atomicity` use the invariant in each
step.

`ReadsInv` is about those who take no lock. A `Find` that began with no writer
linking and has met none since (not `raced`) walks as a writer's own search does
(`QuietWalk`), so that at the bottom `LevelsComplete` and `LevelsSorted` make the
next node the least one not below its key. An iterator to be trusted stands at a node
of level 0 and has shown every key that was in the list when it began and that it has
gone past (`IterInv`): by `Tightening` and `LevelsComplete` nothing that was there lies
between a node of level 0 and the next.

### Batches and the memtable's iterator

That every record has its entry is not inductive, as it does not exclude entries
of nobody's. `BatchInv` adds the converse:

- `Shape`: batches, calls and threads have their types and bounds.
- `Present`: every record that a call has passed has an entry under its key.
- `Grown`: every entry is the one some call put in for the record of that key.
- `Half`: the node being linked is for the next record of a call, and for a key that
  has no entry yet.
- `Sound`: as in the property.

`RecordsApplied` follows with `OneKeyEach`: two records of one key are the same
record, or their calls share a sequence number, which is arithmetic on tags
(`TagParts`, `Apart`, from `Remainder`) and where `MaxRecords` must not pass the
sequence numbers there are.

`ReadsInv` adds `Walk`: what was shown are entries of the table, ascending, none
behind where the iterator is; and every entry of the start that it has gone past
was shown. `Next` keeps it because the entry it goes to is the least behind the
old one (`LeastIs`, from the least number of a set, `LeastNumber`), and other
steps because nodes and their contents stay (`NodesStay`).

### The caches

`LruInv` says that table and list are `Tied`: each key of the table is in the cell
at its position, each cell's key is in the table with the position of the cell,
and no two cells are at one position. Counts are not part of it: `AsMany` makes
list positions and keys correspond one to one. A fresh cell and a fresh node
exist because there are more of them than are used (`Unused`, `FreshCellIs`,
`FreshNodeIs`); that needs the set of threads to be finite. `RemoveTies` and
`EmplaceTies` say that taking an entry out and putting one in keeps the two tied;
`RecentTaken` and `RecentPut` what that does to the abstract list of entries, from
which each call maps to a step of `LruMap` (`HitUses`, `InsertPuts`, `EraseDrops`).

`TCInv` adds that a table in the cache is of a file with the key it is under
(`CacheHolds`) and what a thread knows of its file at each place in `Get`
(`ThreadHolds`). That two file numbers of one key have the same bytes up to the first
zero is `OneKeyAlike`, from what `CString` takes (`CStringIs`).

### The file writer and the log

`FileInv`: while no write came up short, the buffer goes on where the file ends and
every byte is in its place (`Placed`), and what was flushed is in the file
(`Reached`). After a short write it claims nothing but the types; what is left then
is `OrderInv`: the bytes of the file ascend, those of the buffer do, and some number
lies between the two.

`OffsetInv` of `WalProofs`: the offset is in the block, and once the writer has
padded, a header fits. `TypeInv` adds the types of the bytes and of the call in
progress, that the writer is open where it appends, and that a record waiting for
`rep_` to be written is counted after it; `AlignInv` is `BlockAligned` with the two
places it leaves out, the write of `rep_` and, back by a header, the one between a
header and its data. A pad moves the end of the file by what brings it to the next
block (`Wraps`), a fragment moves it as far as the offset.

That `Wal` implements `DurableLog` needs the shape of the file, which no variable of
the code says. A mark is a place in the file, the record and byte of it expected
there, and whether that must be its first fragment: where a reader that started at
the first byte may be, and what it has put together by then. The invariant
says that there is a set of marks for every file the writer makes, as far as the file is intact:

- `IntactFile`: in a file nothing damaged the marks are a path (`Path`). At each one
  stands the fragment that is due or the end of its block, and from each one leads
  to the next, the last of them at the end of what the writer has issued. `Kept` says
  that the marks of what was flushed are in the file and of what was synced on the disk.
  What an older log left lies behind the last mark.
- `FrontFile`: of a damaged file some front is intact, the same way: the part written
  before the first fault. What was flushed before that is in it.
- `BufferInv`: the reader's buffer is the end of the part of the file it has read, as far
  as a block's end unless the file ends before (`AtBlock`, `AtLast`).
- `ReadInv`: the reader is at the mark of the next record it owes, with what it has put
  together of that (`AtMark`), until it has returned all that was flushed; and to the
  end, if the file is a new one and not damaged. Behind that nothing is claimed of where
  it is, so nothing needs to be known of checksums that match by chance or are not
  compared.

`WalInv` is their conjunction with `TypeInv`, `AlignInv` and how a record in progress
relates to `log` (`RestInv`). A step of the writer adds the marks that what it wrote
leads to, or makes what was there before the fault the front; a step of the reader goes
from one mark to the next. With that each step of `Wal` is one of `DurableLog` or none
(`RefinesStep`): a record returned is the next one of the path, as long as the promise
goes, and anything behind it. The end of the file, or an exception, comes only after the
marks of what was flushed. Fairness plays no part in it.

`LogInv` is the promise of `DurableLog` and that nothing is returned before there is a
reader.

### Blocks

The builder writes keys without what they share with the key before, the iterator puts
them together again, and restarts are found by bisection: all of it recursive functions
over the entries. Facts about such a function are proved by the least counterexample:
if a number breaks the claim there is a least one (`WFMin` and
`NatLessThanWellFounded` of the library, which take sets and no operators), and the
equation of the function at that number contradicts it. `BlockFormatProofs` has what
each operator returns, that way: the keys are read back (`KeysAreRead`), the offsets
ascend, bisection ends at the last restart not above the key.

`BlockInv` says that the builder holds what was added since it was cleared
(`Building`: its entries are those `BlockFormat` makes of them, and its counters and
last key agree), or was moved out of, and that the block returned holds what had been
added then (`Holds`). The three properties follow from what the operators compute.
`~Reuse` is their hypothesis: a builder that `final(std::string&)` left open and that is
filled again loses them ("Known disagreements").

### Tables

`HandlesLead` is not inductive: it says nothing of the block under construction, nor
of the handle that waits for the next key. `TableInv` relates the file to the entries
added, by where these were cut into blocks:

- `FileInv`: what was appended lies behind what was appended before, and the offset is
  the end of the file until an append fails.
- `Covers`: the index under construction has an entry for every block cut so far, whose
  key is not below the last of the block and below the first of the next (`Stored`), and
  whose handle leads to it, unless an append failed before (`Kept`).
- `OpenAt`: what is added after the last cut is in the block that is pending, or in
  the one under construction.
- `Closed`: after `Finish` index and footer are in the file, and the index covers
  everything.

A reader of a finished table finds in it index entries and cuts of that kind
(`TableOpens`), which is where the searches and `ItInv` start from: an iterator is at
the entry that the cuts say (`Points`), as many behind where the walk began as were
shown.

### Coding and the memtable's entries

`EncodeVarint32` and `GetVarint32` are over digits of any radix. `Laid` says that the
strings lie one after the other in the buffer, and where each ends; `CodingInv` that
the reader holds what lies behind the strings it got, up to the cut. `VarintBack`
and `StringBack` give back what was coded, `VarintCut` and `StringCut` say that of less
nothing is got. `EntriesAreReadBack` takes the entries of the memtable apart the same
way (`ReadBack`), and compares the bytes of two of them as their keys and numbers
compare (`EntryOrder`), a lookup key among them (`LookupMeets`).

### What is only model-checked

Liveness (`FindEndsAlways`, `LockReleased`, `ReaderEnds`, `WalkEnds`), which needs
`ENABLED`.

The inductive invariants `BlockInv`, `TableInv`, `ItInv`, `CodingInv`, `FormatInv` and
`WalInv` say that some sequence, or set of marks, exists which the state is made of. TLC
cannot enumerate the candidates; the runs check the properties that follow.

## Known disagreements

Two runs show code that does not do what is said of it (`skiplist_miss`,
`table_cache_freed`). The others below were met while modelling. Each is in the
model as the code has it; the expectation it breaks is stated as a definition that
no configuration checks, because it fails. To see it fail, put the definition and
the constants into the configuration of the module. The properties that are
checked hold despite them and say how far the damage goes.

| Where | What the code does | What is said of it | Definition (constants) |
|---|---|---|---|
| `memtable/skiplist.h:111` | `Seek` asserts `Valid()` before it stores the position it found: seeking with a fresh iterator, or from the end, aborts | `assert(Valid());`, as a check of the result | `SkipList!SeekAssertHolds` |
| `file/tinyio.cpp:160` | `::write` of no bytes returns 0, which is taken for an error: an empty record, or a fragment of no data when exactly a header is left, throws whatever is in `errno`. So does a write that fails, behind part of a record, and with `rep_` not cleared | `tests/test_wal.cpp:30` reads an empty record back | `Wal!AppendNeverThrows` |
| `wal/wal_reader.cpp:112` | a checksum whose bytes are zero is not compared: after a short write, padding in front of another byte may be read as a header of no data, and returned as an empty record nobody appended | `if(record->checksum!=crc32.End())` (`wal/wal_reader.cpp:118`) is to refuse it | `Wal!NoneTorn` (`MaxReused = 0`) |
| `wal/wal_reader.cpp:119` | a checksum that does not match gives null without moving on, and `ReadRecord` calls again while the end of the file is not in the buffer: reading a damaged file may go on forever | `if(eof_==true)` (`wal/wal_reader.cpp:28`) is to end it | `Wal!AnyReaderEnds` |
| `wal/wal_reader.cpp:65` | nothing in a fragment says which record it belongs to: after several short writes, cut so that the reader skips what is left at the ends of blocks, it puts the first and the last fragment of a record together without the middle | `tests/test_wal.cpp:30` reads what was appended | `Wal!NoneTorn`, as above, behind shorter ways to violate it |
| `wal/wal_writer.cpp:15` | `Close` resets `block_offset_` and not `rep_`: unflushed records open the next file | `tests/test_wal.cpp:20-30`, the first record read is the first appended | `Wal!FirstIsFirst` |
| `file/tinyio.cpp:56` | a writer's file is opened without `O_TRUNC`: of an older log in it what is behind the new one stays, and may be read as records, or as records put together of both | `tests/test_wal.cpp:30` reads what was appended | `Wal!NoneTorn` (`MaxFaults = 0`) |
| `memtable/internalKeys.cpp:62` | of two versions of a key the older comes first; `NewestLast` says what a reader can rely on | the comment in `tests/test_write_batch.cpp:205-206` has the newer first | `WriteBatch!NewestFirst` |
| `memtable/memtable.cpp:115` | `find` looks for the exact internal key of type Put; at a deletion, or where there is no Put, `iter.key()` of the end aborts | `case ValueType::kTypeDelete:` (`memtable/memtable.cpp:135`) | `WriteBatch!DeleteIsFound` |
| `memtable/memtable.cpp:113` | the lock-free `SkipList::Find` misses a Put that is there while another thread links a node in front of it, and line 115 aborts | `if(iter.Valid())` (`memtable/memtable.cpp:117`) is to tell | `WriteBatch!PutNeverAborts` |
| `memtable/skiplist.h:105` | a walk that `Seek` began at a node being linked finds its lowest link null and ends, whatever is behind | `tests/skiplist_test.cpp:134-135` goes on reading where `Seek` ends | `MemtableReads!SeekedWalkIsWhole` |
| `sstable/table_cache.cpp:49` | the cache reads the file number's bytes as a C string: numbers that differ behind a zero byte share an entry | `tests/test_table_cache.cpp:42`, `Get(20, ...)` searches file 20 | `TableCache!ReadsOnlyItsFile` |
| `file/file_writer.cpp:108` | `append` clears the buffer before it copies: the bytes of an earlier append in it become zeros | `tests/FileSink.h:68` appends | `FileWriter!HoldsAppended` |
| `file/file_writer.cpp:155` | `close` with bytes in the buffer flushes, returns OK and leaves the descriptor open | `closed_ = true;` (`tests/FileSink.h:56`) | `FileWriter!CloseCloses` |
| `file/file_writer.cpp:155` | the destructor calls `close` once, which with bytes in the buffer leaves the descriptor open; a `close` after one that failed closes the number again | `closed_ = true;` (`tests/FileSink.h:56`) | `FileWriter!DescriptorsAreClosed` |
| `file/file_writer.cpp:12` | `RandomAccessFile::read` gives a result as long as was asked for where `pread` stopped short: the rest is what was in memory. It opens the file in each call and closes one descriptor | the comparison of the length in `ReadBlockFromFile` | `FileWriter!ShortReadsFail` |
| `file/file_writer.cpp:181` | `flush` says OK and empties the buffer when `::write` came up short | `//assert(ret==pos_);` (`file/file_writer.cpp:179`) | `FileWriter!FlushWrites` |
| `file/file_writer.cpp:52` | `Writer::sync` says OK only if both `fflush` and `fdatasync` failed | the message of line 57 is for an error | not modelled |
| `sstable/block_builder.cpp:118` | `final(std::string&)` leaves the builder open with the old restarts and count | `assert(!finished_);` (`sstable/block_builder.cpp:16`) | `Block!RoundTrip` (`Reuse = TRUE`) |
| `sstable/block_iter.cpp:197` | the only entry of a block, with an empty key and value, is equal to `end()` | `ASSERT_NE(block.end(),it);` (`tests/test_block.cpp:138`) | `Block!RoundTrip` without `Invisible` |
| `sstable/block_iter.cpp:155` | `lower_bound` of a key below the first entry is `end()`, so the search by iterator misses the keys below the first separator | `tests/test_SSTable.cpp:118` uses the result unseen | `SSTable!IterFindsAdded` |
| `sstable/SSTable.cpp:134` | the value of the iterator is logged before it is compared with the end; below the first separator that end has lengths nobody set (`sstable/block_iter.cpp:176`) | `if (index_iter == index_block_->end()) {` (`sstable/SSTable.cpp:136`) is to tell | `SSTable!FindReturns` |
| `sstable/SSTable.cpp:172` | `find(key, res)` looks for an equal separator: it finds the last key of a block at most | `tests/test_table_cache.cpp:42` takes `Get` to find a key that was added | `SSTable!ValueFindsAdded` |
| `sstable/SSTable_builder.cpp:171` | `writeBytesBlock` drops the status of `append` and moves the offset on: `Finish` says OK for a table that cannot be read | the `writeBlock` it replaced returned the status (`sstable/SSTable_builder.cpp:228`) | `SSTable!OkIsReadable` |
| `sstable/SSTable.cpp:318` | a copy of an iterator, as `it++` returns, points into a block the original frees | it is declared a forward iterator (`sstable/SSTable.h:24`) | `TableIterator!OldIsThere` |
| `sstable/SSTable.cpp:289` | assigning an end to an iterator leaves it where it was | the form it replaced swapped (`sstable/SSTable.cpp:283`) | `TableIterator!AssignTakes` |
| `sstable/SSTable.cpp:320` | `increment` calls `begin()` on the null block of a failed read | `if (!block) {` (`sstable/SSTable.cpp:149`) | `TableIterator!NeverCrashes` |

## Not modelled

- `CRC-32`: arithmetic; the log's model takes it as injective.
- `Writer` over stdio: one library call each.
- `tinyio`: its calls are steps of `Wal` and `TableCache`. A `File` that was never
  opened has a descriptor that is not initialised (`file/tinyio.h:35`); no caller
  uses one.
- `filename.*`, `Log`, `Status`, `iterator/`, `uriex/`: formatting, wrappers and
  templates without state of the program.
- `BlockBuilder::finish`, an earlier trailer that only a test calls; blocks and
  footers that no builder wrote (the magic number is never checked, so garbage
  is decoded as it comes); tables and blocks without entries, whose first read
  is outside them.
- `Memtable::Iter` is a stub; the iterators of the memtable are the skip list's.
- A sequence number above 2^56 (`Memtable!SeqMod` has the wrap-around, no run
  reaches it); a cache of capacity 0 (`LruAssumption`).

## Plan

Done: every component above that is not under "Not modelled", the runs, and the
proofs of the table above. What is left is composition: `FileWriter`
under `SSTable` by way of an abstract append-only file; `SkipList` itself under
`MemtableReads`, which is now written over what `SkipListReads` shows of it.
