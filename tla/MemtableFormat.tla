--------------------------- MODULE MemtableFormat ---------------------------
(***************************************************************************)
(* The bytes of a memtable entry (memtable/memtable.cpp, internalKeys.cpp): *)
(* strings that a reader of a batch got are made into entries, which the    *)
(* skip list compares, finds and gives back as bytes only.  Module Memtable *)
(* is written over what they mean.                                          *)
(***************************************************************************)
EXTENDS Coding, FiniteSets

CONSTANTS Seqs,         \* sequence numbers of records
          MaxEntries    \* bound: entries in the memtable

\* The values of a byte
ByteBase == 2 * Radix

ASSUME FormatAssumption ==
    /\ Seqs \subseteq 0 .. ByteBase * ByteBase * ByteBase * ByteBase
                           * ByteBase * ByteBase * ByteBase - 1
    /\ MaxEntries \in Nat

VARIABLES
    arena,      \* the entries the skip list holds, each a buffer of bytes
    contents,   \* ghost: what they were made of
    aborted     \* an assert failed

formatVars == <<arena, contents, aborted>>

TypeDelete == 0
TypePut    == 1

-----------------------------------------------------------------------------
EncodeFixed64(v) == [i \in 1 .. 8 |-> Shifts(v, ByteBase, 8)[i] % ByteBase]
DecodeFixed64(b) == Joined(b, ByteBase, 8)

Tag(seq, type) == seq * ByteBase + type

InternalKey(key, seq, type) == key \o EncodeFixed64(Tag(seq, type))

\* What Add allocates for an entry, and what it writes there
EncodedLen(key, value) ==
    VarintLength(Len(key) + 8) + Len(key) + 8 + VarintLength(Len(value)) + Len(value)

EntryBytes(seq, type, key, value) ==
    AppendVarString(AppendVarString(<<>>, InternalKey(key, seq, type)), value)

\* The buffer of a LookupKey; it is given thirteen bytes more than its key has.
LookupKey(key, seq) == AppendVarString(<<>>, InternalKey(key, seq, TypePut))
LookupSpace(key)    == Len(key) + 13

-----------------------------------------------------------------------------
\* GetVarString takes the length as it is, and so does the value behind a key.
GetVarString(b) == LET v == GetVarint32(b) IN SubSeq(v.rest, 1, v.value)

UserKey(ik)  == SubSeq(ik, 1, Len(ik) - 8)
TagOf(ik)    == DecodeFixed64(SubSeq(ik, Len(ik) - 7, Len(ik)))
ValueOf(e)   == LET v == GetVarint32(e)
                IN  GetVarString(SubSeq(v.rest, v.value + 1, Len(v.rest)))

\* key(), value() and Parsed
Read(e) ==
    LET ik == GetVarString(e)
    IN  [key |-> UserKey(ik), seq |-> TagOf(ik) \div ByteBase,
         type |-> TagOf(ik) % ByteBase, value |-> ValueOf(e)]

\* std::string::compare is below zero.
StringLess(a, b) ==
    \/ Len(a) < Len(b) /\ SubSeq(b, 1, Len(a)) = a
    \/ \E i \in 1 .. Len(a) : /\ i <= Len(b) /\ a[i] < b[i]
                              /\ SubSeq(a, 1, i - 1) = SubSeq(b, 1, i - 1)

\* Variant: the tag is compared as bytes behind the key.
KeyLessAsBytes(a, b) == StringLess(a, b)

\* InternalKeyComparator::Compare is below zero.
KeyLess(a, b) ==
    \/ StringLess(UserKey(a), UserKey(b))
    \/ UserKey(a) = UserKey(b) /\ TagOf(a) < TagOf(b)

\* The comparison the memtable gives the skip list
EntryLess(e, f) == KeyLess(GetVarString(e), GetVarString(f))
Same(e, f) == ~EntryLess(e, f) /\ ~EntryLess(f, e)

\* find: the entries that are the same to the skip list, whose value is given out
\* if the user key is the one that was looked up and the tag is that of a Put.
FindEntries(key, seq) ==
    {Read(e) : e \in {e \in arena : Same(e, LookupKey(key, seq))}}

-----------------------------------------------------------------------------
FormatInit == CodingInit /\ arena = {} /\ contents = {} /\ aborted = FALSE

GotStrings == {got[i] : i \in 1 .. Len(got)}

\* ExtractUserKey asserts that there is a user key.  Insert compares with some entry,
\* if there is one, but need not come to the one whose key is empty.
MustAbort(key) == arena # {} /\ key = <<>>
MayAbort(key)  == MustAbort(key) \/ \E e \in arena : UserKey(GetVarString(e)) = <<>>

\* Memtable::Add; the length of an internal key is an uint32_t.
AddEntry(seq, type, key, value) ==
    /\ ~aborted /\ Cardinality(arena) < MaxEntries
    /\ Len(key) + 8 < Limit
    /\ LET e == EntryBytes(seq, type, key, value) IN
       \/ /\ MayAbort(key)
          /\ aborted' = TRUE
          /\ UNCHANGED <<arena, contents>>
       \/ /\ ~MustAbort(key)
          /\ IF \E f \in arena : Same(e, f)
             THEN UNCHANGED <<arena, contents>>
             ELSE /\ arena' = arena \cup {e}
                  /\ contents' = contents \cup
                        {[key |-> key, seq |-> seq, type |-> type, value |-> value]}
          /\ UNCHANGED aborted
    /\ UNCHANGED codingVars

FormatNext ==
    \/ ~aborted /\ CodingNext /\ UNCHANGED formatVars
    \/ \E seq \in Seqs, key \in GotStrings :
        \/ \E value \in GotStrings : AddEntry(seq, TypePut, key, value)
        \/ AddEntry(seq, TypeDelete, key, <<>>)

FormatSpec == FormatInit /\ [][FormatNext]_<<codingVars, formatVars>>

-----------------------------------------------------------------------------
\* The order the memtable is to have: by user key, then by sequence number, a
\* deletion before the Put of the same number.
Before(r, s) ==
    \/ StringLess(r.key, s.key)
    \/ r.key = s.key /\ (r.seq < s.seq \/ (r.seq = s.seq /\ r.type < s.type))

\* Whatever the lengths of key and value, an entry fills the buffer that was
\* allocated for it (the assert of memtable.cpp:77) and a LookupKey has room in its
\* own; the bytes read back as what was added; the order of the bytes, a key that is
\* the front of another included, is the order of what they mean; and a LookupKey
\* meets the Put of its number and no other entry.
EntriesReadBack ==
    /\ CodingTypeOK
    /\ {Read(e) : e \in arena} = contents
    /\ \A r \in contents :
        /\ EncodedLen(r.key, r.value) = Len(EntryBytes(r.seq, r.type, r.key, r.value))
        /\ Len(LookupKey(r.key, r.seq)) <= LookupSpace(r.key)
        /\ r.key # <<>> =>
            FindEntries(r.key, r.seq) =
                {s \in contents : s.key = r.key /\ s.seq = r.seq /\ s.type = TypePut}
    /\ \A e, f \in arena : EntryLess(e, f) <=> Before(Read(e), Read(f))
=============================================================================
