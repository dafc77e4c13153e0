------------------------------ MODULE Memtable ------------------------------
(***************************************************************************)
(* The memtable of memtable/memtable.cpp over the skip list.  Its keys are *)
(* internal keys (memtable/internalKeys.cpp): a user key and a tag, the    *)
(* sequence number shifted by one byte and the type of the operation.      *)
(*                                                                         *)
(* Module SkipList shows that the list is an atomic set of keys for those  *)
(* who insert, a node being in it once its lowest level is linked.  Find   *)
(* takes no lock: while a node is linked from its top level down, it may   *)
(* stop at the node, which is not in the set yet, or fall off a lower link *)
(* of the node that is null still, and miss a key behind it.               *)
(***************************************************************************)
EXTENDS Integers

CONSTANTS
    Keys,    \* user keys, numbers in the order of the user comparator
    Values,  \* what a Put stores
    SeqMod,  \* 2^56: the sequence numbers a tag has room for
    Nobody   \* the value of a Delete

ASSUME MemtableAssumption == Keys \subseteq Nat /\ SeqMod \in Nat \ {0} /\ Nobody \notin Values

VARIABLES
    table,   \* table_: the value and the writer of each internal key in it
    linking  \* the same of the key whose node is being linked, if there is one

Types == {"delete", "put"}
TypeCode(type) == IF type = "put" THEN 1 ELSE 0

\* packSequenceAndType; the low byte of a tag is the type, two values stand for it
Tag(seq, type) == (seq % SeqMod) * 2 + TypeCode(type)
TagType(tag)   == IF tag % 2 = 1 THEN "put" ELSE "delete"
TagSeq(tag)    == tag \div 2

InternalKey(key, seq, type) == [key |-> key, tag |-> Tag(seq, type)]
InternalKeys == [key : Keys, tag : 0 .. 2 * SeqMod - 1]

\* Variant: newer versions first.
BeforeNewest(a, b) == a.key < b.key \/ (a.key = b.key /\ a.tag > b.tag)

\* InternalKeyComparator::Compare(a, b) < 0
Before(a, b) == a.key < b.key \/ (a.key = b.key /\ a.tag < b.tag)

\* Memtable::Add calls SkipList::Insert, which takes the lock, does not find the key
\* and begins to link a node for it.
AddBegins(seq, type, key, entry) ==
    LET new == InternalKey(key, seq, type) IN
    /\ DOMAIN linking = {} /\ new \notin DOMAIN table
    /\ linking' = [ik \in {new} |-> entry]
    /\ UNCHANGED table

\* Memtable::Add is done: its node is linked on the lowest level, or the list has the
\* key and keeps the entry it has, and Add does not say so.
Add(seq, type, key, entry) ==
    LET new == InternalKey(key, seq, type) IN
    /\ \/ DOMAIN linking = {} /\ new \in DOMAIN table /\ UNCHANGED table
       \/ /\ DOMAIN linking = {new} /\ linking[new] = entry
          /\ table' = [ik \in DOMAIN table \cup {new} |->
                          IF ik = new THEN entry ELSE table[ik]]
    /\ linking' = <<>>

-----------------------------------------------------------------------------
\* The internal key a LookupKey makes: its type is kTypeForSeek.
LookupKey(key, seq) == InternalKey(key, seq, "put")

\* The nodes that can be met, and what they hold
Nodes       == DOMAIN table \cup DOMAIN linking
Content(ik) == IF ik \in DOMAIN table THEN table[ik] ELSE linking[ik]

End == [key |-> 0, tag |-> -1]  \* an iterator that is not valid

\* Where SkipList::Find may end
MayMiss(ik)  == ik \notin DOMAIN table \/ \E new \in DOMAIN linking : Before(new, ik)
FindEnds(ik) == ({ik} \cap Nodes) \cup {end \in {End} : MayMiss(ik)}

\* Memtable::find(LookupKey(key, seq)), what it may do: the skip list finds a key equal
\* to the lookup key or nothing, and then iter.key() aborts.
FindGives(ik) ==
    IF ik = End THEN [result |-> "aborts"]
    ELSE CASE TagType(ik.tag) = "put"    -> [result |-> "found", value |-> Content(ik).value]
           [] TagType(ik.tag) = "delete" -> [result |-> "found"]

Find(key, seq) == {FindGives(ik) : ik \in FindEnds(LookupKey(key, seq))}
=============================================================================
