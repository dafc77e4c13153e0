------------------------------ MODULE SkipList ------------------------------
(***************************************************************************)
(* The skip list of memtable/skiplist.h and memtable/skiplist.cpp.         *)
(*                                                                         *)
(* Insert runs under the unique lock of mutex_; Find takes no lock (its    *)
(* shared_lock is commented out), so a reader walks the list while a       *)
(* writer links a node into it one pointer at a time, from the top level   *)
(* down.  One action is one pointer read or one pointer write of the code. *)
(*                                                                         *)
(* next_ holds std::shared_ptr, which is not atomic; the model takes each  *)
(* read or write of one pointer as a single step.  No node is ever         *)
(* unlinked, so a reader that pairs a new pointer with an old control      *)
(* block still holds a live node: the pointer is all that matters here.    *)
(***************************************************************************)
EXTENDS Integers, FiniteSets

CONSTANTS
    Threads,   \* the threads that call the list
    Keys,      \* the keys they use, ordered by the comparator cmp_
    Node,      \* the nodes From() can allocate: memory, and TLC's bound
    Head, Nil, \* head_ and nullptr
    NoThread,  \* no owner of mutex_
    NoKey,     \* the key of a node that is not allocated
    MaxLevel,  \* kMaxLevelNum
    Ops        \* the calls the threads make

ASSUME KeysAssumption == Keys \subseteq Int /\ NoKey \notin Int
ASSUME LevelAssumption == MaxLevel \in Nat \ {0}
ASSUME NodeAssumption == Head \notin Node /\ Nil \notin Node /\ Head # Nil
ASSUME ThreadAssumption == NoThread \notin Threads
ASSUME OpsAssumption == Ops \subseteq {"insert", "find", "begin", "seek"}

VARIABLES
    key,       \* Node::key_
    height,    \* next_.size() of a node
    next,      \* next_[i] of a node, and of head_
    maxLevel,  \* max_level_
    lock,      \* the owner of mutex_
    pc,        \* where each thread is in the code
    op,        \* the call a thread is in, or the one its iterator comes from
    arg,       \* the key of the call
    cur, lvl,  \* the locals cur and i of the search loops
    prev,      \* the local vector prev of Insert
    new,       \* the local newNode of Insert
    iter       \* node_ of the iterator a thread holds

shared == <<key, height, next, maxLevel, lock>>
locals == <<pc, op, arg, cur, lvl, prev, new, iter>>
vars   == <<key, height, next, maxLevel, lock,
            pc, op, arg, cur, lvl, prev, new, iter>>

Levels    == 0 .. MaxLevel - 1
Place     == Node \cup {Head}      \* where a search may stand
Link      == Node \cup {Nil}       \* what next_[i] may hold
Allocated == {n \in Node : key[n] # NoKey}
NoLinks   == [i \in Levels |-> Nil]

\* head_ comes before every key; its own key is never compared.
Before(p, k) == p = Head \/ (p \in Node /\ key[p] < k)

TypeOK ==
    /\ key \in [Node -> Keys \cup {NoKey}]
    /\ height \in [Node -> 0 .. MaxLevel]
    /\ next \in [Place -> [Levels -> Link]]
    /\ maxLevel \in 1 .. MaxLevel
    /\ lock \in Threads \cup {NoThread}
    /\ pc \in [Threads -> {"idle", "lock", "search", "contains", "height",
                           "linkNew", "linkPrev", "find", "iter", "abort"}]
    /\ op \in [Threads -> {"none", "insert", "find", "begin", "seek"}]
    /\ arg \in [Threads -> Keys \cup {NoKey}]
    /\ cur \in [Threads -> Place]
    /\ lvl \in [Threads -> Levels]
    /\ prev \in [Threads -> [Levels -> Place \cup {Nil}]]
    /\ new \in [Threads -> Link]
    /\ iter \in [Threads -> Link]

Init ==
    /\ key = [n \in Node |-> NoKey]
    /\ height = [n \in Node |-> 0]
    /\ next = [p \in Place |-> NoLinks]
    /\ maxLevel = 1
    /\ lock = NoThread
    /\ pc = [t \in Threads |-> "idle"]
    /\ op = [t \in Threads |-> "none"]
    /\ arg = [t \in Threads |-> NoKey]
    /\ cur = [t \in Threads |-> Head]
    /\ lvl = [t \in Threads |-> 0]
    /\ prev = [t \in Threads |-> NoLinks]
    /\ new = [t \in Threads |-> Nil]
    /\ iter = [t \in Threads |-> Nil]

-----------------------------------------------------------------------------
(* The walk shared by Insert, Find and Contains: from head_ on the top     *)
(* level, forward while the next key is smaller, then one level down.      *)

\* cur->next_[i]
Ahead(t) == next[cur[t]][lvl[t]]

AheadIsSmaller(t) == Ahead(t) # Nil /\ key[Ahead(t)] < arg[t]
AheadIsEqual(t)   == Ahead(t) # Nil /\ key[Ahead(t)] = arg[t]

StartWalk(t) ==
    /\ cur' = [cur EXCEPT ![t] = Head]
    /\ lvl' = [lvl EXCEPT ![t] = maxLevel - 1]

MoveForward(t) ==
    /\ AheadIsSmaller(t)
    /\ cur' = [cur EXCEPT ![t] = Ahead(t)]
    /\ UNCHANGED <<shared, pc, op, arg, lvl, prev, new, iter>>

MoveDown(t) ==
    /\ lvl[t] > 0
    /\ lvl' = [lvl EXCEPT ![t] = @ - 1]

\* The call returns an iterator on n; the locals of its frame are gone.
ReturnIter(t, n) ==
    /\ pc' = [pc EXCEPT ![t] = "iter"]
    /\ iter' = [iter EXCEPT ![t] = n]
    /\ cur' = [cur EXCEPT ![t] = Head]
    /\ lvl' = [lvl EXCEPT ![t] = 0]
    /\ prev' = [prev EXCEPT ![t] = NoLinks]
    /\ new' = [new EXCEPT ![t] = Nil]

-----------------------------------------------------------------------------
(* Insert                                                                  *)

InsertCall(t, k) ==
    /\ "insert" \in Ops
    /\ pc[t] = "idle"
    /\ pc' = [pc EXCEPT ![t] = "lock"]
    /\ op' = [op EXCEPT ![t] = "insert"]
    /\ arg' = [arg EXCEPT ![t] = k]
    /\ UNCHANGED <<shared, cur, lvl, prev, new, iter>>

\* Variant: the lock of Insert is commented out as the one of Find is.
InsertLockNone(t) ==
    /\ pc[t] = "lock"
    /\ lock' = t
    /\ pc' = [pc EXCEPT ![t] = "search"]
    /\ StartWalk(t)
    /\ UNCHANGED <<key, height, next, maxLevel, op, arg, prev, new, iter>>

InsertLock(t) ==
    /\ pc[t] = "lock"
    /\ lock = NoThread
    /\ lock' = t
    /\ pc' = [pc EXCEPT ![t] = "search"]
    /\ StartWalk(t)
    /\ UNCHANGED <<key, height, next, maxLevel, op, arg, prev, new, iter>>

InsertForward(t) == pc[t] = "search" /\ MoveForward(t)

\* Variant: the upper levels are linked from head_.
InsertDownHead(t) ==
    /\ pc[t] = "search"
    /\ ~AheadIsSmaller(t)
    /\ prev' = [prev EXCEPT ![t][lvl[t]] = Head]
    /\ MoveDown(t)
    /\ UNCHANGED <<shared, pc, op, arg, cur, new, iter>>

InsertDown(t) ==
    /\ pc[t] = "search"
    /\ ~AheadIsSmaller(t)
    /\ prev' = [prev EXCEPT ![t][lvl[t]] = cur[t]]
    /\ MoveDown(t)
    /\ UNCHANGED <<shared, pc, op, arg, cur, new, iter>>

\* Variant: any successor counts as the key.
InsertFoundAny(t) ==
    /\ pc[t] = "search"
    /\ lvl[t] = 0
    /\ Ahead(t) # Nil /\ ~AheadIsSmaller(t)
    /\ lock' = NoThread
    /\ ReturnIter(t, Ahead(t))
    /\ UNCHANGED <<key, height, next, maxLevel, op, arg>>

\* Variant: the early return leaves the mutex locked.
InsertFoundKeepsLock(t) ==
    /\ pc[t] = "search"
    /\ lvl[t] = 0
    /\ AheadIsEqual(t)
    /\ ReturnIter(t, Ahead(t))
    /\ UNCHANGED <<shared, op, arg>>

\* The key is there already: its node is returned and nothing is linked.
InsertFound(t) ==
    /\ pc[t] = "search"
    /\ lvl[t] = 0
    /\ AheadIsEqual(t)
    /\ lock' = NoThread
    /\ ReturnIter(t, Ahead(t))
    /\ UNCHANGED <<key, height, next, maxLevel, op, arg>>

\* The key is not there: assert(!Contains(key)) walks the list again.
InsertAbsent(t) ==
    /\ pc[t] = "search"
    /\ lvl[t] = 0
    /\ ~AheadIsSmaller(t)
    /\ ~AheadIsEqual(t)
    /\ prev' = [prev EXCEPT ![t][0] = cur[t]]
    /\ pc' = [pc EXCEPT ![t] = "contains"]
    /\ StartWalk(t)
    /\ UNCHANGED <<shared, op, arg, new, iter>>

ContainsForward(t) == pc[t] = "contains" /\ MoveForward(t)

ContainsDown(t) ==
    /\ pc[t] = "contains"
    /\ ~AheadIsSmaller(t)
    /\ ~AheadIsEqual(t)
    /\ MoveDown(t)
    /\ UNCHANGED <<shared, pc, op, arg, cur, prev, new, iter>>

\* The assertion holds, or the process aborts.
ContainsEnd(t) ==
    /\ pc[t] = "contains"
    /\ AheadIsEqual(t) \/ (lvl[t] = 0 /\ ~AheadIsSmaller(t))
    /\ pc' = [pc EXCEPT ![t] = IF AheadIsEqual(t) THEN "abort" ELSE "height"]
    /\ UNCHANGED <<shared, op, arg, cur, lvl, prev, new, iter>>

\* Variant: prev is not filled in for the levels the list did not have yet.
InsertNodeNoPrev(t, n, h) ==
    /\ pc[t] = "height"
    /\ key[n] = NoKey
    /\ key' = [key EXCEPT ![n] = arg[t]]
    /\ height' = [height EXCEPT ![n] = h]
    /\ maxLevel' = IF h > maxLevel THEN h ELSE maxLevel
    /\ new' = [new EXCEPT ![t] = n]
    /\ lvl' = [lvl EXCEPT ![t] = h - 1]
    /\ pc' = [pc EXCEPT ![t] = "linkNew"]
    /\ UNCHANGED <<next, lock, op, arg, cur, prev, iter>>

\* getRandomLevel() gives any height.  max_level_ is raised before the node is
\* linked, and the new levels hang from head_.
InsertNode(t, n, h) ==
    /\ pc[t] = "height"
    /\ key[n] = NoKey
    /\ key' = [key EXCEPT ![n] = arg[t]]
    /\ height' = [height EXCEPT ![n] = h]
    /\ maxLevel' = IF h > maxLevel THEN h ELSE maxLevel
    /\ prev' = [prev EXCEPT ![t] =
                  [i \in Levels |-> IF maxLevel <= i /\ i < h THEN Head ELSE @[i]]]
    /\ new' = [new EXCEPT ![t] = n]
    /\ lvl' = [lvl EXCEPT ![t] = h - 1]
    /\ pc' = [pc EXCEPT ![t] = "linkNew"]
    /\ UNCHANGED <<next, lock, op, arg, cur, iter>>

\* Variant: the link of the new node is left null.
LinkNewNull(t) ==
    /\ pc[t] = "linkNew"
    /\ pc' = [pc EXCEPT ![t] = "linkPrev"]
    /\ UNCHANGED <<key, height, next, maxLevel, lock, op, arg, cur, lvl, prev, new, iter>>

\* newNode->next_[i] = prev[i]->next_[i]
LinkNew(t) ==
    /\ pc[t] = "linkNew"
    /\ next' = [next EXCEPT ![new[t]][lvl[t]] = next[prev[t][lvl[t]]][lvl[t]]]
    /\ pc' = [pc EXCEPT ![t] = "linkPrev"]
    /\ UNCHANGED <<key, height, maxLevel, lock, op, arg, cur, lvl, prev, new, iter>>

\* prev[i]->next_[i] = newNode, on a level above the lowest
LinkPrev(t) ==
    /\ pc[t] = "linkPrev"
    /\ next' = [next EXCEPT ![prev[t][lvl[t]]][lvl[t]] = new[t]]
    /\ MoveDown(t)
    /\ pc' = [pc EXCEPT ![t] = "linkNew"]
    /\ UNCHANGED <<key, height, maxLevel, lock, op, arg, cur, prev, new, iter>>

\* ... and on the lowest level, after which Insert returns
LinkLast(t) ==
    /\ pc[t] = "linkPrev"
    /\ lvl[t] = 0
    /\ next' = [next EXCEPT ![prev[t][0]][0] = new[t]]
    /\ lock' = NoThread
    /\ ReturnIter(t, new[t])
    /\ UNCHANGED <<key, height, maxLevel, op, arg>>

-----------------------------------------------------------------------------
(* Find, without the lock                                                  *)

FindCall(t, k) ==
    /\ "find" \in Ops
    /\ pc[t] = "idle"
    /\ pc' = [pc EXCEPT ![t] = "find"]
    /\ op' = [op EXCEPT ![t] = "find"]
    /\ arg' = [arg EXCEPT ![t] = k]
    /\ StartWalk(t)
    /\ UNCHANGED <<shared, prev, new, iter>>

FindForward(t) == pc[t] = "find" /\ MoveForward(t)

\* Variant: the level is not lowered.
FindDownStays(t) ==
    /\ pc[t] = "find"
    /\ ~AheadIsSmaller(t)
    /\ ~AheadIsEqual(t)
    /\ lvl[t] > 0
    /\ UNCHANGED vars

FindDown(t) ==
    /\ pc[t] = "find"
    /\ ~AheadIsSmaller(t)
    /\ ~AheadIsEqual(t)
    /\ MoveDown(t)
    /\ UNCHANGED <<shared, pc, op, arg, cur, prev, new, iter>>

\* Variant: Find gives up on the first level where the next key is larger.
FindEndsEarly(t) == pc[t] = "find" /\ ~AheadIsSmaller(t)

\* Find is over: at the node with the key, or on level 0 without it.
FindEnds(t) ==
    /\ pc[t] = "find"
    /\ AheadIsEqual(t) \/ (lvl[t] = 0 /\ ~AheadIsSmaller(t))

Found(t) == IF AheadIsEqual(t) THEN Ahead(t) ELSE Nil

FindReturn(t) ==
    /\ op[t] = "find"
    /\ FindEnds(t)
    /\ ReturnIter(t, Found(t))
    /\ UNCHANGED <<shared, op, arg>>

-----------------------------------------------------------------------------
(* Iterators                                                               *)

\* Begin and SeekToFirst
Begin(t) ==
    /\ "begin" \in Ops
    /\ pc[t] = "idle"
    /\ op' = [op EXCEPT ![t] = "begin"]
    /\ ReturnIter(t, next[Head][0])
    /\ UNCHANGED <<shared, arg>>

\* Variant: Next follows the highest link of the node.
IterNextOnTop(t) ==
    /\ pc[t] = "iter"
    /\ iter[t] # Nil
    /\ iter' = [iter EXCEPT ![t] = next[iter[t]][height[iter[t]] - 1]]
    /\ UNCHANGED <<shared, pc, op, arg, cur, lvl, prev, new>>

\* Next and increment; assert(Valid()) is the caller's to keep.
IterNext(t) ==
    /\ pc[t] = "iter"
    /\ iter[t] # Nil
    /\ iter' = [iter EXCEPT ![t] = next[iter[t]][0]]
    /\ UNCHANGED <<shared, pc, op, arg, cur, lvl, prev, new>>

\* Seek: Find first ...
SeekCall(t, k) ==
    /\ "seek" \in Ops
    /\ pc[t] = "iter"
    /\ pc' = [pc EXCEPT ![t] = "find"]
    /\ op' = [op EXCEPT ![t] = "seek"]
    /\ arg' = [arg EXCEPT ![t] = k]
    /\ StartWalk(t)
    /\ UNCHANGED <<shared, prev, new, iter>>

\* ... then assert(Valid()), which looks at the position the iterator is about
\* to leave, then the new position.
SeekReturn(t) ==
    /\ op[t] = "seek"
    /\ FindEnds(t)
    /\ iter[t] # Nil
    /\ ReturnIter(t, Found(t))
    /\ UNCHANGED <<shared, op, arg>>

SeekAbort(t) ==
    /\ op[t] = "seek"
    /\ FindEnds(t)
    /\ iter[t] = Nil
    /\ pc' = [pc EXCEPT ![t] = "abort"]
    /\ UNCHANGED <<shared, op, arg, cur, lvl, prev, new, iter>>

\* The iterator goes out of scope.
DropIter(t) ==
    /\ pc[t] = "iter"
    /\ pc' = [pc EXCEPT ![t] = "idle"]
    /\ op' = [op EXCEPT ![t] = "none"]
    /\ arg' = [arg EXCEPT ![t] = NoKey]
    /\ iter' = [iter EXCEPT ![t] = Nil]
    /\ UNCHANGED <<shared, cur, lvl, prev, new>>

-----------------------------------------------------------------------------
\* What the owner of the lock does until it releases it.
InsertStep(t) ==
    \/ InsertForward(t) \/ InsertDown(t) \/ InsertFound(t) \/ InsertAbsent(t)
    \/ ContainsForward(t) \/ ContainsDown(t) \/ ContainsEnd(t)
    \/ \E n \in Node, h \in 1 .. MaxLevel : InsertNode(t, n, h)
    \/ LinkNew(t) \/ LinkPrev(t) \/ LinkLast(t)

FindStep(t) ==
    \/ FindForward(t) \/ FindDown(t) \/ FindReturn(t)
    \/ SeekReturn(t) \/ SeekAbort(t)

Call(t) ==
    \/ \E k \in Keys : InsertCall(t, k) \/ FindCall(t, k) \/ SeekCall(t, k)
    \/ Begin(t)

\* An aborted process takes no further step.
Running == \A t \in Threads : pc[t] # "abort"

Step(t) ==
    \/ Call(t) \/ InsertLock(t) \/ InsertStep(t) \/ FindStep(t)
    \/ IterNext(t) \/ DropIter(t)

Next == Running /\ \E t \in Threads : Step(t)

Spec == Init /\ [][Next]_vars

\* A thread inside a call keeps running; calling again, and winning the lock
\* against other writers, is nobody's promise.
Fairness == \A t \in Threads :
    WF_vars(Running /\ InsertStep(t)) /\ WF_vars(Running /\ FindStep(t))

FairSpec == Spec /\ Fairness

-----------------------------------------------------------------------------
(* Properties                                                              *)

\* Where a writer owns the lock, and where it sets links.
Linking == {"linkNew", "linkPrev"}
Inside  == {"search", "contains", "height"} \cup Linking

\* The nodes that hang on level i: all that are high enough, without the one
\* whose links Insert has not set there yet.
Linked(i) ==
    {n \in Allocated : /\ i < height[n]
                       /\ \A t \in Threads :
                            pc[t] \in Linking /\ new[t] = n => lvl[t] < i}

\* Every level is sorted and leads from linked nodes to linked nodes only, at
\* every point between two pointer writes of Insert (skiplist.cpp:115-124).
LevelsSorted ==
    \A i \in Levels : \A p \in Linked(i) \cup {Head} :
        next[p][i] # Nil => /\ next[p][i] \in Linked(i)
                            /\ Before(p, key[next[p][i]])

\* No node is lost on any level: from every linked node that comes before
\* node m the level goes on, and does not jump over m.  Two writers that
\* searched the same gap at once would break it.
LevelsComplete ==
    \A i \in Levels : \A p \in Linked(i) \cup {Head}, m \in Linked(i) :
        Before(p, key[m]) => /\ next[p][i] # Nil
                             /\ key[next[p][i]] <= key[m]

\* Insert never makes a second node for a key, whatever other writers do
\* between its call and its return (skiplist.cpp:94-97).
KeysUnique == \A m, n \in Allocated : key[m] = key[n] => m = n

\* A search never reads next_[i] of a node lower than i + 1, although readers
\* meet nodes and levels that are being added under them: next_ is a vector
\* that operator[] does not check.
ReadsInBounds ==
    \A t \in Threads :
        /\ pc[t] \in {"search", "contains", "find"} /\ cur[t] # Head =>
             cur[t] \in Allocated /\ lvl[t] < height[cur[t]]
        /\ pc[t] \in Linking =>
             \A i \in 0 .. lvl[t] : /\ prev[t][i] # Nil
                                    /\ prev[t][i] # Head => i < height[prev[t][i]]

\* assert(!Contains(key)) in Insert (skiplist.cpp:99) never fails.
InsertAssertHolds == \A t \in Threads : op[t] = "insert" => pc[t] # "abort"

\* assert(Valid()) in Seek (skiplist.h:111) never fails.  It does: no configuration
\* checks this, README.md says how it fails.
SeekAssertHolds == \A t \in Threads : op[t] = "seek" => pc[t] # "abort"

\* Links only tighten: what readers rely on to finish and to miss nothing they
\* have passed is that a link of a linked node, once set, is never cleared and
\* is only ever moved to a smaller key (skiplist.cpp:122-123).
LinksTighten ==
    [][\A i \in Levels : \A p \in Linked(i) \cup {Head} :
          next[p][i] # Nil => /\ next'[p][i] # Nil
                              /\ key'[next'[p][i]] <= key[next[p][i]]]_vars

\* A lock-free Find ends, however many nodes writers link in front of it, unless
\* an assertion ends the process first.
FindEndsAlways ==
    \A t \in Threads : pc[t] = "find" ~> (pc[t] # "find" \/ ~Running)

\* An Insert that got the lock gives it back.
LockReleased == \A t \in Threads : lock = t ~> (lock # t \/ ~Running)

\* Insert implements KeySet: its one effect that other inserts and scans of
\* level 0 can see is the last pointer write.
Inserting(t) == pc[t] \in Inside \cup {"lock"}

Abstract == INSTANCE KeySet WITH
    set <- {key[n] : n \in Linked(0)},
    req <- [t \in Threads |-> IF Inserting(t) THEN arg[t] ELSE NoKey]

InsertIsAtomic == Abstract!SetSpec

-----------------------------------------------------------------------------
(* The inductive invariant behind LevelsSorted, LevelsComplete, KeysUnique *)
(* ReadsInBounds and InsertAssertHolds (SkipListProofs).                   *)

\* Only the owner of the lock is between the lock and the return of Insert.
LockInv(t) ==
    /\ pc[t] \in Inside => lock = t
    /\ pc[t] \in Inside \cup {"lock"} => op[t] = "insert" /\ arg[t] \in Keys

\* max_level_ bounds the heights, and links lead to nodes that are high enough.
ShapeInv ==
    /\ \A n \in Allocated : height[n] \in 1 .. maxLevel
    /\ \A p \in Place, i \in Levels :
          next[p][i] # Nil => next[p][i] \in Allocated /\ i < height[next[p][i]]

\* prev[i] is where the key of the call belongs on level i.
GoodPrev(t, i) ==
    /\ prev[t][i] \in Linked(i) \cup {Head}
    /\ Before(prev[t][i], arg[t])
    /\ next[prev[t][i]][i] # Nil => arg[t] <= key[next[prev[t][i]][i]]

\* The walk of a writer stands on the level, before its key.
WalkInv(t) ==
    /\ cur[t] \in Linked(lvl[t]) \cup {Head}
    /\ Before(cur[t], arg[t])
    /\ lvl[t] < maxLevel

SearchInv(t) ==
    pc[t] = "search" =>
        WalkInv(t) /\ \A i \in lvl[t] + 1 .. maxLevel - 1 : GoodPrev(t, i)

AbsentInv(t) ==
    pc[t] \in {"contains", "height"} =>
        /\ \A n \in Allocated : key[n] # arg[t]
        /\ \A i \in 0 .. maxLevel - 1 : GoodPrev(t, i)
        /\ pc[t] = "contains" => WalkInv(t)

LinkInv(t) ==
    pc[t] \in Linking =>
        /\ new[t] \in Allocated
        /\ key[new[t]] = arg[t]
        /\ lvl[t] < height[new[t]]
        /\ \A i \in 0 .. lvl[t] : GoodPrev(t, i)
        /\ pc[t] = "linkPrev" =>
             next[new[t]][lvl[t]] = next[prev[t][lvl[t]]][lvl[t]]

FindInv(t) ==
    pc[t] = "find" =>
        /\ op[t] \in {"find", "seek"} /\ arg[t] \in Keys
        /\ cur[t] # Head => cur[t] \in Allocated /\ lvl[t] < height[cur[t]]

ThreadInv(t) ==
    LockInv(t) /\ SearchInv(t) /\ AbsentInv(t) /\ LinkInv(t) /\ FindInv(t)

SkipListInv ==
    /\ TypeOK
    /\ ShapeInv /\ LevelsSorted /\ LevelsComplete /\ KeysUnique
    /\ \A t \in Threads : ThreadInv(t)
    /\ InsertAssertHolds
=============================================================================
