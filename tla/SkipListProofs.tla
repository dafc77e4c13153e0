--------------------------- MODULE SkipListProofs ---------------------------
(***************************************************************************)
(* Proofs about SkipList, for every set of threads, keys and nodes and     *)
(* every number of levels.                                                 *)
(***************************************************************************)
EXTENDS SkipListReads, TLAPS

\* Reading a link of the list gives a node or null.
LEMMA LinkTypes ==
    ASSUME TypeOK, NEW t \in Threads
    PROVE  /\ cur[t] \in Place /\ lvl[t] \in Levels /\ Ahead(t) \in Link
           /\ Found(t) \in Link
           /\ 0 \in Levels /\ next[Head][0] \in Link
           /\ iter[t] # Nil => next[iter[t]][0] \in Link
<1> USE LevelAssumption, NodeAssumption DEF TypeOK, Levels, Place, Link
<1>1. cur[t] \in Place /\ lvl[t] \in Levels /\ 0 \in Levels /\ Head \in Place
  OBVIOUS
<1>2. Ahead(t) \in Link
  <2>1. next[cur[t]] \in [Levels -> Link]
    BY <1>1
  <2>2. QED
    BY <1>1, <2>1 DEF Ahead
<1>3. Found(t) \in Link
  BY <1>2 DEF Found
<1>4. next[Head][0] \in Link
  BY <1>1
<1>5. iter[t] # Nil => next[iter[t]][0] \in Link
  <2>1. iter[t] # Nil => iter[t] \in Place
    OBVIOUS
  <2>2. QED
    BY <2>1, <1>1
<1>6. QED
  BY <1>1, <1>2, <1>3, <1>4, <1>5

\* Every step keeps the types, given that Insert has a node and a predecessor
\* when it links (LinkInv).
LEMMA TypeStep ==
    ASSUME TypeOK, NEW t \in Threads, Step(t),
           pc[t] = "linkNew" => new[t] \in Node /\ prev[t][lvl[t]] \in Place
    PROVE  TypeOK'
<1> USE KeysAssumption, LevelAssumption, NodeAssumption, ThreadAssumption DEF TypeOK
<1>0. /\ cur[t] \in Place /\ lvl[t] \in Levels /\ Ahead(t) \in Link
      /\ Found(t) \in Link
      /\ 0 \in Levels /\ next[Head][0] \in Link
      /\ iter[t] # Nil => next[iter[t]][0] \in Link
      /\ maxLevel - 1 \in Levels
      /\ Head \in Place /\ Nil \in Link
      /\ NoLinks \in [Levels -> Link] /\ NoLinks \in [Levels -> Place \cup {Nil}]
  BY LinkTypes DEF Levels, Link, Place, NoLinks
<1>1. ASSUME NEW k \in Keys, InsertCall(t, k) PROVE TypeOK'
  BY <1>1 DEF InsertCall, shared
<1>2. ASSUME NEW k \in Keys, FindCall(t, k) PROVE TypeOK'
  BY <1>0, <1>2 DEF FindCall, StartWalk, shared
<1>3. ASSUME NEW k \in Keys, SeekCall(t, k) PROVE TypeOK'
  BY <1>0, <1>3 DEF SeekCall, StartWalk, shared
<1>4. CASE Begin(t)
  BY <1>0, <1>4 DEF Begin, ReturnIter, shared
<1>5. CASE InsertLock(t)
  BY <1>0, <1>5 DEF InsertLock, StartWalk
<1>6. CASE InsertForward(t) \/ ContainsForward(t) \/ FindForward(t)
  <2>1. Ahead(t) \in Place
    BY <1>0, <1>6 DEF InsertForward, ContainsForward, FindForward, MoveForward,
                      AheadIsSmaller, Link, Place
  <2>2. cur' = [cur EXCEPT ![t] = Ahead(t)] /\ UNCHANGED <<shared, pc, op, arg, lvl, prev, new, iter>>
    BY <1>6 DEF InsertForward, ContainsForward, FindForward, MoveForward
  <2>3. QED
    BY <2>1, <2>2 DEF shared
<1>7. CASE InsertDown(t)
  <2>1. lvl' \in [Threads -> Levels]
    BY <1>0, <1>7 DEF InsertDown, MoveDown, Levels
  <2>2. prev' \in [Threads -> [Levels -> Place \cup {Nil}]]
    BY <1>0, <1>7 DEF InsertDown
  <2>3. QED
    BY <1>7, <2>1, <2>2 DEF InsertDown, shared
<1>8. CASE ContainsDown(t) \/ FindDown(t)
  <2>1. lvl' \in [Threads -> Levels]
    <3>1. lvl[t] - 1 \in Levels
      BY <1>0, <1>8 DEF ContainsDown, FindDown, MoveDown, Levels
    <3>2. QED
      BY <1>8, <3>1 DEF ContainsDown, FindDown, MoveDown
  <2>2. QED
    BY <1>8, <2>1 DEF ContainsDown, FindDown, shared
<1>9. CASE InsertFound(t)
  BY <1>0, <1>9 DEF InsertFound, ReturnIter
<1>10. CASE InsertAbsent(t)
  <2>1. prev' \in [Threads -> [Levels -> Place \cup {Nil}]]
    BY <1>0, <1>10 DEF InsertAbsent
  <2>2. QED
    BY <1>0, <1>10, <2>1 DEF InsertAbsent, StartWalk, shared
<1>11. CASE ContainsEnd(t)
  BY <1>11 DEF ContainsEnd, shared
<1>12. ASSUME NEW n \in Node, NEW h \in 1 .. MaxLevel, InsertNode(t, n, h)
       PROVE TypeOK'
  <2>1. prev' \in [Threads -> [Levels -> Place \cup {Nil}]]
    BY <1>0, <1>12 DEF InsertNode
  <2>2. h - 1 \in Levels /\ h \in 0 .. MaxLevel
    BY DEF Levels
  <2>3. QED
    BY <1>0, <1>12, <2>1, <2>2 DEF InsertNode, Link
<1>13. CASE LinkNew(t)
  <2>1. next[prev[t][lvl[t]]][lvl[t]] \in Link
    BY <1>0, <1>13 DEF LinkNew
  <2>2. next' \in [Place -> [Levels -> Link]]
    BY <1>0, <1>13, <2>1 DEF LinkNew
  <2>3. QED
    BY <1>13, <2>2 DEF LinkNew
<1>14. CASE LinkPrev(t)
  <2>1. next' \in [Place -> [Levels -> Link]]
    BY <1>0, <1>14 DEF LinkPrev
  <2>2. lvl' \in [Threads -> Levels]
    BY <1>0, <1>14 DEF LinkPrev, MoveDown, Levels
  <2>3. QED
    BY <1>14, <2>1, <2>2 DEF LinkPrev
<1>15. CASE LinkLast(t)
  <2>1. next' \in [Place -> [Levels -> Link]]
    BY <1>0, <1>15 DEF LinkLast
  <2>2. QED
    BY <1>0, <1>15, <2>1 DEF LinkLast, ReturnIter
<1>16. CASE FindReturn(t) \/ SeekReturn(t)
  <2>1. CASE FindReturn(t)
    BY <1>0, <2>1 DEF FindReturn, ReturnIter, shared
  <2>2. CASE SeekReturn(t)
    BY <1>0, <2>2 DEF SeekReturn, ReturnIter, shared
  <2>3. QED
    BY <1>16, <2>1, <2>2
<1>17. CASE SeekAbort(t)
  BY <1>17 DEF SeekAbort, shared
<1>18. CASE IterNext(t)
  BY <1>0, <1>18 DEF IterNext, shared
<1>19. CASE DropIter(t)
  BY <1>19 DEF DropIter, shared, Link
<1>20. QED
  BY <1>1, <1>2, <1>3, <1>4, <1>5, <1>6, <1>7, <1>8, <1>9, <1>10, <1>11,
     <1>12, <1>13, <1>14, <1>15, <1>16, <1>17, <1>18, <1>19
     DEF Step, Call, InsertStep, FindStep

-----------------------------------------------------------------------------
(* The steps that set no link and make no node.                            *)

Quiet(t) ==
    \/ Call(t) \/ InsertLock(t)
    \/ InsertForward(t) \/ InsertDown(t) \/ InsertFound(t) \/ InsertAbsent(t)
    \/ ContainsForward(t) \/ ContainsDown(t) \/ ContainsEnd(t)
    \/ FindStep(t) \/ IterNext(t) \/ DropIter(t)

\* A step of a thread leaves the locals of the others alone.
LEMMA OthersKept ==
    ASSUME TypeOK, NEW t \in Threads, Step(t), NEW u \in Threads, u # t
    PROVE  /\ pc'[u] = pc[u] /\ op'[u] = op[u] /\ arg'[u] = arg[u] /\ cur'[u] = cur[u]
           /\ lvl'[u] = lvl[u] /\ prev'[u] = prev[u] /\ new'[u] = new[u]
           /\ iter'[u] = iter[u]
<1> USE DEF TypeOK, shared
<1>1. CASE Call(t)
  BY <1>1 DEF Call, InsertCall, FindCall, SeekCall, Begin, StartWalk, ReturnIter
<1>2. CASE InsertLock(t)
  BY <1>2 DEF InsertLock, StartWalk
<1>3. CASE InsertForward(t) \/ ContainsForward(t) \/ FindForward(t)
  BY <1>3 DEF InsertForward, ContainsForward, FindForward, MoveForward
<1>4. CASE InsertDown(t) \/ ContainsDown(t) \/ FindDown(t)
  BY <1>4 DEF InsertDown, ContainsDown, FindDown, MoveDown
<1>5. CASE InsertFound(t)
  BY <1>5 DEF InsertFound, ReturnIter
<1>6. CASE InsertAbsent(t)
  BY <1>6 DEF InsertAbsent, StartWalk
<1>7. CASE ContainsEnd(t)
  BY <1>7 DEF ContainsEnd
<1>8. ASSUME NEW n \in Node, NEW h \in 1 .. MaxLevel, InsertNode(t, n, h)
      PROVE  /\ pc'[u] = pc[u] /\ op'[u] = op[u] /\ arg'[u] = arg[u] /\ cur'[u] = cur[u]
             /\ lvl'[u] = lvl[u] /\ prev'[u] = prev[u] /\ new'[u] = new[u]
             /\ iter'[u] = iter[u]
  BY <1>8 DEF InsertNode
<1>9. CASE LinkNew(t)
  BY <1>9 DEF LinkNew
<1>10. CASE LinkPrev(t)
  BY <1>10 DEF LinkPrev, MoveDown
<1>11. CASE LinkLast(t)
  BY <1>11 DEF LinkLast, ReturnIter
<1>12. CASE FindReturn(t) \/ SeekReturn(t)
  BY <1>12 DEF FindReturn, SeekReturn, ReturnIter
<1>13. CASE SeekAbort(t) \/ IterNext(t) \/ DropIter(t)
  BY <1>13 DEF SeekAbort, IterNext, DropIter
<1>14. QED
  BY <1>1, <1>2, <1>3, <1>4, <1>5, <1>6, <1>7, <1>8, <1>9, <1>10, <1>11, <1>12, <1>13
     DEF Step, InsertStep, FindStep

\* A quiet step changes no node, and its thread is not linking.
LEMMA QuietKeeps ==
    ASSUME TypeOK, NEW t \in Threads, Quiet(t)
    PROVE  /\ Step(t)
           /\ key' = key /\ height' = height /\ next' = next /\ maxLevel' = maxLevel
           /\ pc[t] \notin Linking /\ pc'[t] \notin Linking
<1> USE DEF TypeOK, shared, Linking
<1>1. CASE Call(t)
  BY <1>1 DEF Call, InsertCall, FindCall, SeekCall, Begin, StartWalk, ReturnIter, Step
<1>2. CASE InsertLock(t)
  BY <1>2 DEF InsertLock, StartWalk, Step
<1>3. CASE InsertForward(t) \/ ContainsForward(t) \/ FindForward(t)
  BY <1>3 DEF InsertForward, ContainsForward, FindForward, MoveForward, Step, InsertStep,
              FindStep
<1>4. CASE InsertDown(t) \/ ContainsDown(t) \/ FindDown(t)
  BY <1>4 DEF InsertDown, ContainsDown, FindDown, MoveDown, Step, InsertStep, FindStep
<1>5. CASE InsertFound(t)
  BY <1>5 DEF InsertFound, ReturnIter, Step, InsertStep
<1>6. CASE InsertAbsent(t)
  BY <1>6 DEF InsertAbsent, StartWalk, Step, InsertStep
<1>7. CASE ContainsEnd(t)
  BY <1>7 DEF ContainsEnd, Step, InsertStep
<1>8. CASE FindReturn(t) \/ SeekReturn(t)
  BY <1>8 DEF FindReturn, SeekReturn, ReturnIter, Step, FindStep, FindEnds
<1>9. CASE SeekAbort(t) \/ IterNext(t) \/ DropIter(t)
  BY <1>9 DEF SeekAbort, IterNext, DropIter, Step, FindStep, FindEnds
<1>10. QED
  BY <1>1, <1>2, <1>3, <1>4, <1>5, <1>6, <1>7, <1>8, <1>9 DEF Quiet, FindStep

\* So the levels hold the same nodes after it.
LEMMA QuietLinked ==
    ASSUME TypeOK, NEW t \in Threads, Quiet(t), NEW i \in Levels
    PROVE  Linked(i)' = Linked(i)
<1>1. \A u \in Threads : /\ pc'[u] \in Linking <=> pc[u] \in Linking
                         /\ pc[u] \in Linking => new'[u] = new[u] /\ lvl'[u] = lvl[u]
  BY QuietKeeps, OthersKept
<1>2. key' = key /\ height' = height
  BY QuietKeeps
<1>3. QED
  BY <1>1, <1>2 DEF Linked, Allocated

\* A step that keeps nodes, links and levels keeps what is said of them.
LEMMA ListKept ==
    ASSUME ShapeInv, LevelsSorted, LevelsComplete, KeysUnique,
           key' = key, height' = height, next' = next, maxLevel' = maxLevel,
           \A i \in Levels : Linked(i)' = Linked(i)
    PROVE  ShapeInv' /\ LevelsSorted' /\ LevelsComplete' /\ KeysUnique'
<1>1. Allocated' = Allocated
  BY DEF Allocated
<1>2. ShapeInv'
  BY <1>1 DEF ShapeInv
<1>3. LevelsSorted'
  BY DEF LevelsSorted, Before
<1>4. LevelsComplete'
  BY DEF LevelsComplete, Before
<1>5. KeysUnique'
  BY <1>1 DEF KeysUnique
<1>6. QED
  BY <1>2, <1>3, <1>4, <1>5

\* ... and the invariant of every thread whose locals it leaves alone.
LEMMA ThreadKept ==
    ASSUME TypeOK, NEW u \in Threads, ThreadInv(u), maxLevel' = maxLevel,
           key' = key, height' = height, next' = next,
           \A i \in Levels : Linked(i)' = Linked(i),
           pc'[u] = pc[u], op'[u] = op[u], arg'[u] = arg[u], cur'[u] = cur[u],
           lvl'[u] = lvl[u], prev'[u] = prev[u], new'[u] = new[u],
           pc[u] \in Inside => lock' = lock
    PROVE  ThreadInv(u)'
<1>1. Allocated' = Allocated
  BY DEF Allocated
<1>2. lvl[u] \in Levels /\ maxLevel \in 1 .. MaxLevel
  BY DEF TypeOK
<1>3. \A i \in Levels : GoodPrev(u, i) => GoodPrev(u, i)'
  BY DEF GoodPrev, Before
<1>4. WalkInv(u) => WalkInv(u)'
  BY <1>2 DEF WalkInv, Before
<1>5. LockInv(u)'
  BY DEF ThreadInv, LockInv
<1>6. SearchInv(u)'
  <2>1. \A i \in lvl[u] + 1 .. maxLevel - 1 : i \in Levels
    BY <1>2, LevelAssumption DEF Levels
  <2>2. QED
    BY <1>3, <1>4, <2>1 DEF ThreadInv, SearchInv
<1>7. AbsentInv(u)'
  <2>1. \A i \in 0 .. maxLevel - 1 : i \in Levels
    BY <1>2, LevelAssumption DEF Levels
  <2>2. QED
    BY <1>1, <1>3, <1>4, <2>1 DEF ThreadInv, AbsentInv
<1>8. LinkInv(u)'
  <2>1. \A i \in 0 .. lvl[u] : i \in Levels
    BY <1>2, LevelAssumption DEF Levels
  <2>2. QED
    BY <1>1, <1>3, <2>1 DEF ThreadInv, LinkInv
<1>9. FindInv(u)'
  BY <1>1 DEF ThreadInv, FindInv
<1>10. QED
  BY <1>5, <1>6, <1>7, <1>8, <1>9 DEF ThreadInv

\* Where the walk of a writer goes from a place on the list while no node is
\* half linked: the next node on the level, and the level below.
LEMMA WalkAhead ==
    ASSUME TypeOK, ShapeInv, LevelsSorted, NEW t \in Threads,
           \A u \in Threads : pc[u] \notin Linking,
           cur[t] \in Linked(lvl[t]) \cup {Head}
    PROVE  /\ Ahead(t) # Nil => Ahead(t) \in Linked(lvl[t]) /\ Ahead(t) \in Allocated
           /\ lvl[t] > 0 => /\ lvl[t] - 1 \in Levels
                            /\ cur[t] \in Linked(lvl[t] - 1) \cup {Head}
<1>1. lvl[t] \in Levels
  BY DEF TypeOK
<1>2. Ahead(t) # Nil => Ahead(t) \in Linked(lvl[t])
  BY <1>1 DEF LevelsSorted, Ahead
<1>3. ASSUME lvl[t] > 0
      PROVE  /\ lvl[t] - 1 \in Levels
             /\ cur[t] \in Linked(lvl[t] - 1) \cup {Head}
  <2>1. lvl[t] - 1 \in Levels
    BY <1>1, <1>3, LevelAssumption DEF Levels
  <2>2. ASSUME cur[t] \in Linked(lvl[t]) PROVE cur[t] \in Linked(lvl[t] - 1)
    <3>1. cur[t] \in Allocated /\ lvl[t] < height[cur[t]]
      BY <2>2 DEF Linked
    <3>2. height[cur[t]] \in Int
      BY <3>1 DEF TypeOK, Allocated
    <3>3. lvl[t] - 1 < height[cur[t]]
      BY <1>1, <3>1, <3>2 DEF Levels
    <3>4. QED
      BY <3>1, <3>3 DEF Linked
  <2>3. QED
    BY <2>1, <2>2
<1>4. QED
  BY <1>2, <1>3 DEF Linked

\* While a writer is inside Insert, no other is.
LEMMA OneWriter ==
    ASSUME \A u \in Threads : ThreadInv(u),
           NEW t \in Threads, pc[t] \in Inside, NEW u \in Threads, u # t
    PROVE  pc[u] \notin Inside
BY DEF ThreadInv, LockInv

\* What a thread's own quiet step makes of its invariant.
LEMMA QuietSelf ==
    ASSUME TypeOK, ShapeInv, LevelsSorted, LevelsComplete,
           \A u \in Threads : ThreadInv(u),
           NEW t \in Threads, Quiet(t), TypeOK'
    PROVE  ThreadInv(t)'
<1>1. ThreadInv(t)
  OBVIOUS
<1>2. /\ key' = key /\ height' = height /\ next' = next /\ maxLevel' = maxLevel
      /\ \A i \in Levels : Linked(i)' = Linked(i)
      /\ Allocated' = Allocated
  BY <1>1, QuietKeeps, QuietLinked DEF Allocated
<1>3. /\ lvl[t] \in Levels /\ lvl'[t] \in Levels /\ maxLevel \in 1 .. MaxLevel
      /\ \A i \in 0 .. maxLevel - 1 : i \in Levels
      /\ \A i \in 0 .. lvl[t] : i \in Levels
  BY LevelAssumption DEF TypeOK, Levels
<1>4. \A i \in Levels : prev'[t][i] = prev[t][i] /\ arg'[t] = arg[t] =>
                          (GoodPrev(t, i) => GoodPrev(t, i)')
  BY <1>2 DEF GoodPrev, Before
<1>5. ASSUME pc'[t] \in {"idle", "iter", "abort"} PROVE ThreadInv(t)'
  BY <1>5 DEF ThreadInv, LockInv, SearchInv, AbsentInv, LinkInv, FindInv, Inside, Linking
<1>6. ASSUME cur' = [cur EXCEPT ![t] = Head], lvl' = [lvl EXCEPT ![t] = maxLevel - 1]
      PROVE  WalkInv(t)'
  BY <1>2, <1>3, <1>6 DEF TypeOK, WalkInv, Before
<1>7. ASSUME pc[t] \in {"search", "contains"} PROVE \A u \in Threads : pc[u] \notin Linking
  <2>1. \A u \in Threads : u # t => pc[u] \notin Inside
    BY <1>7, OneWriter DEF Inside
  <2>2. QED
    BY <1>7, <2>1 DEF Inside, Linking
<1>8. CASE Call(t)
  <2>1. CASE pc'[t] = "find"
    <3>1. op'[t] \in {"find", "seek"} /\ arg'[t] \in Keys /\ cur'[t] = Head
      BY <1>8, <2>1 DEF TypeOK, Call, InsertCall, FindCall, SeekCall, Begin, StartWalk, ReturnIter
    <3>2. QED
      BY <2>1, <3>1 DEF ThreadInv, LockInv, SearchInv, AbsentInv, LinkInv, FindInv, Inside,
                        Linking
  <2>2. CASE pc'[t] = "lock"
    <3>1. op'[t] = "insert" /\ arg'[t] \in Keys
      BY <1>8, <2>2 DEF TypeOK, Call, InsertCall, FindCall, SeekCall, Begin, ReturnIter
    <3>2. QED
      BY <2>2, <3>1 DEF ThreadInv, LockInv, SearchInv, AbsentInv, LinkInv, FindInv, Inside,
                        Linking
  <2>3. pc'[t] \in {"find", "lock", "iter"}
    BY <1>8 DEF TypeOK, Call, InsertCall, FindCall, SeekCall, Begin, ReturnIter
  <2>4. QED
    BY <1>5, <2>1, <2>2, <2>3
<1>9. CASE InsertLock(t)
  <2>1. /\ pc[t] = "lock" /\ pc'[t] = "search" /\ lock' = t /\ op' = op /\ arg' = arg
        /\ lvl'[t] = maxLevel - 1
    BY <1>9 DEF TypeOK, InsertLock, StartWalk
  <2>2. WalkInv(t)'
    BY <1>6, <1>9 DEF InsertLock, StartWalk
  <2>3. SearchInv(t)'
    BY <1>2, <1>3, <2>1, <2>2 DEF SearchInv
  <2>4. QED
    BY <1>1, <2>1, <2>3 DEF ThreadInv, LockInv, AbsentInv, LinkInv, FindInv, Inside, Linking
<1>10. CASE InsertForward(t) \/ ContainsForward(t)
  <2>1. /\ pc[t] \in {"search", "contains"} /\ pc' = pc /\ lock' = lock /\ op' = op
        /\ arg' = arg /\ lvl' = lvl /\ prev' = prev
        /\ AheadIsSmaller(t) /\ cur'[t] = Ahead(t)
    BY <1>10 DEF TypeOK, InsertForward, ContainsForward, MoveForward, shared
  <2>2. WalkInv(t)
    BY <1>1, <2>1 DEF ThreadInv, SearchInv, AbsentInv
  <2>3. Ahead(t) \in Linked(lvl[t]) /\ key[Ahead(t)] < arg[t]
    BY <1>1, <1>7, <2>1, <2>2, WalkAhead DEF WalkInv, AheadIsSmaller
  <2>4. WalkInv(t)'
    BY <1>2, <1>3, <2>1, <2>2, <2>3 DEF WalkInv, Before, Linked, Allocated
  <2>5. SearchInv(t)'
    BY <1>1, <1>2, <1>3, <1>4, <2>1, <2>4 DEF ThreadInv, SearchInv, Levels
  <2>6. AbsentInv(t)'
    BY <1>1, <1>2, <1>3, <1>4, <2>1, <2>4 DEF ThreadInv, AbsentInv
  <2>7. QED
    BY <1>1, <2>1, <2>5, <2>6 DEF ThreadInv, LockInv, LinkInv, FindInv, Inside, Linking
<1>11. ASSUME pc[t] = "search", ~AheadIsSmaller(t), NEW q,
              q = [prev EXCEPT ![t][lvl[t]] = cur[t]], prev' = q, arg' = arg
       PROVE  /\ \A i \in lvl[t] .. maxLevel - 1 : GoodPrev(t, i)'
              /\ Before(cur[t], arg[t])
  <2>1. WalkInv(t) /\ \A i \in lvl[t] + 1 .. maxLevel - 1 : GoodPrev(t, i)
    BY <1>1, <1>11 DEF ThreadInv, SearchInv
  <2>2. arg[t] \in Int
    BY <1>1, <1>11, KeysAssumption DEF ThreadInv, LockInv, Inside
  <2>3. Ahead(t) # Nil => key[Ahead(t)] \in Int /\ arg[t] <= key[Ahead(t)]
    <3>1. Ahead(t) # Nil => Ahead(t) \in Allocated
      BY <1>1, <1>7, <1>11, <2>1, WalkAhead DEF WalkInv
    <3>2. Ahead(t) # Nil => key[Ahead(t)] \in Int
      BY <3>1, KeysAssumption DEF TypeOK, Allocated
    <3>3. QED
      BY <1>11, <2>2, <3>2 DEF AheadIsSmaller
  <2>4. ASSUME NEW i \in Levels, i = lvl[t] PROVE GoodPrev(t, i)'
    <3>1. prev'[t][i] = cur[t] /\ cur[t] \in Linked(i) \cup {Head} /\ Before(cur[t], arg[t])
      BY <1>11, <2>1, <2>4 DEF TypeOK, WalkInv
    <3>2. next[cur[t]][i] # Nil => arg[t] <= key[next[cur[t]][i]]
      BY <2>3, <2>4 DEF Ahead
    <3>3. QED
      BY <1>2, <1>11, <3>1, <3>2 DEF GoodPrev, Before
  <2>5. ASSUME NEW i \in lvl[t] + 1 .. maxLevel - 1 PROVE GoodPrev(t, i)'
    <3>1. i \in Levels /\ i # lvl[t]
      BY <1>3 DEF Levels
    <3>2. prev'[t][i] = prev[t][i]
      BY <1>3, <1>11, <3>1 DEF TypeOK
    <3>3. QED
      BY <1>4, <1>11, <2>1, <3>1, <3>2
  <2>6. \A i \in lvl[t] .. maxLevel - 1 :
           /\ i \in Levels
           /\ i = lvl[t] \/ i \in lvl[t] + 1 .. maxLevel - 1
    BY <1>3 DEF Levels
  <2>7. QED
    BY <2>1, <2>4, <2>5, <2>6 DEF WalkInv
<1>12. CASE InsertDown(t)
  <2>1. /\ pc[t] = "search" /\ pc' = pc /\ lock' = lock /\ op' = op /\ arg' = arg
        /\ cur' = cur /\ lvl[t] > 0 /\ lvl'[t] = lvl[t] - 1
        /\ ~AheadIsSmaller(t) /\ prev' = [prev EXCEPT ![t][lvl[t]] = cur[t]]
    BY <1>12 DEF TypeOK, InsertDown, MoveDown, shared
  <2>2. WalkInv(t)
    BY <1>1, <2>1 DEF ThreadInv, SearchInv
  <2>3. cur[t] \in Linked(lvl[t] - 1) \cup {Head} /\ lvl[t] - 1 \in Levels
    BY <1>1, <1>7, <2>1, <2>2, WalkAhead DEF WalkInv
  <2>4. WalkInv(t)'
    BY <1>2, <1>3, <2>1, <2>2, <2>3 DEF WalkInv, Before, Levels
  <2>5. \A i \in lvl'[t] + 1 .. maxLevel' - 1 : GoodPrev(t, i)'
    <3>1. \A i \in lvl[t] .. maxLevel - 1 : GoodPrev(t, i)'
      BY <1>11, <2>1
    <3>2. lvl'[t] + 1 = lvl[t]
      BY <1>3, <2>1 DEF Levels
    <3>3. QED
      BY <1>2, <3>1, <3>2
  <2>6. QED
    BY <1>1, <2>1, <2>4, <2>5 DEF ThreadInv, LockInv, SearchInv, AbsentInv, LinkInv, FindInv,
                                  Inside, Linking
<1>13. CASE InsertFound(t) \/ FindReturn(t) \/ SeekReturn(t) \/ SeekAbort(t) \/ IterNext(t)
             \/ DropIter(t)
  <2>1. pc'[t] \in {"idle", "iter", "abort"}
    BY <1>13 DEF TypeOK, InsertFound, FindReturn, SeekReturn, SeekAbort, IterNext, DropIter,
                 ReturnIter
  <2>2. QED
    BY <1>5, <2>1
<1>14. CASE InsertAbsent(t)
  <2>1. /\ pc[t] = "search" /\ pc'[t] = "contains" /\ lock' = lock /\ op' = op /\ arg' = arg
        /\ lvl[t] = 0 /\ ~AheadIsSmaller(t) /\ ~AheadIsEqual(t)
        /\ prev' = [prev EXCEPT ![t][lvl[t]] = cur[t]]
    BY <1>14 DEF TypeOK, InsertAbsent, shared
  <2>2. WalkInv(t)'
    BY <1>6, <1>14 DEF InsertAbsent, StartWalk
  <2>3. \A i \in 0 .. maxLevel' - 1 : GoodPrev(t, i)'
    BY <1>2, <1>11, <2>1
  <2>4. ASSUME NEW n \in Allocated PROVE key[n] # arg[t]
    <3>1. 0 \in Levels /\ n \in Linked(0)
      <4>1. height[n] \in Int /\ 0 < height[n]
        BY <1>3 DEF ShapeInv, TypeOK
      <4>2. \A u \in Threads : pc[u] \notin Linking
        BY <1>7, <2>1
      <4>3. QED
        BY <1>3, <2>1, <2>4, <4>1, <4>2 DEF Linked
    <3>2. cur[t] \in Linked(0) \cup {Head} /\ Before(cur[t], arg[t])
      BY <1>1, <2>1 DEF ThreadInv, SearchInv, WalkInv
    <3>3. SUFFICES ASSUME key[n] = arg[t] PROVE FALSE
      OBVIOUS
    <3>4. Ahead(t) # Nil /\ key[Ahead(t)] <= arg[t]
      BY <2>1, <3>1, <3>2, <3>3 DEF LevelsComplete, Ahead
    <3>5. Ahead(t) \in Allocated
      BY <1>1, <1>7, <2>1, <3>2, <3>4, WalkAhead
    <3>6. key[Ahead(t)] \in Int /\ arg[t] \in Int
      BY <1>1, <2>1, <3>5, KeysAssumption DEF TypeOK, Allocated, ThreadInv, LockInv, Inside
    <3>7. QED
      BY <2>1, <3>4, <3>6 DEF AheadIsSmaller, AheadIsEqual
  <2>5. AbsentInv(t)'
    BY <1>2, <2>1, <2>2, <2>3, <2>4 DEF AbsentInv
  <2>6. QED
    BY <1>1, <2>1, <2>5 DEF ThreadInv, LockInv, SearchInv, LinkInv, FindInv, Inside, Linking
<1>15. CASE ContainsDown(t)
  <2>1. /\ pc[t] = "contains" /\ pc' = pc /\ lock' = lock /\ op' = op /\ arg' = arg
        /\ cur' = cur /\ lvl[t] > 0 /\ lvl'[t] = lvl[t] - 1 /\ prev' = prev
    BY <1>15 DEF TypeOK, ContainsDown, MoveDown, shared
  <2>2. WalkInv(t)
    BY <1>1, <2>1 DEF ThreadInv, AbsentInv
  <2>3. cur[t] \in Linked(lvl[t] - 1) \cup {Head} /\ lvl[t] - 1 \in Levels
    BY <1>1, <1>7, <2>1, <2>2, WalkAhead DEF WalkInv
  <2>4. WalkInv(t)'
    BY <1>2, <1>3, <2>1, <2>2, <2>3 DEF WalkInv, Before, Levels
  <2>5. AbsentInv(t)'
    BY <1>1, <1>2, <1>3, <1>4, <2>1, <2>4 DEF ThreadInv, AbsentInv
  <2>6. QED
    BY <1>1, <2>1, <2>5 DEF ThreadInv, LockInv, SearchInv, LinkInv, FindInv, Inside, Linking
<1>16. CASE ContainsEnd(t)
  <2>1. /\ pc[t] = "contains" /\ pc'[t] \in {"abort", "height"} /\ lock' = lock /\ op' = op
        /\ arg' = arg /\ prev' = prev
    BY <1>16 DEF TypeOK, ContainsEnd, shared
  <2>2. AbsentInv(t)'
    BY <1>1, <1>2, <1>3, <1>4, <2>1 DEF ThreadInv, AbsentInv
  <2>3. QED
    BY <1>1, <2>1, <2>2 DEF ThreadInv, LockInv, SearchInv, LinkInv, FindInv, Inside, Linking
<1>17. CASE FindForward(t) \/ FindDown(t)
  <2>1. pc[t] = "find" /\ pc' = pc /\ op' = op /\ arg' = arg
    BY <1>17 DEF FindForward, FindDown, MoveForward, MoveDown, shared
  <2>2. cur'[t] # Head => cur'[t] \in Allocated /\ lvl'[t] < height[cur'[t]]
    <3>1. CASE FindForward(t)
      BY <1>3, <3>1 DEF TypeOK, FindForward, MoveForward, Ahead, AheadIsSmaller, ShapeInv
    <3>2. CASE FindDown(t)
      <4>1. cur' = cur /\ lvl'[t] = lvl[t] - 1
        BY <3>2 DEF TypeOK, FindDown, MoveDown
      <4>2. cur[t] # Head => /\ cur[t] \in Allocated /\ lvl[t] < height[cur[t]]
                            /\ height[cur[t]] \in Int
        BY <1>1, <2>1 DEF ThreadInv, FindInv, TypeOK, Allocated
      <4>3. QED
        BY <1>3, <4>1, <4>2 DEF Levels
    <3>3. QED
      BY <1>17, <3>1, <3>2
  <2>3. QED
    BY <1>1, <1>2, <2>1, <2>2 DEF ThreadInv, LockInv, SearchInv, AbsentInv, LinkInv, FindInv,
                                  Inside, Linking
<1>18. QED
  BY <1>8, <1>9, <1>10, <1>12, <1>13, <1>14, <1>15, <1>16, <1>17 DEF Quiet, FindStep

\* A thread outside Insert has nothing to lose by a step of another thread that
\* only adds nodes and links.
LEMMA OutsiderKept ==
    ASSUME TypeOK, NEW t \in Threads, Step(t), NEW u \in Threads, u # t,
           ThreadInv(u), pc[u] \notin Inside,
           \A n \in Allocated : n \in Allocated' /\ height'[n] = height[n]
    PROVE  ThreadInv(u)'
<1>1. /\ pc'[u] = pc[u] /\ op'[u] = op[u] /\ arg'[u] = arg[u] /\ cur'[u] = cur[u]
      /\ lvl'[u] = lvl[u]
  BY OthersKept
<1>2. FindInv(u)'
  BY <1>1 DEF ThreadInv, FindInv
<1>3. QED
  BY <1>1, <1>2 DEF ThreadInv, LockInv, SearchInv, AbsentInv, LinkInv, Inside, Linking

\* The list after a new node is allocated, not linked yet.
LEMMA NodeStep ==
    ASSUME SkipListInv, NEW t \in Threads, Step(t), TypeOK',
           NEW n \in Node, NEW h \in 1 .. MaxLevel, InsertNode(t, n, h)
    PROVE  /\ SkipListInv'
           /\ next' = next /\ Inserting(t) /\ Inserting(t)' /\ arg' = arg
           /\ \A i \in Levels : /\ Linked(i)' = Linked(i)
                                /\ \A m \in Linked(i) : key'[m] = key[m]
<1>1. /\ TypeOK /\ ShapeInv /\ LevelsSorted /\ LevelsComplete /\ KeysUnique
      /\ \A u \in Threads : ThreadInv(u)
      /\ InsertAssertHolds
  BY DEF SkipListInv
<1>2. /\ pc[t] = "height" /\ pc'[t] = "linkNew" /\ key[n] = NoKey
      /\ key' = [key EXCEPT ![n] = arg[t]] /\ height' = [height EXCEPT ![n] = h]
      /\ next' = next /\ lock' = lock /\ op' = op /\ arg' = arg
      /\ new'[t] = n /\ lvl'[t] = h - 1
      /\ maxLevel' = IF h > maxLevel THEN h ELSE maxLevel
      /\ \A i \in Levels :
            prev'[t][i] = IF maxLevel <= i /\ i < h THEN Head ELSE prev[t][i]
  BY <1>1 DEF InsertNode, TypeOK
<1>3. /\ lock = t /\ op[t] = "insert" /\ arg[t] \in Keys /\ arg[t] # NoKey
      /\ \A m \in Allocated : key[m] # arg[t]
      /\ \A i \in 0 .. maxLevel - 1 : GoodPrev(t, i)
  BY <1>1, <1>2, KeysAssumption DEF ThreadInv, LockInv, AbsentInv, Inside
<1>4. \A u \in Threads : u # t => pc[u] \notin Inside
  BY <1>1, <1>2, OneWriter DEF Inside
<1>5. /\ Allocated' = Allocated \cup {n} /\ n \notin Allocated
      /\ key'[n] = arg[t] /\ height'[n] = h
      /\ \A m \in Allocated : key'[m] = key[m] /\ height'[m] = height[m]
  BY <1>1, <1>2, <1>3 DEF Allocated, TypeOK
<1>6. ASSUME NEW i \in Levels PROVE Linked(i)' = Linked(i)
  <2>1. \A u \in Threads : u # t => pc'[u] \notin Linking
    BY <1>1, <1>4, OthersKept DEF Inside
  <2>2. n \notin Linked(i)'
    <3>1. i < h => ~(lvl'[t] < i)
      BY <1>2 DEF Levels
    <3>2. QED
      BY <1>2, <1>5, <3>1 DEF Linked, Linking
  <2>3. ASSUME NEW m \in Allocated PROVE m \in Linked(i)' <=> m \in Linked(i)
    <3>1. pc[t] \notin Linking /\ new'[t] # m
      BY <1>2, <1>5 DEF Linking
    <3>2. QED
      BY <1>4, <1>5, <2>1, <3>1 DEF Linked, Inside
  <2>4. QED
    BY <1>5, <2>2, <2>3 DEF Linked
<1>7. \A i \in Levels : \A m \in Linked(i) : m \in Allocated /\ m # n /\ key'[m] = key[m]
  BY <1>5 DEF Linked
<1>8. maxLevel \in 1 .. MaxLevel /\ maxLevel' \in 1 .. MaxLevel /\ maxLevel <= maxLevel'
      /\ h <= maxLevel'
  BY <1>1, <1>2 DEF TypeOK
<1>9. ShapeInv'
  <2>1. \A m \in Allocated' : height'[m] \in 1 .. maxLevel'
    BY <1>1, <1>5, <1>8 DEF ShapeInv
  <2>2. QED
    BY <1>1, <1>2, <1>5, <2>1 DEF ShapeInv
<1>10. LevelsSorted'
  <2> SUFFICES ASSUME NEW i \in Levels, NEW p \in Linked(i) \cup {Head}, next[p][i] # Nil
               PROVE  next[p][i] \in Linked(i) /\ Before(p, key[next[p][i]])'
    BY <1>2, <1>6 DEF LevelsSorted
  <2>1. next[p][i] \in Linked(i) /\ Before(p, key[next[p][i]])
    BY <1>1 DEF LevelsSorted
  <2>2. QED
    BY <1>2, <1>7, <2>1 DEF Before
<1>11. LevelsComplete'
  <2> SUFFICES ASSUME NEW i \in Levels, NEW p \in Linked(i) \cup {Head}, NEW m \in Linked(i),
                      Before(p, key[m])'
               PROVE  next[p][i] # Nil /\ key'[next[p][i]] <= key'[m]
    BY <1>2, <1>6 DEF LevelsComplete
  <2>1. Before(p, key[m])
    BY <1>7 DEF Before
  <2>2. next[p][i] # Nil /\ key[next[p][i]] <= key[m]
    BY <1>1, <2>1 DEF LevelsComplete
  <2>3. next[p][i] \in Linked(i)
    BY <1>1, <2>2 DEF LevelsSorted
  <2>4. QED
    BY <1>7, <2>2, <2>3
<1>12. KeysUnique'
  BY <1>1, <1>3, <1>5 DEF KeysUnique
<1>13. ThreadInv(t)'
  <2>1. ASSUME NEW i \in 0 .. h - 1 PROVE GoodPrev(t, i)'
    <3>1. i \in Levels
      BY LevelAssumption DEF Levels
    <3>2. CASE i < maxLevel
      <4>1. GoodPrev(t, i) /\ prev'[t][i] = prev[t][i]
        BY <1>2, <1>3, <1>8, <3>1, <3>2 DEF Levels
      <4>2. next[prev[t][i]][i] # Nil => next[prev[t][i]][i] \in Linked(i)
        BY <1>1, <3>1, <4>1 DEF GoodPrev, LevelsSorted
      <4>3. QED
        BY <1>2, <1>6, <1>7, <3>1, <4>1, <4>2 DEF GoodPrev, Before
    <3>3. CASE maxLevel <= i
      <4>1. prev'[t][i] = Head
        BY <1>2, <3>1, <3>3 DEF Levels
      <4>2. next[Head][i] = Nil
        <5>1. next[Head][i] # Nil => /\ next[Head][i] \in Allocated /\ i < height[next[Head][i]]
                                    /\ height[next[Head][i]] \in 1 .. maxLevel
          BY <1>1, <3>1 DEF ShapeInv, Place
        <5>2. QED
          BY <1>8, <3>1, <3>3, <5>1 DEF Levels
      <4>3. QED
        BY <1>2, <4>1, <4>2 DEF GoodPrev, Before
    <3>4. QED
      BY <1>8, <3>1, <3>2, <3>3 DEF Levels
  <2>2. LinkInv(t)'
    BY <1>2, <1>5, <2>1 DEF LinkInv
  <2>3. QED
    BY <1>2, <1>3, <2>2 DEF ThreadInv, LockInv, SearchInv, AbsentInv, FindInv, Inside, Linking
<1>14. ASSUME NEW u \in Threads, u # t PROVE ThreadInv(u)'
  BY <1>1, <1>4, <1>5, <1>14, OutsiderKept
<1>15. InsertAssertHolds'
  BY <1>1, <1>2, OthersKept DEF InsertAssertHolds
<1>16. Inserting(t) /\ Inserting(t)'
  BY <1>2, <1>3 DEF Inserting, Inside, Linking
<1>17. QED
  BY <1>2, <1>6, <1>7, <1>9, <1>10, <1>11, <1>12, <1>13, <1>14, <1>15, <1>16 DEF SkipListInv

\* What is known of a writer that is about to set a link.
LEMMA LinkFacts ==
    ASSUME SkipListInv, NEW t \in Threads, pc[t] \in Linking
    PROVE  /\ lock = t /\ op[t] = "insert" /\ arg[t] \in Keys
           /\ \A u \in Threads : u # t => pc[u] \notin Inside
           /\ lvl[t] \in Levels /\ \A i \in 0 .. lvl[t] : i \in Levels /\ GoodPrev(t, i)
           /\ new[t] \in Allocated /\ key[new[t]] = arg[t] /\ lvl[t] < height[new[t]]
           /\ height[new[t]] \in Int
           /\ \A i \in 0 .. lvl[t] : new[t] \notin Linked(i) /\ prev[t][i] # new[t]
           /\ \A i \in Levels : \A m \in Linked(i) : key[m] \in Int
           /\ \A i \in Levels : \A m \in Linked(i) : m # new[t] => key[m] # arg[t]
<1>1. /\ TypeOK /\ ThreadInv(t) /\ KeysUnique /\ \A u \in Threads : ThreadInv(u)
  BY DEF SkipListInv
<1>2. lvl[t] \in Levels /\ \A i \in 0 .. lvl[t] : i \in Levels
  BY <1>1, LevelAssumption DEF TypeOK, Levels
<1>3. /\ lock = t /\ op[t] = "insert" /\ arg[t] \in Keys
      /\ \A u \in Threads : u # t => pc[u] \notin Inside
  BY <1>1, OneWriter DEF ThreadInv, LockInv, Inside
<1>4. /\ new[t] \in Allocated /\ key[new[t]] = arg[t] /\ lvl[t] < height[new[t]]
      /\ \A i \in 0 .. lvl[t] : GoodPrev(t, i)
      /\ height[new[t]] \in Int
  BY <1>1 DEF ThreadInv, LinkInv, TypeOK, Allocated
<1>5. \A i \in 0 .. lvl[t] : new[t] \notin Linked(i)
  BY <1>2 DEF Linked, Levels
<1>6. \A i \in 0 .. lvl[t] : prev[t][i] # new[t]
  BY <1>4, <1>5, NodeAssumption DEF GoodPrev, Allocated
<1>7. \A i \in Levels : \A m \in Linked(i) : m \in Allocated /\ key[m] \in Int
  BY <1>1, KeysAssumption DEF Linked, Allocated, TypeOK
<1>8. \A i \in Levels : \A m \in Linked(i) : m # new[t] => key[m] # arg[t]
  BY <1>1, <1>4, <1>7 DEF KeysUnique
<1>9. QED
  BY <1>2, <1>3, <1>4, <1>5, <1>6, <1>7, <1>8

\* newNode->next_[i] = prev[i]->next_[i] changes no link of a linked node.
LEMMA LinkNewStep ==
    ASSUME SkipListInv, NEW t \in Threads, Step(t), TypeOK', LinkNew(t)
    PROVE  /\ SkipListInv'
           /\ Inserting(t) /\ Inserting(t)' /\ arg' = arg /\ key' = key
           /\ \A i \in Levels :
                /\ Linked(i)' = Linked(i)
                /\ \A q \in Linked(i) \cup {Head} : next'[q][i] = next[q][i]
<1> DEFINE n == new[t]
           l == lvl[t]
           p == prev[t][l]
<1>1. /\ TypeOK /\ ShapeInv /\ LevelsSorted /\ LevelsComplete /\ KeysUnique
      /\ \A u \in Threads : ThreadInv(u)
      /\ InsertAssertHolds
  BY DEF SkipListInv
<1>2. /\ pc[t] = "linkNew" /\ pc'[t] = "linkPrev"
      /\ next' = [next EXCEPT ![n][l] = next[p][l]]
      /\ key' = key /\ height' = height /\ maxLevel' = maxLevel /\ lock' = lock /\ op' = op
      /\ arg' = arg /\ lvl' = lvl /\ prev' = prev /\ new' = new
  BY <1>1 DEF LinkNew, TypeOK
<1>3. /\ lock = t /\ op[t] = "insert" /\ arg[t] \in Keys
      /\ \A u \in Threads : u # t => pc[u] \notin Inside
      /\ l \in Levels /\ \A i \in 0 .. l : i \in Levels /\ GoodPrev(t, i)
      /\ n \in Allocated /\ key[n] = arg[t] /\ l < height[n]
      /\ \A i \in 0 .. l : n \notin Linked(i) /\ prev[t][i] # n
      /\ l \in 0 .. l
  BY <1>2, LinkFacts DEF Linking, Levels
<1>4. Allocated' = Allocated /\ n \in Place /\ p \in Place
  BY <1>2, <1>3 DEF Allocated, Place, GoodPrev, Linked
<1>5. ASSUME NEW i \in Levels PROVE Linked(i)' = Linked(i)
  <2>1. \A u \in Threads : pc'[u] \in Linking <=> pc[u] \in Linking
    BY <1>1, <1>2, OthersKept DEF Linking
  <2>2. QED
    BY <1>2, <1>4, <2>1 DEF Linked
<1>6. ASSUME NEW q \in Place, NEW i \in Levels
      PROVE  next'[q][i] = IF q = n /\ i = l THEN next[p][l] ELSE next[q][i]
  BY <1>1, <1>2, <1>4, <1>6 DEF TypeOK
<1>7. \A i \in Levels : \A q \in Linked(i) \cup {Head} : q \in Place /\ next'[q][i] = next[q][i]
  BY <1>3, <1>6, NodeAssumption DEF Linked, Allocated, Place
<1>8. ShapeInv'
  <2>1. ASSUME NEW q \in Place, NEW i \in Levels, next'[q][i] # Nil
        PROVE  next'[q][i] \in Allocated /\ i < height[next'[q][i]]
    <3>1. CASE q = n /\ i = l
      BY <1>1, <1>3, <1>4, <1>6, <2>1, <3>1 DEF ShapeInv
    <3>2. CASE ~(q = n /\ i = l)
      BY <1>1, <1>6, <2>1, <3>2 DEF ShapeInv
    <3>3. QED
      BY <3>1, <3>2
  <2>2. QED
    BY <1>1, <1>2, <1>4, <2>1 DEF ShapeInv
<1>9. LevelsSorted' /\ LevelsComplete' /\ KeysUnique'
  <2>1. LevelsSorted'
    <3>1. SUFFICES ASSUME NEW i \in Levels, NEW q \in Linked(i)' \cup {Head}, next'[q][i] # Nil
                   PROVE  next'[q][i] \in Linked(i)' /\ Before(q, key[next'[q][i]])
      BY <1>2 DEF LevelsSorted, Before
    <3>2. q \in Linked(i) \cup {Head} /\ next'[q][i] = next[q][i] /\ Linked(i)' = Linked(i)
      BY <1>5, <1>7
    <3>3. next[q][i] \in Linked(i) /\ Before(q, key[next[q][i]])
      BY <1>1, <3>1, <3>2 DEF LevelsSorted
    <3>4. QED
      BY <3>2, <3>3
  <2>2. LevelsComplete'
    <3>1. SUFFICES ASSUME NEW i \in Levels, NEW q \in Linked(i)' \cup {Head},
                          NEW m \in Linked(i)', Before(q, key[m])
                   PROVE  next'[q][i] # Nil /\ key[next'[q][i]] <= key[m]
      BY <1>2 DEF LevelsComplete, Before
    <3>2. q \in Linked(i) \cup {Head} /\ m \in Linked(i) /\ next'[q][i] = next[q][i]
      BY <1>5, <1>7
    <3>3. next[q][i] # Nil /\ key[next[q][i]] <= key[m]
      BY <1>1, <3>1, <3>2 DEF LevelsComplete
    <3>4. QED
      BY <3>2, <3>3
  <2>3. KeysUnique'
    BY <1>1, <1>2, <1>4 DEF KeysUnique
  <2>4. QED
    BY <2>1, <2>2, <2>3
<1>10. \A i \in 0 .. l : GoodPrev(t, i)'
  <2> SUFFICES ASSUME NEW i \in 0 .. l PROVE GoodPrev(t, i)'
    BY <1>2
  <2>1. i \in Levels /\ GoodPrev(t, i)
    BY <1>3
  <2>2. next'[prev[t][i]][i] = next[prev[t][i]][i] /\ Linked(i)' = Linked(i)
    BY <1>5, <1>7, <2>1 DEF GoodPrev
  <2>3. QED
    BY <1>2, <2>1, <2>2 DEF GoodPrev, Before
<1>11. next'[n][l] = next'[p][l]
  BY <1>3, <1>4, <1>6
<1>12. ThreadInv(t)'
  <2>1. LinkInv(t)'
    BY <1>2, <1>3, <1>4, <1>10, <1>11 DEF LinkInv
  <2>2. QED
    BY <1>2, <1>3, <2>1 DEF ThreadInv, LockInv, SearchInv, AbsentInv, FindInv, Inside, Linking
<1>13. ASSUME NEW u \in Threads, u # t PROVE ThreadInv(u)'
  BY <1>1, <1>2, <1>3, <1>4, <1>13, OutsiderKept
<1>14. InsertAssertHolds'
  BY <1>1, <1>2, OthersKept DEF InsertAssertHolds
<1>15. Inserting(t) /\ Inserting(t)'
  BY <1>2, <1>3 DEF Inserting, Inside, Linking
<1>16. QED
  BY <1>2, <1>5, <1>7, <1>8, <1>9, <1>12, <1>13, <1>14, <1>15 DEF SkipListInv

\* prev[i]->next_[i] = newNode puts the node on its level: the level stays
\* sorted and loses nobody.
LEMMA LevelJoined ==
    ASSUME SkipListInv, NEW t \in Threads, pc[t] = "linkPrev",
           key' = key, height' = height,
           next' = [next EXCEPT ![prev[t][lvl[t]]][lvl[t]] = new[t]],
           \A i \in Levels :
              Linked(i)' = IF i = lvl[t] THEN Linked(i) \cup {new[t]} ELSE Linked(i)
    PROVE  /\ LevelsSorted' /\ LevelsComplete'
           /\ \A q \in Place, i \in Levels :
                next'[q][i] = IF q = prev[t][lvl[t]] /\ i = lvl[t] THEN new[t] ELSE next[q][i]
<1> DEFINE n == new[t]
           l == lvl[t]
           p == prev[t][l]
           k == arg[t]
<1>1. TypeOK /\ LevelsSorted /\ LevelsComplete /\ ThreadInv(t)
  BY DEF SkipListInv
<1>2. /\ l \in Levels /\ GoodPrev(t, l) /\ n \in Allocated /\ key[n] = k /\ l < height[n]
      /\ k \in Int /\ n \notin Linked(l) /\ p # n
      /\ \A i \in Levels : \A m \in Linked(i) : key[m] \in Int
      /\ \A m \in Linked(l) : key[m] # k
  <2>1. l \in 0 .. l /\ lvl[t] \in Levels
    BY <1>1 DEF TypeOK, Levels
  <2>2. n \notin Linked(l)
    BY <2>1, LinkFacts DEF Linking
  <2>3. QED
    BY <2>1, <2>2, LinkFacts, KeysAssumption DEF Linking
<1>3. p \in Linked(l) \cup {Head} /\ p \in Place /\ Before(p, k)
  BY <1>2 DEF GoodPrev, Linked, Allocated, Place
<1>4. next[p][l] # Nil => next[p][l] \in Linked(l) /\ k < key[next[p][l]]
  <2>1. next[p][l] # Nil => next[p][l] \in Linked(l) /\ k <= key[next[p][l]]
    BY <1>1, <1>2, <1>3 DEF LevelsSorted, GoodPrev
  <2>2. QED
    BY <1>2, <2>1
<1>5. next[n][l] = next[p][l]
  BY <1>1 DEF ThreadInv, LinkInv, Linking
<1>6. \A q \in Place, i \in Levels :
         next'[q][i] = IF q = p /\ i = l THEN n ELSE next[q][i]
  BY <1>1, <1>2, <1>3 DEF TypeOK
<1>7. \A i \in Levels : \A q \in Linked(i) \cup {Head} : q \in Place
  BY DEF Linked, Allocated, Place
<1>8. /\ n \in Place /\ n \in Node /\ n # Head /\ n # Nil /\ Head \in Place
      /\ \A i \in Levels : \A m \in Linked(i) : m \in Node /\ m # Head /\ m # Nil
  BY <1>2, NodeAssumption DEF Allocated, Place, Linked
<1>8a. /\ \A i \in Levels : Linked(i)' = IF i = l THEN Linked(i) \cup {n} ELSE Linked(i)
       /\ key' = key
  OBVIOUS
<1> HIDE DEF n, l, p, k
<1>9. LevelsSorted'
  <2> SUFFICES ASSUME NEW i \in Levels, NEW q \in Linked(i)' \cup {Head}, next'[q][i] # Nil
               PROVE  next'[q][i] \in Linked(i)' /\ Before(q, key[next'[q][i]])
    BY DEF LevelsSorted, Before
  <2>1. CASE i # l
    BY <1>1, <1>6, <1>7, <1>8a, <2>1 DEF LevelsSorted
  <2>2. CASE i = l /\ q = p
    <3>1. next'[q][i] = n /\ n \in Linked(i)'
      BY <1>3, <1>6, <1>8a, <2>2
    <3>2. Before(q, k)
      BY <1>3, <2>2
    <3>3. QED
      BY <1>2, <3>1, <3>2
  <2>3. CASE i = l /\ q = n
    <3>0. n \in Place /\ n # p /\ l \in Levels
      BY <1>2, <1>8
    <3>1. next'[q][i] = next[p][l]
      BY <1>5, <1>6, <2>3, <3>0
    <3>2. next'[q][i] \in Linked(l) /\ key[q] < key[next'[q][i]]
      BY <1>2, <1>4, <2>3, <3>1
    <3>3. QED
      BY <1>8, <1>8a, <2>3, <3>2 DEF Before
  <2>4. CASE i = l /\ q # p /\ q # n
    BY <1>1, <1>6, <1>7, <1>8a, <2>4 DEF LevelsSorted
  <2>5. QED
    BY <2>1, <2>2, <2>3, <2>4
<1>10. LevelsComplete'
  <2> SUFFICES ASSUME NEW i \in Levels, NEW q \in Linked(i)' \cup {Head}, NEW m \in Linked(i)',
                      Before(q, key[m])
               PROVE  next'[q][i] # Nil /\ key[next'[q][i]] <= key[m]
    BY DEF LevelsComplete, Before
  <2>1. CASE i # l
    BY <1>1, <1>6, <1>7, <1>8a, <2>1 DEF LevelsComplete
  <2>2. CASE i = l /\ q = p
    <3>1. next'[q][i] = n
      BY <1>3, <1>6, <2>2
    <3>2. CASE m = n
      BY <1>2, <1>8, <3>1, <3>2
    <3>3. CASE m # n
      <4>1. m \in Linked(l)
        BY <1>8a, <2>2, <3>3
      <4>2. next[p][l] # Nil /\ key[next[p][l]] <= key[m]
        BY <1>1, <1>3, <2>2, <4>1 DEF LevelsComplete
      <4>3. k < key[next[p][l]] /\ next[p][l] \in Linked(l)
        BY <1>4, <4>2
      <4>4. key[next[p][l]] \in Int /\ key[m] \in Int /\ k \in Int
        BY <1>2, <4>1, <4>3
      <4>5. k <= key[m]
        BY <4>2, <4>3, <4>4
      <4>6. key[n] = k /\ n # Nil
        BY <1>2, <1>8
      <4>7. QED
        BY <3>1, <4>5, <4>6
    <3>4. QED
      BY <3>2, <3>3
  <2>3. CASE i = l /\ q = n
    <3>1. m \in Linked(l) /\ k < key[m]
      BY <1>2, <1>8, <1>8a, <2>3 DEF Before
    <3>2. Before(p, key[m])
      BY <1>2, <1>3, <1>8, <3>1 DEF Before
    <3>3. next[p][l] # Nil /\ key[next[p][l]] <= key[m]
      BY <1>1, <1>2, <1>3, <3>1, <3>2 DEF LevelsComplete
    <3>4. next'[q][i] = next[p][l]
      BY <1>2, <1>5, <1>6, <1>8, <2>3
    <3>5. QED
      BY <3>3, <3>4
  <2>4. CASE i = l /\ q # p /\ q # n
    <3>1. q \in Linked(l) \cup {Head} /\ next'[q][i] = next[q][l]
      BY <1>6, <1>7, <1>8a, <2>4
    <3>2. CASE m # n
      BY <1>1, <1>8a, <2>4, <3>1, <3>2 DEF LevelsComplete
    <3>3. CASE m = n
      <4>1. Before(q, k)
        BY <1>2, <3>3
      <4>2. CASE Before(q, key[p]) /\ p # Head
        <5>1. next[q][l] # Nil /\ key[next[q][l]] <= key[p] /\ next[q][l] \in Linked(l)
          BY <1>1, <1>2, <1>3, <3>1, <4>2 DEF LevelsComplete, LevelsSorted
        <5>2. key[p] < k /\ key[p] \in Int
          BY <1>2, <1>3, <4>2 DEF Before
        <5>3. key[next[q][l]] \in Int /\ k \in Int
          BY <1>2, <5>1
        <5>4. key[next[q][l]] <= k
          BY <5>1, <5>2, <5>3
        <5>5. QED
          BY <1>2, <3>1, <3>3, <5>1, <5>4
      <4>3. CASE ~(Before(q, key[p]) /\ p # Head)
        <5>1. q \in Linked(l) /\ key[q] < k
          BY <2>4, <3>1, <4>1, <4>3 DEF Before
        <5>2. Before(p, key[q])
          <6>1. CASE p = Head
            BY <6>1 DEF Before
          <6>2. CASE p # Head
            <7>1. p \in Allocated /\ q \in Allocated /\ key[p] # key[q]
              BY <1>3, <2>4, <5>1, <6>2 DEF Linked, SkipListInv, KeysUnique
            <7>2. ~(key[q] < key[p]) /\ key[q] \in Int /\ key[p] \in Int
              BY <1>2, <1>3, <1>8, <4>3, <5>1, <6>2 DEF Before
            <7>3. QED
              BY <7>1, <7>2 DEF Before, Allocated
          <6>3. QED
            BY <6>1, <6>2
        <5>3. next[p][l] # Nil /\ key[next[p][l]] <= key[q]
          BY <1>1, <1>2, <1>3, <5>1, <5>2 DEF LevelsComplete
        <5>4. k < key[next[p][l]] /\ next[p][l] \in Linked(l)
          BY <1>4, <5>3
        <5>5. key[next[p][l]] \in Int /\ key[q] \in Int /\ k \in Int
          BY <1>2, <5>1, <5>4
        <5>6. QED
          BY <5>1, <5>3, <5>4, <5>5
      <4>4. QED
        BY <4>2, <4>3
    <3>4. QED
      BY <3>2, <3>3
  <2>5. QED
    BY <2>1, <2>2, <2>3, <2>4
<1>11. QED
  BY <1>6, <1>9, <1>10 DEF n, l, p

\* What a link does to the rest of the invariant, on any level.
LEMMA PublishStep ==
    ASSUME SkipListInv, NEW t \in Threads, Step(t), pc[t] = "linkPrev",
           key' = key, height' = height, maxLevel' = maxLevel,
           next' = [next EXCEPT ![prev[t][lvl[t]]][lvl[t]] = new[t]],
           \A i \in Levels :
              Linked(i)' = IF i = lvl[t] THEN Linked(i) \cup {new[t]} ELSE Linked(i)
    PROVE  /\ ShapeInv' /\ LevelsSorted' /\ LevelsComplete' /\ KeysUnique'
           /\ \A u \in Threads : u # t => ThreadInv(u)'
<1>1. /\ TypeOK /\ ShapeInv /\ KeysUnique /\ \A u \in Threads : ThreadInv(u)
  BY DEF SkipListInv
<1>2. /\ \A u \in Threads : u # t => pc[u] \notin Inside
      /\ new[t] \in Allocated /\ lvl[t] < height[new[t]]
  BY LinkFacts DEF Linking
<1>3. LevelsSorted' /\ LevelsComplete'
  BY LevelJoined
<1>4. \A q \in Place, i \in Levels :
         next'[q][i] = IF q = prev[t][lvl[t]] /\ i = lvl[t] THEN new[t] ELSE next[q][i]
  BY LevelJoined
<1>5. Allocated' = Allocated
  BY DEF Allocated
<1>6. ShapeInv'
  <2>1. ASSUME NEW q \in Place, NEW i \in Levels, next'[q][i] # Nil
        PROVE  next'[q][i] \in Allocated /\ i < height[next'[q][i]]
    <3>1. CASE q = prev[t][lvl[t]] /\ i = lvl[t]
      BY <1>2, <1>4, <3>1
    <3>2. CASE ~(q = prev[t][lvl[t]] /\ i = lvl[t])
      BY <1>1, <1>4, <2>1, <3>2 DEF ShapeInv
    <3>3. QED
      BY <3>1, <3>2
  <2>2. QED
    BY <1>1, <1>5, <2>1 DEF ShapeInv
<1>7. KeysUnique'
  BY <1>1, <1>5 DEF KeysUnique
<1>8. ASSUME NEW u \in Threads, u # t PROVE ThreadInv(u)'
  BY <1>1, <1>2, <1>5, <1>8, OutsiderKept
<1>9. QED
  BY <1>3, <1>6, <1>7, <1>8

\* A link above the lowest level; the next one is the level below.
LEMMA LinkPrevStep ==
    ASSUME SkipListInv, NEW t \in Threads, Step(t), TypeOK', LinkPrev(t)
    PROVE  /\ SkipListInv' /\ Linked(0)' = Linked(0)
           /\ Inserting(t) /\ Inserting(t)' /\ arg' = arg /\ key' = key
<1>1. /\ TypeOK /\ InsertAssertHolds /\ \A u \in Threads : ThreadInv(u)
  BY DEF SkipListInv
<1>2. /\ pc[t] = "linkPrev" /\ pc'[t] = "linkNew" /\ lvl[t] > 0 /\ lvl'[t] = lvl[t] - 1
      /\ next' = [next EXCEPT ![prev[t][lvl[t]]][lvl[t]] = new[t]]
      /\ key' = key /\ height' = height /\ maxLevel' = maxLevel /\ lock' = lock /\ op' = op
      /\ arg' = arg /\ prev' = prev /\ new' = new
  BY <1>1 DEF LinkPrev, MoveDown, TypeOK
<1>3. /\ lock = t /\ op[t] = "insert" /\ arg[t] \in Keys
      /\ \A u \in Threads : u # t => pc[u] \notin Inside
      /\ lvl[t] \in Levels /\ \A i \in 0 .. lvl[t] : i \in Levels /\ GoodPrev(t, i)
      /\ new[t] \in Allocated /\ key[new[t]] = arg[t] /\ lvl[t] < height[new[t]]
      /\ height[new[t]] \in Int
  BY <1>2, LinkFacts DEF Linking
<1>4. Allocated' = Allocated
  BY <1>2 DEF Allocated
<1>5. ASSUME NEW i \in Levels
      PROVE  Linked(i)' = IF i = lvl[t] THEN Linked(i) \cup {new[t]} ELSE Linked(i)
  <2>1. \A u \in Threads : u # t => pc'[u] \notin Linking /\ pc[u] \notin Linking
    BY <1>1, <1>3, OthersKept DEF Inside
  <2>2. \A m \in Node : m \in Linked(i) <=>
           m \in Allocated /\ i < height[m] /\ (m = new[t] => lvl[t] < i)
    BY <1>2, <2>1 DEF Linked, Linking, Allocated
  <2>3. \A m \in Node : m \in Linked(i)' <=>
           m \in Allocated /\ i < height[m] /\ (m = new[t] => lvl[t] - 1 < i)
    BY <1>2, <1>4, <2>1 DEF Linked, Linking, Allocated
  <2>4. lvl[t] - 1 < i <=> lvl[t] < i \/ i = lvl[t]
    BY <1>3 DEF Levels
  <2>5. Linked(i) \subseteq Node /\ Linked(i)' \subseteq Node
    BY DEF Linked, Allocated
  <2>6. QED
    BY <1>3, <2>2, <2>3, <2>4, <2>5 DEF Allocated
<1>6. /\ ShapeInv' /\ LevelsSorted' /\ LevelsComplete' /\ KeysUnique'
      /\ \A u \in Threads : u # t => ThreadInv(u)'
  BY <1>2, <1>5, PublishStep
<1>7. ASSUME NEW i \in 0 .. lvl[t] - 1 PROVE GoodPrev(t, i)'
  <2>1. i \in Levels /\ i # lvl[t] /\ GoodPrev(t, i)
    BY <1>3 DEF Levels
  <2>2. prev[t][i] \in Place
    BY <2>1 DEF GoodPrev, Linked, Allocated, Place
  <2>3. next'[prev[t][i]][i] = next[prev[t][i]][i] /\ Linked(i)' = Linked(i)
    <3>1. \A q \in Place, j \in Levels :
             next'[q][j] = IF q = prev[t][lvl[t]] /\ j = lvl[t] THEN new[t] ELSE next[q][j]
      BY <1>2, <1>5, LevelJoined
    <3>2. QED
      BY <1>5, <2>1, <2>2, <3>1
  <2>4. QED
    BY <1>2, <2>1, <2>3 DEF GoodPrev, Before
<1>8. ThreadInv(t)'
  <2>1. lvl'[t] < height[new[t]]
    BY <1>2, <1>3 DEF Levels
  <2>2. LinkInv(t)'
    BY <1>2, <1>3, <1>4, <1>7, <2>1 DEF LinkInv
  <2>3. QED
    BY <1>2, <1>3, <2>2 DEF ThreadInv, LockInv, SearchInv, AbsentInv, FindInv, Inside, Linking
<1>9. InsertAssertHolds'
  BY <1>1, <1>2, OthersKept DEF InsertAssertHolds
<1>10. Linked(0)' = Linked(0)
  <2>1. 0 \in Levels /\ 0 # lvl[t]
    BY <1>2, LevelAssumption DEF Levels
  <2>2. QED
    BY <1>5, <2>1
<1>11. Inserting(t) /\ Inserting(t)'
  BY <1>2, <1>3 DEF Inserting, Inside, Linking
<1>12. QED
  BY <1>2, <1>6, <1>8, <1>9, <1>10, <1>11 DEF SkipListInv

\* The link on the lowest level, with which Insert returns.
LEMMA LinkLastStep ==
    ASSUME SkipListInv, NEW t \in Threads, Step(t), TypeOK', LinkLast(t)
    PROVE  /\ SkipListInv' /\ Linked(0)' = Linked(0) \cup {new[t]}
           /\ key' = key /\ key[new[t]] = arg[t] /\ arg[t] \in Keys
           /\ Inserting(t) /\ ~Inserting(t)' /\ arg' = arg
<1>1. /\ TypeOK /\ InsertAssertHolds /\ \A u \in Threads : ThreadInv(u)
  BY DEF SkipListInv
<1>2. /\ pc[t] = "linkPrev" /\ pc'[t] = "iter" /\ lvl[t] = 0
      /\ next' = [next EXCEPT ![prev[t][lvl[t]]][lvl[t]] = new[t]]
      /\ key' = key /\ height' = height /\ maxLevel' = maxLevel /\ op' = op /\ arg' = arg
  BY <1>1 DEF LinkLast, ReturnIter, TypeOK
<1>3. /\ \A u \in Threads : u # t => pc[u] \notin Inside
      /\ op[t] = "insert" /\ key[new[t]] = arg[t] /\ arg[t] \in Keys
      /\ new[t] \in Allocated /\ lvl[t] < height[new[t]] /\ lvl[t] \in Levels
  BY <1>2, LinkFacts DEF Linking
<1>4. Allocated' = Allocated
  BY <1>2 DEF Allocated
<1>5. ASSUME NEW i \in Levels
      PROVE  Linked(i)' = IF i = lvl[t] THEN Linked(i) \cup {new[t]} ELSE Linked(i)
  <2>1. \A u \in Threads : u # t => pc'[u] \notin Linking /\ pc[u] \notin Linking
    BY <1>1, <1>3, OthersKept DEF Inside
  <2>2. \A m \in Node : m \in Linked(i) <=>
           m \in Allocated /\ i < height[m] /\ (m = new[t] => lvl[t] < i)
    BY <1>2, <2>1 DEF Linked, Linking, Allocated
  <2>3. \A m \in Node : m \in Linked(i)' <=> m \in Allocated /\ i < height[m]
    BY <1>2, <1>4, <2>1 DEF Linked, Linking, Allocated
  <2>4. i = lvl[t] \/ lvl[t] < i
    BY <1>2 DEF Levels
  <2>5. Linked(i) \subseteq Node /\ Linked(i)' \subseteq Node
    BY DEF Linked, Allocated
  <2>6. QED
    BY <1>2, <1>3, <2>2, <2>3, <2>4, <2>5 DEF Allocated
<1>6. /\ ShapeInv' /\ LevelsSorted' /\ LevelsComplete' /\ KeysUnique'
      /\ \A u \in Threads : u # t => ThreadInv(u)'
  BY <1>2, <1>5, PublishStep
<1>7. ThreadInv(t)'
  BY <1>2 DEF ThreadInv, LockInv, SearchInv, AbsentInv, LinkInv, FindInv, Inside, Linking
<1>8. InsertAssertHolds'
  BY <1>1, <1>2, OthersKept DEF InsertAssertHolds
<1>9. Inserting(t) /\ ~Inserting(t)'
  BY <1>2, <1>3 DEF Inserting, Inside, Linking
<1>10. QED
  BY <1>2, <1>3, <1>5, <1>6, <1>7, <1>8, <1>9 DEF SkipListInv

-----------------------------------------------------------------------------
(* The invariant is inductive.                                             *)

LEMMA InvInit == Init => SkipListInv
<1> SUFFICES ASSUME Init PROVE SkipListInv
  OBVIOUS
<1> USE KeysAssumption, LevelAssumption, NodeAssumption, ThreadAssumption
<1>1. TypeOK
  BY DEF Init, TypeOK, Levels, Place, Link, NoLinks
<1>2. Allocated = {} /\ \A i \in Levels : Linked(i) = {} /\ next[Head][i] = Nil
  BY DEF Init, Allocated, Linked, Levels, Place, NoLinks
<1>3. ShapeInv /\ LevelsSorted /\ LevelsComplete /\ KeysUnique
  <2>1. ShapeInv
    BY <1>2 DEF Init, ShapeInv, NoLinks
  <2>2. QED
    BY <1>2, <2>1 DEF LevelsSorted, LevelsComplete, KeysUnique
<1>4. (\A t \in Threads : ThreadInv(t)) /\ InsertAssertHolds
  BY DEF Init, ThreadInv, LockInv, SearchInv, AbsentInv, LinkInv, FindInv, Inside, Linking,
         InsertAssertHolds
<1>5. QED
  BY <1>1, <1>3, <1>4 DEF SkipListInv

LEMMA InvQuiet ==
    ASSUME SkipListInv, NEW t \in Threads, Quiet(t), TypeOK'
    PROVE  SkipListInv'
<1>1. /\ TypeOK /\ ShapeInv /\ LevelsSorted /\ LevelsComplete /\ KeysUnique
      /\ \A u \in Threads : ThreadInv(u)
      /\ InsertAssertHolds
  BY DEF SkipListInv
<1>2. /\ Step(t) /\ key' = key /\ height' = height /\ next' = next /\ maxLevel' = maxLevel
      /\ \A i \in Levels : Linked(i)' = Linked(i)
  BY <1>1, QuietKeeps, QuietLinked
<1>3. ShapeInv' /\ LevelsSorted' /\ LevelsComplete' /\ KeysUnique'
  BY <1>1, <1>2, ListKept
<1>4. ThreadInv(t)'
  BY <1>1, QuietSelf
<1>5. ASSUME NEW u \in Threads, u # t PROVE ThreadInv(u)'
  <2>1. pc[u] \in Inside => lock' = lock
    <3>1. CASE pc[t] \in Inside
      BY <1>1, <1>5, <3>1, OneWriter
    <3>2. CASE InsertLock(t)
      BY <1>1, <1>5, <3>2, ThreadAssumption DEF InsertLock, ThreadInv, LockInv
    <3>3. CASE pc[t] \notin Inside /\ ~InsertLock(t)
      BY <3>3 DEF Quiet, Inside, Linking, Call, InsertCall, FindCall, SeekCall, Begin,
                  InsertForward, InsertDown, InsertFound, InsertAbsent, ContainsForward,
                  ContainsDown, ContainsEnd, FindStep, FindForward, FindDown, FindReturn,
                  SeekReturn, SeekAbort, IterNext, DropIter, MoveForward, shared
    <3>4. QED
      BY <3>1, <3>2, <3>3
  <2>2. QED
    BY <1>1, <1>2, <1>5, <2>1, OthersKept, ThreadKept
<1>6. InsertAssertHolds'
  <2>1. op'[t] = "insert" => pc'[t] # "abort"
    <3>1. CASE ContainsEnd(t)
      <4>1. pc[t] = "contains" /\ WalkInv(t) /\ \A n \in Allocated : key[n] # arg[t]
        BY <1>1, <3>1 DEF ContainsEnd, ThreadInv, AbsentInv
      <4>2. \A u \in Threads : pc[u] \notin Linking
        <5>1. \A u \in Threads : u # t => pc[u] \notin Inside
          BY <1>1, <4>1, OneWriter DEF Inside
        <5>2. QED
          BY <4>1, <5>1 DEF Inside, Linking
      <4>3. ~AheadIsEqual(t)
        BY <1>1, <4>1, <4>2, WalkAhead DEF WalkInv, AheadIsEqual
      <4>4. QED
        BY <1>1, <3>1, <4>3 DEF ContainsEnd, TypeOK
    <3>2. CASE FindStep(t)
      BY <1>1, <3>2 DEF TypeOK, FindStep, FindForward, FindDown, FindReturn, SeekReturn,
                        SeekAbort, MoveForward, ReturnIter, FindEnds, shared
    <3>3. CASE ~ContainsEnd(t) /\ ~FindStep(t)
      BY <1>1, <3>3 DEF TypeOK, Quiet, Call, InsertCall, FindCall, SeekCall, Begin, InsertLock,
                        InsertForward, InsertDown, InsertFound, InsertAbsent, ContainsForward,
                        ContainsDown, IterNext, DropIter, MoveForward, ReturnIter, shared
    <3>4. QED
      BY <3>1, <3>2, <3>3
  <2>2. QED
    BY <1>1, <1>2, <2>1, OthersKept DEF InsertAssertHolds
<1>7. QED
  BY <1>3, <1>4, <1>5, <1>6 DEF SkipListInv

\* Every step is quiet or one of the four that add a node or a link.
LEMMA StepCases ==
    ASSUME NEW t \in Threads, Step(t)
    PROVE  \/ Quiet(t) \/ LinkNew(t) \/ LinkPrev(t) \/ LinkLast(t)
           \/ \E n \in Node, h \in 1 .. MaxLevel : InsertNode(t, n, h)
BY DEF Step, Quiet, InsertStep

LEMMA InvStep ==
    ASSUME SkipListInv, NEW t \in Threads, Step(t)
    PROVE  SkipListInv'
<1>1. TypeOK /\ ThreadInv(t)
  BY DEF SkipListInv
<1>2. TypeOK'
  <2>1. pc[t] = "linkNew" => new[t] \in Node /\ prev[t][lvl[t]] \in Place
    <3>1. ASSUME pc[t] = "linkNew" PROVE lvl[t] \in 0 .. lvl[t] /\ GoodPrev(t, lvl[t])
      BY <1>1, <3>1 DEF TypeOK, Levels, ThreadInv, LinkInv, Linking
    <3>2. QED
      BY <1>1, <3>1 DEF ThreadInv, LinkInv, Linking, GoodPrev, Linked, Allocated, Place
  <2>2. QED
    BY <1>1, <2>1, TypeStep
<1>3. CASE Quiet(t)
  BY <1>2, <1>3, InvQuiet
<1>4. CASE LinkNew(t)
  BY <1>2, <1>4, LinkNewStep
<1>5. CASE LinkPrev(t)
  BY <1>2, <1>5, LinkPrevStep
<1>6. CASE LinkLast(t)
  BY <1>2, <1>6, LinkLastStep
<1>7. ASSUME NEW n \in Node, NEW h \in 1 .. MaxLevel, InsertNode(t, n, h) PROVE SkipListInv'
  BY <1>2, <1>7, NodeStep
<1>8. QED
  BY <1>3, <1>4, <1>5, <1>6, <1>7, StepCases

LEMMA InvNext == SkipListInv /\ [Next]_vars => SkipListInv'
<1> SUFFICES ASSUME SkipListInv, [Next]_vars PROVE SkipListInv'
  OBVIOUS
<1>1. CASE Next
  BY <1>1, InvStep DEF Next
<1>2. CASE UNCHANGED vars
  <2>1. /\ TypeOK /\ ShapeInv /\ LevelsSorted /\ LevelsComplete /\ KeysUnique
        /\ \A t \in Threads : ThreadInv(t)
        /\ InsertAssertHolds
    BY DEF SkipListInv
  <2>2. \A i \in Levels : Linked(i)' = Linked(i)
    BY <1>2 DEF Linked, Allocated, vars
  <2>3. TypeOK' /\ InsertAssertHolds'
    BY <1>2, <2>1 DEF TypeOK, InsertAssertHolds, vars
  <2>4. ShapeInv' /\ LevelsSorted' /\ LevelsComplete' /\ KeysUnique'
    BY <1>2, <2>1, <2>2, ListKept DEF vars
  <2>5. ASSUME NEW t \in Threads PROVE ThreadInv(t)'
    BY <1>2, <2>1, <2>2, ThreadKept DEF vars
  <2>6. QED
    BY <2>3, <2>4, <2>5 DEF SkipListInv
<1>3. QED
  BY <1>1, <1>2

\* The inductive invariant holds in every reachable state, for any number of
\* threads, keys, nodes and levels.
THEOREM Invariant == Spec => []SkipListInv
BY InvInit, InvNext, PTL DEF Spec

\* Every value the code stores has its type.
THEOREM TypeCorrect == Spec => []TypeOK
<1>1. SkipListInv => TypeOK
  BY DEF SkipListInv
<1>2. QED
  BY <1>1, Invariant, PTL

\* Every level is sorted, whatever writers and readers do at once.
THEOREM AlwaysSorted == Spec => []LevelsSorted
<1>1. SkipListInv => LevelsSorted
  BY DEF SkipListInv
<1>2. QED
  BY <1>1, Invariant, PTL

\* No level ever loses a node or jumps over one.
THEOREM NothingLost == Spec => []LevelsComplete
<1>1. SkipListInv => LevelsComplete
  BY DEF SkipListInv
<1>2. QED
  BY <1>1, Invariant, PTL

\* No key is ever inserted twice.
THEOREM NoDuplicates == Spec => []KeysUnique
<1>1. SkipListInv => KeysUnique
  BY DEF SkipListInv
<1>2. QED
  BY <1>1, Invariant, PTL

\* assert(!Contains(key)) never fails.
THEOREM AssertionHolds == Spec => []InsertAssertHolds
<1>1. SkipListInv => InsertAssertHolds
  BY DEF SkipListInv
<1>2. QED
  BY <1>1, Invariant, PTL

\* No search, and no link, reads past the end of a node's next_.
THEOREM InBounds == Spec => []ReadsInBounds
<1>1. SkipListInv => ReadsInBounds
  <2> SUFFICES ASSUME SkipListInv, NEW t \in Threads
               PROVE  /\ pc[t] \in {"search", "contains", "find"} /\ cur[t] # Head =>
                           cur[t] \in Allocated /\ lvl[t] < height[cur[t]]
                      /\ pc[t] \in Linking =>
                           \A i \in 0 .. lvl[t] :
                              /\ prev[t][i] # Nil
                              /\ prev[t][i] # Head => i < height[prev[t][i]]
    BY DEF ReadsInBounds
  <2>1. ThreadInv(t)
    BY DEF SkipListInv
  <2>2. pc[t] \in {"search", "contains"} => cur[t] \in Linked(lvl[t]) \cup {Head}
    BY <2>1 DEF ThreadInv, SearchInv, AbsentInv, WalkInv
  <2>3. pc[t] \in Linking => \A i \in 0 .. lvl[t] : prev[t][i] \in Linked(i) \cup {Head}
    BY <2>1 DEF ThreadInv, LinkInv, GoodPrev
  <2>4. QED
    BY <2>1, <2>2, <2>3, NodeAssumption DEF ThreadInv, FindInv, Linked, Allocated
<1>2. QED
  BY <1>1, Invariant, PTL

-----------------------------------------------------------------------------
(* Steps: links only tighten, and Insert is one atomic step of KeySet.     *)

\* A link of a linked node is never cleared and only moves to a smaller key.
THEOREM Tightening == Spec => LinksTighten
<1>1. SkipListInv /\ [Next]_vars =>
        [\A i \in Levels : \A p \in Linked(i) \cup {Head} :
            next[p][i] # Nil => /\ next'[p][i] # Nil
                                /\ key'[next'[p][i]] <= key[next[p][i]]]_vars
  <2> SUFFICES ASSUME SkipListInv, NEW t \in Threads, Step(t),
                      NEW i \in Levels, NEW p \in Linked(i) \cup {Head}, next[p][i] # Nil
               PROVE  next'[p][i] # Nil /\ key'[next'[p][i]] <= key[next[p][i]]
    BY DEF Next
  <2>0. TypeOK /\ LevelsSorted /\ SkipListInv'
    BY InvStep DEF SkipListInv
  <2>1. next[p][i] \in Linked(i) /\ key[next[p][i]] \in Int
    BY <2>0, KeysAssumption DEF LevelsSorted, Linked, Allocated, TypeOK
  <2>2. CASE Quiet(t)
    BY <2>0, <2>1, <2>2, QuietKeeps
  <2>3. CASE LinkNew(t)
    BY <2>0, <2>1, <2>3, LinkNewStep DEF SkipListInv
  <2>4. CASE LinkPrev(t) \/ LinkLast(t)
    <3>1. /\ pc[t] = "linkPrev" /\ key' = key
          /\ next' = [next EXCEPT ![prev[t][lvl[t]]][lvl[t]] = new[t]]
      BY <2>4 DEF LinkPrev, LinkLast
    <3>2. /\ lvl[t] \in Levels /\ lvl[t] \in 0 .. lvl[t] /\ GoodPrev(t, lvl[t])
          /\ new[t] \in Allocated /\ key[new[t]] = arg[t]
      BY <2>0, <3>1, LinkFacts DEF Linking, TypeOK, Levels
    <3>3. prev[t][lvl[t]] \in Place /\ p \in Place
      BY <3>2 DEF GoodPrev, Linked, Allocated, Place
    <3>4. CASE p = prev[t][lvl[t]] /\ i = lvl[t]
      <4>1. next'[p][i] = new[t]
        BY <2>0, <3>1, <3>2, <3>3, <3>4 DEF TypeOK
      <4>2. arg[t] <= key[next[p][i]]
        BY <3>2, <3>4 DEF GoodPrev
      <4>3. QED
        BY <3>1, <3>2, <4>1, <4>2, NodeAssumption DEF Allocated
    <3>5. CASE ~(p = prev[t][lvl[t]] /\ i = lvl[t])
      <4>1. next'[p][i] = next[p][i]
        BY <2>0, <3>1, <3>2, <3>3, <3>5 DEF TypeOK
      <4>2. QED
        BY <2>1, <3>1, <4>1
    <3>6. QED
      BY <3>4, <3>5
  <2>5. ASSUME NEW n \in Node, NEW h \in 1 .. MaxLevel, InsertNode(t, n, h)
        PROVE  next'[p][i] # Nil /\ key'[next'[p][i]] <= key[next[p][i]]
    BY <2>0, <2>1, <2>5, NodeStep DEF SkipListInv
  <2>6. QED
    BY <2>2, <2>3, <2>4, <2>5, StepCases
<1>2. QED
  BY <1>1, Invariant, PTL DEF Spec, LinksTighten

\* Insert takes effect at one instant: the list implements KeySet.
THEOREM Atomicity == Spec => InsertIsAtomic
<1> DEFINE set == {key[n] : n \in Linked(0)}
           req == [t \in Threads |-> IF Inserting(t) THEN arg[t] ELSE NoKey]
<1>1. Init => Abstract!SetInit
  BY DEF Init, Abstract!SetInit, Linked, Allocated, Inserting
<1>2. SkipListInv /\ [Next]_vars => [Abstract!SetNext]_(Abstract!setVars)
  <2> SUFFICES ASSUME SkipListInv, [Next]_vars
               PROVE  [Abstract!SetNext]_(Abstract!setVars)
    OBVIOUS
  <2> USE DEF Abstract!setVars
  <2>0. TypeOK /\ 0 \in Levels
    BY LevelAssumption DEF SkipListInv, Levels
  <2>1. CASE UNCHANGED vars
    BY <2>1 DEF vars, Linked, Allocated, Inserting
  <2>2. ASSUME NEW t \in Threads, Step(t) PROVE [Abstract!SetNext]_(Abstract!setVars)
    <3>1. \A u \in Threads : u # t => Inserting(u)' = Inserting(u) /\ arg'[u] = arg[u]
      BY <2>0, <2>2, OthersKept DEF Inserting
    <3>2. ThreadInv(t)
      BY DEF SkipListInv
    <3>3. ASSUME set' = set, Inserting(t)' <=> Inserting(t), Inserting(t) => arg'[t] = arg[t]
          PROVE  UNCHANGED <<set, req>>
      BY <3>1, <3>3
    <3>4. ASSUME Inserting(t), ~Inserting(t)', arg[t] \in Keys, set' = set \cup {arg[t]}
          PROVE  Abstract!SetReturn(t)
      <4>1. req[t] # NoKey /\ req' = [req EXCEPT ![t] = NoKey] /\ req[t] = arg[t]
        BY <3>1, <3>4, KeysAssumption
      <4>2. QED
        BY <3>4, <4>1 DEF Abstract!SetReturn
    <3>5. CASE Quiet(t)
      <4>1. set' = set
        BY <2>0, <3>5, QuietKeeps, QuietLinked
      <4>2. ASSUME NEW k \in Keys, InsertCall(t, k) PROVE Abstract!SetCall(t, k)
        <5>1. ~Inserting(t) /\ Inserting(t)' /\ arg'[t] = k
          BY <2>0, <4>2 DEF InsertCall, Inserting, TypeOK, Inside, Linking
        <5>2. QED
          BY <3>1, <4>1, <5>1 DEF Abstract!SetCall
      <4>3. CASE InsertFound(t)
        <5>1. Inserting(t) /\ ~Inserting(t)' /\ arg[t] \in Keys
          BY <2>0, <3>2, <4>3 DEF InsertFound, ReturnIter, Inserting, TypeOK, ThreadInv, LockInv,
                                  Inside, Linking
        <5>2. arg[t] \in set
          <6>1. /\ pc[t] = "search" /\ lvl[t] = 0 /\ AheadIsEqual(t)
                /\ cur[t] \in Linked(0) \cup {Head}
            BY <3>2, <4>3 DEF InsertFound, ThreadInv, SearchInv, WalkInv
          <6>2. Ahead(t) \in Linked(0) /\ key[Ahead(t)] = arg[t]
            BY <2>0, <6>1 DEF SkipListInv, LevelsSorted, Ahead, AheadIsEqual
          <6>3. QED
            BY <6>2
        <5>3. QED
          BY <3>4, <4>1, <5>1, <5>2 DEF Abstract!SetNext
      <4>4. CASE ContainsEnd(t)
        <5>1. pc'[t] \in {"height", "abort"} /\ op' = op /\ arg' = arg /\ pc[t] = "contains"
          BY <2>0, <4>4 DEF ContainsEnd, TypeOK, shared
        <5>2. op[t] = "insert"
          BY <3>2, <5>1 DEF ThreadInv, LockInv, Inside
        <5>3. pc'[t] # "abort"
          BY <2>2, <5>1, <5>2, InvStep DEF SkipListInv, InsertAssertHolds
        <5>4. QED
          BY <3>3, <4>1, <5>1, <5>3 DEF Inserting, Inside
      <4>5. CASE InsertLock(t) \/ InsertForward(t) \/ InsertDown(t) \/ InsertAbsent(t)
                 \/ ContainsForward(t) \/ ContainsDown(t)
        <5>1. /\ Inserting(t)' <=> Inserting(t)
              /\ arg' = arg
          BY <2>0, <4>5 DEF InsertLock, InsertForward, InsertDown, InsertAbsent, ContainsForward,
                            ContainsDown, MoveForward, Inserting, TypeOK, Inside, Linking, shared
        <5>2. QED
          BY <3>3, <4>1, <5>1
      <4>6. CASE FindStep(t) \/ IterNext(t) \/ DropIter(t)
        <5>1. ~Inserting(t) /\ ~Inserting(t)'
          BY <2>0, <4>6 DEF FindStep, FindForward, FindDown, FindReturn, SeekReturn, SeekAbort,
                            FindEnds, MoveForward, ReturnIter, IterNext, DropIter,
                            Inserting, TypeOK, Inside, Linking, shared
        <5>2. QED
          BY <3>3, <4>1, <5>1
      <4>7. ASSUME NEW k \in Keys, FindCall(t, k) \/ SeekCall(t, k)
            PROVE  [Abstract!SetNext]_(Abstract!setVars)
        <5>1. ~Inserting(t) /\ ~Inserting(t)'
          BY <2>0, <4>7 DEF FindCall, SeekCall, Inserting, TypeOK, Inside, Linking
        <5>2. QED
          BY <3>3, <4>1, <5>1
      <4>8. CASE Begin(t)
        <5>1. ~Inserting(t) /\ ~Inserting(t)'
          BY <2>0, <4>8 DEF Begin, ReturnIter, Inserting, TypeOK, Inside, Linking
        <5>2. QED
          BY <3>3, <4>1, <5>1
      <4>9. QED
        BY <3>5, <4>2, <4>3, <4>4, <4>5, <4>6, <4>7, <4>8 DEF Quiet, Call, Abstract!SetNext
    <3>6. CASE LinkNew(t)
      BY <2>0, <2>2, <3>3, <3>6, InvStep, LinkNewStep DEF SkipListInv
    <3>7. CASE LinkPrev(t)
      BY <2>0, <2>2, <3>3, <3>7, InvStep, LinkPrevStep DEF SkipListInv
    <3>8. CASE LinkLast(t)
      <4>1. /\ Linked(0)' = Linked(0) \cup {new[t]}
            /\ key' = key /\ key[new[t]] = arg[t] /\ arg[t] \in Keys
            /\ Inserting(t) /\ ~Inserting(t)' /\ arg' = arg
        BY <2>2, <3>8, InvStep, LinkLastStep DEF SkipListInv
      <4>2. set' = set \cup {arg[t]}
        BY <4>1
      <4>3. QED
        BY <3>4, <4>1, <4>2 DEF Abstract!SetNext
    <3>9. ASSUME NEW n \in Node, NEW h \in 1 .. MaxLevel, InsertNode(t, n, h)
          PROVE  [Abstract!SetNext]_(Abstract!setVars)
      <4>1. /\ Linked(0)' = Linked(0) /\ \A m \in Linked(0) : key'[m] = key[m]
            /\ Inserting(t) /\ Inserting(t)' /\ arg' = arg
        BY <2>0, <2>2, <3>9, InvStep, NodeStep DEF SkipListInv
      <4>2. set' = set
        BY <4>1
      <4>3. QED
        BY <3>3, <4>1, <4>2
    <3>10. QED
      BY <2>2, <3>5, <3>6, <3>7, <3>8, <3>9, StepCases
  <2>3. QED
    BY <2>1, <2>2 DEF Next, Abstract!SetNext
<1>3. QED
  BY <1>1, <1>2, Invariant, PTL DEF Spec, InsertIsAtomic, Abstract!SetSpec

-----------------------------------------------------------------------------
(* What readers see (SkipListReads): keys stay, a Find that no writer      *)
(* overlaps walks as a writer's search does, and level 0 leads an iterator *)
(* on a linked node to the next linked node.                               *)

\* Whatever a step does, the nodes of level 0 and all keys stay; if it is not
\* quiet then a writer is linking before it or after it.
LEMMA StepGrows ==
    ASSUME SkipListInv, NEW t \in Threads, Step(t)
    PROVE  /\ Linked(0) \subseteq Linked(0)'
           /\ \A n \in Allocated : n \in Allocated' /\ key'[n] = key[n]
           /\ Quiet(t) \/ WriterLinks \/ WriterLinks'
<1>1. TypeOK /\ TypeOK' /\ 0 \in Levels
  BY InvStep, LevelAssumption DEF SkipListInv, Levels
<1>2. CASE Quiet(t)
  BY <1>1, <1>2, QuietKeeps, QuietLinked DEF Allocated
<1>3. CASE LinkNew(t)
  <2>1. Linked(0)' = Linked(0) /\ key' = key
    BY <1>1, <1>3, LinkNewStep
  <2>2. pc[t] \in Linking
    BY <1>3 DEF LinkNew, Linking
  <2>3. QED
    BY <2>1, <2>2 DEF WriterLinks, Allocated
<1>4. CASE LinkPrev(t)
  <2>1. Linked(0)' = Linked(0) /\ key' = key
    BY <1>1, <1>4, LinkPrevStep
  <2>2. pc[t] \in Linking
    BY <1>4 DEF LinkPrev, Linking
  <2>3. QED
    BY <2>1, <2>2 DEF WriterLinks, Allocated
<1>5. CASE LinkLast(t)
  <2>1. Linked(0)' = Linked(0) \cup {new[t]} /\ key' = key
    BY <1>1, <1>5, LinkLastStep
  <2>2. pc[t] \in Linking
    BY <1>5 DEF LinkLast, Linking
  <2>3. QED
    BY <2>1, <2>2 DEF WriterLinks, Allocated
<1>6. ASSUME NEW n \in Node, NEW h \in 1 .. MaxLevel, InsertNode(t, n, h)
      PROVE  /\ Linked(0)' = Linked(0) /\ WriterLinks'
             /\ \A m \in Allocated : m \in Allocated' /\ key'[m] = key[m]
  <2>1. Linked(0)' = Linked(0)
    BY <1>1, <1>6, NodeStep
  <2>2. pc'[t] \in Linking /\ key[n] = NoKey /\ key' = [key EXCEPT ![n] = arg[t]]
    BY <1>1, <1>6 DEF InsertNode, Linking, TypeOK
  <2>3. QED
    BY <1>1, <2>1, <2>2 DEF WriterLinks, Allocated, TypeOK
<1>7. QED
  BY <1>2, <1>3, <1>4, <1>5, <1>6, StepCases

LEMMA PresentGrows ==
    ASSUME SkipListInv, NEW t \in Threads, Step(t)
    PROVE  Present \subseteq Present'
<1>1. ASSUME NEW n \in Linked(0) PROVE n \in Linked(0)' /\ key'[n] = key[n]
  BY StepGrows DEF Linked
<1>2. QED
  BY <1>1 DEF Present

\* A step gives the lock to nobody else, and its thread has it only inside Insert.
LEMMA LockStep ==
    ASSUME SkipListInv, NEW t \in Threads, Step(t),
           lock = t => pc[t] \in Inside \cup {"abort"}
    PROVE  /\ \A u \in Threads : u # t /\ lock' = u => lock = u
           /\ lock' = t => pc'[t] \in Inside \cup {"abort"}
<1>1. TypeOK
  BY DEF SkipListInv
<1> USE ThreadAssumption DEF TypeOK, shared, Inside, Linking
<1>2. CASE Call(t)
  BY <1>1, <1>2 DEF Call, InsertCall, FindCall, SeekCall, Begin, StartWalk, ReturnIter
<1>3. CASE InsertLock(t)
  BY <1>1, <1>3 DEF InsertLock, StartWalk
<1>4. CASE InsertForward(t) \/ ContainsForward(t) \/ FindForward(t)
  BY <1>1, <1>4 DEF InsertForward, ContainsForward, FindForward, MoveForward
<1>5. CASE InsertDown(t) \/ ContainsDown(t) \/ FindDown(t)
  BY <1>1, <1>5 DEF InsertDown, ContainsDown, FindDown, MoveDown
<1>6. CASE InsertFound(t)
  BY <1>1, <1>6 DEF InsertFound, ReturnIter
<1>7. CASE InsertAbsent(t)
  BY <1>1, <1>7 DEF InsertAbsent, StartWalk
<1>8. CASE ContainsEnd(t)
  BY <1>1, <1>8 DEF ContainsEnd
<1>9. ASSUME NEW n \in Node, NEW h \in 1 .. MaxLevel, InsertNode(t, n, h)
      PROVE  lock' = lock /\ pc'[t] \in Inside
  BY <1>1, <1>9 DEF InsertNode
<1>10. CASE LinkNew(t) \/ LinkPrev(t)
  BY <1>1, <1>10 DEF LinkNew, LinkPrev
<1>11. CASE LinkLast(t)
  BY <1>1, <1>11 DEF LinkLast, ReturnIter
<1>12. CASE FindReturn(t) \/ SeekReturn(t)
  BY <1>1, <1>12 DEF FindReturn, SeekReturn, ReturnIter, FindEnds
<1>13. CASE SeekAbort(t) \/ IterNext(t) \/ DropIter(t)
  BY <1>1, <1>13 DEF SeekAbort, IterNext, DropIter, FindEnds
<1>14. QED
  BY <1>2, <1>3, <1>4, <1>5, <1>6, <1>7, <1>8, <1>9, <1>10, <1>11, <1>12, <1>13
     DEF Step, InsertStep, FindStep

\* What the history variables of a thread become.
LEMMA Watched ==
    ASSUME Watch, NEW u \in Threads
    PROVE  /\ seen'[u] \in {{}, Present', seen[u]}
           /\ (pc'[u] # "idle" /\ ~ReadBegins(u)) =>
                 seen'[u] = seen[u] /\ shown'[u] = shown[u] \cup Shows(u)
           /\ (pc'[u] # "idle" /\ ReadBegins(u)) =>
                 seen'[u] = Present' /\ shown'[u] = Shows(u)
           /\ raced'[u] <=> /\ pc'[u] # "idle"
                            /\ \/ pc'[u] = "find" /\ WriterLinks'
                               \/ raced[u] /\ ~ReadBegins(u)
BY DEF Watch

ReadInv(t) ==
    /\ lock = t => pc[t] \in Inside \cup {"abort"}
    /\ SeenInv(t) /\ QuietWalk(t) /\ IterInv(t)

\* A thread that stands still: the list grows around its iterator, and its Find is
\* either overlapped or walks a list that does not change.
LEMMA ReadsOther ==
    ASSUME SkipListInv, ReadsTypeOK, NEW t \in Threads, Step(t), Watch,
           NEW u \in Threads, u # t, ReadInv(u), lock' = u => lock = u
    PROVE  ReadInv(u)'
<1>1. TypeOK /\ 0 \in Levels /\ TypeOK'
  BY InvStep, LevelAssumption DEF SkipListInv, Levels
<1>2. /\ pc'[u] = pc[u] /\ op'[u] = op[u] /\ arg'[u] = arg[u] /\ cur'[u] = cur[u]
      /\ lvl'[u] = lvl[u] /\ iter'[u] = iter[u]
  BY <1>1, OthersKept
<1>3. ~ReadBegins(u)
  BY <1>2 DEF ReadBegins, ReadInv, Inside, Linking
<1>4. /\ Linked(0) \subseteq Linked(0)'
      /\ \A n \in Allocated : n \in Allocated' /\ key'[n] = key[n]
      /\ Quiet(t) \/ WriterLinks \/ WriterLinks'
      /\ Present \subseteq Present'
  BY StepGrows, PresentGrows
<1>5. SeenInv(u)'
  BY <1>4, Watched DEF SeenInv, ReadInv
<1>6. /\ pc[u] # "idle" => seen'[u] = seen[u] /\ shown'[u] = shown[u] \cup Shows(u)
      /\ raced'[u] <=> /\ pc[u] # "idle"
                       /\ \/ pc[u] = "find" /\ WriterLinks'
                          \/ raced[u]
  BY <1>2, <1>3, Watched
<1>7. QuietWalk(u)'
  <2> SUFFICES ASSUME pc[u] = "find"
               PROVE  /\ shown'[u] = {}
                      /\ ~raced'[u] => (~WriterLinks' /\ WalkInv(u)')
    BY <1>2 DEF QuietWalk
  <2>1. shown'[u] = {}
    BY <1>2, <1>6 DEF Shows, ReadInv, QuietWalk
  <2>2. ASSUME ~raced'[u] PROVE ~WriterLinks' /\ WalkInv(u)'
    <3>1. ~WriterLinks' /\ ~raced[u]
      BY <1>6, <2>2
    <3>2. ~WriterLinks /\ WalkInv(u)
      BY <3>1 DEF ReadInv, QuietWalk
    <3>3. Quiet(t) /\ lvl[u] \in Levels
      BY <1>1, <1>4, <3>1, <3>2 DEF TypeOK
    <3>4. /\ \A i \in Levels : Linked(i)' = Linked(i)
          /\ key' = key /\ maxLevel' = maxLevel
      BY <1>1, <3>3, QuietKeeps, QuietLinked
    <3>5. WalkInv(u)'
      BY <1>2, <3>2, <3>3, <3>4 DEF WalkInv, Before
    <3>6. QED
      BY <3>1, <3>5
  <2>3. QED
    BY <2>1, <2>2
<1>8. IterInv(u)'
  <2> SUFFICES ASSUME pc[u] = "iter" PROVE IterInv(u)'
    BY <1>2 DEF IterInv
  <2>1. IterInv(u)!2
    BY DEF ReadInv, IterInv
  <2>2. iter[u] # Nil => /\ iter[u] \in Allocated /\ key[iter[u]] \in shown[u]
                         /\ iter[u] \in Allocated' /\ key'[iter[u]] = key[iter[u]]
    BY <1>4, <2>1
  <2>3. shown'[u] = shown[u] /\ seen'[u] = seen[u] /\ (raced'[u] <=> raced[u])
    BY <1>2, <1>6, <2>2 DEF Shows
  <2>4. Trusted(u)' <=> Trusted(u)
    BY <1>2, <2>3 DEF Trusted
  <2>5. Passed(u)' = Passed(u)
    BY <1>2, <2>2, <2>3 DEF Passed
  <2>6. Missed(u)' <=> Missed(u)
    BY <1>2, <2>3 DEF Missed
  <2>7. QED
    BY <1>2, <1>4, <2>1, <2>2, <2>3, <2>4, <2>5, <2>6 DEF IterInv
<1>9. QED
  BY <1>2, <1>5, <1>7, <1>8 DEF ReadInv

\* A Find begins, or takes a step: it stands before its key on its level unless
\* a writer has been linking meanwhile.
LEMMA FindStands ==
    ASSUME SkipListInv, ReadsTypeOK, NEW t \in Threads, Step(t), Watch, ReadInv(t),
           pc'[t] = "find"
    PROVE  QuietWalk(t)'
<1>1. TypeOK /\ ShapeInv /\ LevelsSorted /\ ThreadInv(t)
  BY DEF SkipListInv
<1>2. \/ \E k \in Keys : FindCall(t, k) \/ SeekCall(t, k)
      \/ FindForward(t) \/ FindDown(t)
  BY <1>1 DEF Step, Call, InsertCall, Begin, InsertLock, InsertStep, FindStep,
              InsertForward, InsertDown, InsertFound, InsertAbsent, ContainsForward,
              ContainsDown, ContainsEnd, InsertNode, LinkNew, LinkPrev, LinkLast,
              FindReturn, SeekReturn, SeekAbort, IterNext, DropIter, FindEnds,
              MoveForward, ReturnIter, TypeOK, shared
<1>3. Quiet(t)
  BY <1>2 DEF Quiet, Call, FindStep
<1>4. /\ \A i \in Levels : Linked(i)' = Linked(i)
      /\ key' = key /\ maxLevel' = maxLevel
  BY <1>1, <1>3, QuietKeeps, QuietLinked
<1>5. lvl[t] \in Levels /\ lvl'[t] \in Levels /\ maxLevel \in 1 .. MaxLevel
  BY InvStep DEF SkipListInv, TypeOK
<1>6. CASE \E k \in Keys : FindCall(t, k) \/ SeekCall(t, k)
  <2>1. ReadBegins(t) /\ cur'[t] = Head /\ lvl'[t] = maxLevel - 1
    BY <1>1, <1>6 DEF ReadBegins, FindCall, SeekCall, StartWalk, TypeOK
  <2>2. shown'[t] = {} /\ (raced'[t] <=> WriterLinks')
    BY <2>1, Watched DEF Shows
  <2>3. WalkInv(t)'
    BY <1>4, <1>5, <2>1 DEF WalkInv, Before
  <2>4. QED
    BY <2>2, <2>3 DEF QuietWalk
<1>7. CASE FindForward(t) \/ FindDown(t)
  <2>1. pc[t] = "find" /\ arg' = arg
    BY <1>7 DEF FindForward, FindDown, MoveForward, shared
  <2>2. ~ReadBegins(t)
    BY <2>1 DEF ReadBegins
  <2>3. shown'[t] = {} /\ (raced'[t] <=> WriterLinks' \/ raced[t])
    BY <2>1, <2>2, Watched DEF Shows, ReadInv, QuietWalk
  <2>4. ASSUME ~raced'[t] PROVE WalkInv(t)'
    <3>1. ~WriterLinks /\ WalkInv(t)
      BY <2>1, <2>3, <2>4 DEF ReadInv, QuietWalk
    <3>2. /\ Ahead(t) # Nil => Ahead(t) \in Linked(lvl[t]) /\ Ahead(t) \in Allocated
          /\ lvl[t] > 0 => /\ lvl[t] - 1 \in Levels
                           /\ cur[t] \in Linked(lvl[t] - 1) \cup {Head}
      BY <1>1, <3>1, WalkAhead DEF WriterLinks, WalkInv
    <3>3. CASE FindForward(t)
      <4>1. /\ cur'[t] = Ahead(t) /\ lvl' = lvl
            /\ Ahead(t) # Nil /\ key[Ahead(t)] < arg[t]
        BY <1>1, <3>3 DEF FindForward, MoveForward, AheadIsSmaller, TypeOK
      <4>2. QED
        BY <1>4, <1>5, <2>1, <3>1, <3>2, <4>1 DEF WalkInv, Before, Allocated
    <3>4. CASE FindDown(t)
      <4>1. cur' = cur /\ lvl[t] > 0 /\ lvl'[t] = lvl[t] - 1
        BY <1>1, <3>4 DEF FindDown, MoveDown, TypeOK
      <4>2. QED
        BY <1>4, <1>5, <2>1, <3>1, <3>2, <4>1 DEF WalkInv, Before, Levels
    <3>5. QED
      BY <1>7, <3>3, <3>4
  <2>5. QED
    BY <2>3, <2>4 DEF QuietWalk
<1>8. QED
  BY <1>2, <1>6, <1>7

\* While no node is half linked, what hangs on a level hangs on level 0.
LEMMA LinkedAtRest ==
    ASSUME SkipListInv, ~WriterLinks
    PROVE  /\ 0 \in Levels
           /\ \A i \in Levels : Linked(i) \subseteq Linked(0)
<1>1. 0 \in Levels
  BY LevelAssumption DEF Levels
<1>2. ASSUME NEW i \in Levels, NEW n \in Linked(i) PROVE n \in Linked(0)
  <2>1. n \in Allocated /\ i < height[n] /\ height[n] \in Int
    BY DEF Linked, SkipListInv, TypeOK, Allocated
  <2>2. QED
    BY <2>1 DEF Linked, WriterLinks, Levels
<1>3. QED
  BY <1>1, <1>2

\* A Find that no writer overlapped and that comes back without a node has read
\* the link of level 0 over its key.
LEMMA FindEndsAbsent ==
    ASSUME SkipListInv, NEW t \in Threads, FindEnds(t), Found(t) = Nil,
           ~WriterLinks, WalkInv(t)
    PROVE  arg[t] \notin Present
<1>1. /\ TypeOK /\ LevelsSorted /\ LevelsComplete /\ ThreadInv(t) /\ 0 \in Levels
  BY LinkedAtRest DEF SkipListInv
<1>2. lvl[t] = 0 /\ ~AheadIsSmaller(t) /\ ~AheadIsEqual(t) /\ arg[t] \in Int
  BY <1>1, KeysAssumption DEF FindEnds, Found, AheadIsEqual, ThreadInv, FindInv
<1>3. cur[t] \in Linked(0) \cup {Head} /\ Before(cur[t], arg[t])
  BY <1>2 DEF WalkInv
<1>4. SUFFICES ASSUME NEW m \in Linked(0), key[m] = arg[t] PROVE FALSE
  BY DEF Present
<1>5. Ahead(t) # Nil /\ key[Ahead(t)] <= arg[t]
  BY <1>1, <1>2, <1>3, <1>4 DEF LevelsComplete, Ahead
<1>6. key[Ahead(t)] \in Int
  BY <1>1, <1>2, <1>3, <1>5, KeysAssumption
     DEF LevelsSorted, Ahead, Linked, Allocated, TypeOK
<1>7. QED
  BY <1>2, <1>5, <1>6 DEF AheadIsSmaller, AheadIsEqual

\* Where an iterator stands when a call returns it, or after Next: on a node of
\* level 0 unless it comes from a Find or Seek that a writer overlapped.
LEMMA IterStands ==
    ASSUME SkipListInv, ReadsTypeOK, NEW t \in Threads, Step(t), Watch, ReadInv(t),
           pc'[t] = "iter"
    PROVE  IterInv(t)'
<1>1. /\ TypeOK /\ ShapeInv /\ LevelsSorted /\ LevelsComplete /\ ThreadInv(t)
      /\ 0 \in Levels /\ TypeOK' /\ LevelsSorted' /\ ShapeInv' /\ LevelsComplete'
  BY InvStep, LevelAssumption DEF SkipListInv, Levels
<1>2. \/ Begin(t) \/ InsertFound(t) \/ LinkLast(t)
      \/ FindReturn(t) \/ SeekReturn(t) \/ IterNext(t)
  BY <1>1 DEF Step, Call, InsertCall, FindCall, SeekCall, InsertLock, InsertStep, FindStep,
              InsertForward, InsertDown, InsertAbsent, ContainsForward,
              ContainsDown, ContainsEnd, InsertNode, LinkNew, LinkPrev,
              FindForward, FindDown, SeekAbort, DropIter, FindEnds,
              MoveForward, TypeOK, shared
<1>3. /\ Linked(0) \subseteq Linked(0)'
      /\ \A n \in Allocated : n \in Allocated' /\ key'[n] = key[n]
  BY StepGrows
<1>4. \A n \in Linked(0)' : n \in Allocated' /\ n # Nil /\ key'[n] \in Int
  BY <1>1, KeysAssumption, NodeAssumption DEF Linked, Allocated, TypeOK
<1>11. \A n \in Linked(0) : key[n] \in Int
  <2>1. key \in [Node -> Keys \cup {NoKey}]
    BY <1>1 DEF TypeOK
  <2>2. QED
    BY <2>1, KeysAssumption DEF Linked, Allocated
<1>5. Present' = {key'[n] : n \in Linked(0)'}
  BY DEF Present
<1>6. CASE Begin(t)
  <2>1. /\ Quiet(t) /\ op'[t] = "begin" /\ iter'[t] = next[Head][0] /\ ReadBegins(t)
        /\ key' = key /\ next' = next
    BY <1>1, <1>6 DEF Quiet, Call, Begin, ReturnIter, ReadBegins, TypeOK, shared
  <2>2. iter'[t] # Nil => iter'[t] \in Linked(0)'
    BY <1>1, <2>1 DEF LevelsSorted
  <2>3. /\ seen'[t] = Present'
        /\ shown'[t] = IF iter'[t] # Nil THEN {key'[iter'[t]]} ELSE {}
    BY <1>6, <2>1, Watched DEF Shows
  <2>4. ASSUME NEW m \in Linked(0)' PROVE iter'[t] # Nil /\ key'[iter'[t]] <= key'[m]
    BY <1>1, <2>1, <2>4 DEF LevelsComplete, Before
  <2>5. ASSUME iter'[t] # Nil PROVE Passed(t)' \subseteq shown'[t]
    <3>1. \A m \in Linked(0)' : key'[m] <= key'[iter'[t]] => key'[m] = key'[iter'[t]]
      BY <1>4, <2>2, <2>4, <2>5
    <3>2. QED
      BY <1>5, <2>3, <2>5, <3>1 DEF Passed
  <2>6. QED
    BY <1>4, <2>1, <2>2, <2>3, <2>5 DEF IterInv, Trusted, Missed
<1>7. CASE InsertFound(t) \/ LinkLast(t)
  <2>1. /\ lock = t /\ op[t] = "insert" /\ arg[t] \in Int /\ op' = op /\ arg' = arg
    <3>1. pc[t] \in Inside
      BY <1>7 DEF InsertFound, LinkLast, Inside, Linking
    <3>2. QED
      BY <1>1, <1>7, <3>1, KeysAssumption DEF InsertFound, LinkLast, ThreadInv, LockInv
  <2>2. ReadBegins(t)
    BY <2>1 DEF ReadBegins
  <2>3. iter'[t] \in Linked(0)' /\ key'[iter'[t]] = arg[t]
    <3>1. CASE InsertFound(t)
      <4>1. /\ cur[t] \in Linked(0) \cup {Head} /\ AheadIsEqual(t) /\ lvl[t] = 0
            /\ iter'[t] = Ahead(t) /\ key' = key
        BY <1>1, <3>1 DEF InsertFound, ReturnIter, ThreadInv, SearchInv, WalkInv, TypeOK
      <4>2. Ahead(t) \in Linked(0)
        BY <1>1, <4>1 DEF LevelsSorted, AheadIsEqual, Ahead
      <4>3. QED
        BY <1>3, <4>1, <4>2 DEF AheadIsEqual
    <3>2. CASE LinkLast(t)
      <4>1. Linked(0)' = Linked(0) \cup {new[t]} /\ key' = key /\ key[new[t]] = arg[t]
        BY <1>1, <3>2, LinkLastStep
      <4>2. iter'[t] = new[t]
        BY <1>1, <3>2 DEF LinkLast, ReturnIter, TypeOK
      <4>3. QED
        BY <4>1, <4>2
    <3>3. QED
      BY <1>7, <3>1, <3>2
  <2>4. seen'[t] = Present' /\ shown'[t] = {key'[iter'[t]]}
    BY <1>4, <2>2, <2>3, Watched DEF Shows
  <2>5. \A k \in Present' : k \in Int
    BY <1>4, <1>5
  <2>6. Passed(t)' \subseteq shown'[t]
    BY <1>4, <2>1, <2>3, <2>4, <2>5 DEF Passed
  <2>7. QED
    BY <1>4, <2>1, <2>3, <2>4, <2>6 DEF IterInv, Missed
<1>8. CASE FindReturn(t) \/ SeekReturn(t)
  <2>1. /\ pc[t] = "find" /\ FindEnds(t) /\ iter'[t] = Found(t)
        /\ op' = op /\ arg' = arg /\ key' = key
    BY <1>1, <1>8 DEF FindReturn, SeekReturn, FindEnds, ReturnIter, TypeOK, shared
  <2>2. ~ReadBegins(t)
    BY <2>1 DEF ReadBegins, ReadInv, Inside, Linking
  <2>3. /\ op[t] \in {"find", "seek"} /\ arg[t] \in Int
    BY <1>1, <2>1, KeysAssumption DEF ThreadInv, FindInv
  <2>4. /\ seen'[t] = seen[t] /\ (raced'[t] <=> raced[t])
        /\ shown'[t] = IF Found(t) # Nil THEN {key[Found(t)]} ELSE {}
    BY <2>1, <2>2, Watched DEF Shows, ReadInv, QuietWalk
  <2>5. CASE Found(t) = Nil
    <3>1. ASSUME ~raced[t] PROVE arg[t] \notin seen[t]
      BY <2>1, <2>5, <3>1, FindEndsAbsent DEF ReadInv, QuietWalk, SeenInv
    <3>2. QED
      BY <2>1, <2>4, <2>5, <3>1 DEF IterInv
  <2>6. CASE Found(t) # Nil
    <3>1. Found(t) = Ahead(t) /\ Ahead(t) # Nil /\ key[Ahead(t)] = arg[t]
      BY <2>6 DEF Found, AheadIsEqual
    <3>2. Ahead(t) \in Allocated
      BY <1>1, <3>1 DEF TypeOK, ShapeInv, Ahead
    <3>3. ASSUME Trusted(t)' PROVE Found(t) \in Linked(0)'
      <4>1. ~WriterLinks /\ WalkInv(t) /\ lvl[t] \in Levels
        BY <1>1, <2>1, <2>3, <2>4, <3>3 DEF Trusted, ReadInv, QuietWalk, TypeOK
      <4>2. Ahead(t) \in Linked(lvl[t])
        BY <1>1, <3>1, <4>1 DEF WalkInv, LevelsSorted, Ahead
      <4>3. QED
        BY <1>3, <3>1, <4>1, <4>2, LinkedAtRest
    <3>4. \A k \in seen[t] : k \in Int
      BY KeysAssumption DEF ReadsTypeOK
    <3>5. Passed(t)' \subseteq shown'[t]
      BY <2>1, <2>3, <2>4, <2>6, <3>1, <3>4 DEF Passed
    <3>6. shown'[t] # {} /\ ~Missed(t)'
      BY <2>4, <2>6 DEF Missed
    <3>7. iter'[t] \in Allocated' /\ key'[iter'[t]] \in shown'[t]
      BY <1>3, <2>1, <2>4, <2>6, <3>1, <3>2
    <3>8. QED
      BY <2>1, <3>3, <3>5, <3>6, <3>7 DEF IterInv
  <2>7. QED
    BY <2>5, <2>6
<1>9. CASE IterNext(t)
  <2>1. /\ pc[t] = "iter" /\ iter[t] # Nil /\ iter'[t] = next[iter[t]][0]
        /\ op' = op /\ arg' = arg /\ key' = key /\ next' = next
    BY <1>1, <1>9 DEF IterNext, TypeOK, shared
  <2>2. ~ReadBegins(t)
    BY <2>1 DEF ReadBegins, ReadInv, Inside, Linking
  <2>3. /\ seen'[t] = seen[t] /\ (raced'[t] <=> raced[t])
        /\ shown'[t] = shown[t] \cup (IF iter'[t] # Nil THEN {key[iter'[t]]} ELSE {})
    BY <1>9, <2>1, <2>2, Watched DEF Shows
  <2>4. iter[t] \in Allocated /\ key[iter[t]] \in shown[t]
    BY <2>1 DEF ReadInv, IterInv
  <2>5. iter'[t] # Nil => iter'[t] \in Allocated /\ iter'[t] \in Allocated'
    <3>1. iter[t] \in Place
      BY <2>4 DEF Allocated, Place
    <3>2. QED
      BY <1>1, <1>3, <2>1, <3>1 DEF ShapeInv
  <2>6. ASSUME Trusted(t)'
        PROVE  /\ iter'[t] # Nil => iter'[t] \in Linked(0)'
               /\ Passed(t)' \subseteq shown'[t]
    <3>1. Trusted(t)
      BY <2>1, <2>3, <2>6 DEF Trusted
    <3>2. iter[t] \in Linked(0) /\ Passed(t) \subseteq shown[t]
      BY <2>1, <2>4, <3>1 DEF ReadInv, IterInv
    <3>3. iter'[t] # Nil => iter'[t] \in Linked(0) /\ key[iter'[t]] \in Int
      <4>1. iter'[t] # Nil => iter'[t] \in Linked(0)
        BY <1>1, <2>1, <3>2 DEF LevelsSorted
      <4>2. QED
        BY <1>11, <4>1
    <3>4. ASSUME NEW k \in Passed(t)' PROVE k \in shown'[t]
      <4>1. /\ k \in seen[t] /\ k \in Int /\ key[iter[t]] \in Int
            /\ op[t] # "begin" => arg[t] <= k
            /\ iter'[t] # Nil => k <= key[iter'[t]]
        BY <1>1, <2>1, <2>3, <2>4, <3>4, KeysAssumption DEF Passed, ReadsTypeOK, Allocated, TypeOK
      <4>2. CASE k <= key[iter[t]]
        <5>1. k \in Passed(t)
          BY <4>1, <4>2 DEF Passed
        <5>2. QED
          BY <2>3, <3>2, <5>1
      <4>3. CASE key[iter[t]] < k
        <5>1. PICK m \in Linked(0) : key[m] = k
          BY <4>1 DEF ReadInv, SeenInv, Present
        <5>2. Before(iter[t], key[m])
          BY <2>4, <4>3, <5>1 DEF Before, Allocated
        <5>3. iter'[t] # Nil /\ key[iter'[t]] <= k
          BY <1>1, <2>1, <3>2, <5>1, <5>2 DEF LevelsComplete
        <5>4. k = key[iter'[t]]
          BY <3>3, <4>1, <5>3
        <5>5. QED
          BY <2>3, <5>3, <5>4
      <4>4. QED
        BY <4>1, <4>2, <4>3
    <3>5. QED
      BY <1>3, <3>3, <3>4
  <2>7. ~Missed(t)'
    BY <2>3, <2>4 DEF Missed
  <2>8. QED
    BY <2>1, <2>3, <2>5, <2>6, <2>7 DEF IterInv
<1>10. QED
  BY <1>2, <1>6, <1>7, <1>8, <1>9

LEMMA ReadsTypeStep ==
    ASSUME SkipListInv, ReadsTypeOK, NEW t \in Threads, Step(t), Watch,
           \A u \in Threads : ReadInv(u)
    PROVE  ReadsTypeOK'
<1>1. TypeOK' /\ SkipListInv'
  BY InvStep DEF SkipListInv
<1>2. Present' \subseteq Keys
  BY <1>1 DEF Present, Linked, Allocated, TypeOK
<1>3. ASSUME NEW u \in Threads, pc'[u] = "iter", iter'[u] # Nil
      PROVE  key'[iter'[u]] \in Keys
  <2>1. IterInv(u)'
    <3>1. CASE u = t
      BY <1>3, <3>1, IterStands
    <3>2. CASE u # t
      BY <3>2, ReadsOther, LockStep DEF ReadInv
    <3>3. QED
      BY <3>1, <3>2
  <2>2. QED
    BY <1>1, <1>3, <2>1 DEF IterInv, Allocated, TypeOK
<1>4. \A u \in Threads : Shows(u) \subseteq Keys
  BY <1>3 DEF Shows
<1>5. QED
  BY <1>2, <1>4 DEF Watch, ReadsTypeOK

LEMMA ReadsStep ==
    ASSUME ReadsInv, NEW t \in Threads, Step(t), Watch
    PROVE  ReadsInv'
<1>1. SkipListInv /\ ReadsTypeOK /\ \A u \in Threads : ReadInv(u)
  BY DEF ReadsInv, ReadInv
<1>2. SkipListInv' /\ ReadsTypeOK'
  BY <1>1, InvStep, ReadsTypeStep
<1>3. ASSUME NEW u \in Threads, u # t PROVE ReadInv(u)'
  BY <1>1, <1>3, ReadsOther, LockStep DEF ReadInv
<1>4. ReadInv(t)'
  <2>1. lock' = t => pc'[t] \in Inside \cup {"abort"}
    BY <1>1, LockStep DEF ReadInv
  <2>2. SeenInv(t)'
    BY <1>1, PresentGrows, Watched DEF SeenInv, ReadInv
  <2>3. QuietWalk(t)'
    BY <1>1, FindStands DEF QuietWalk
  <2>4. IterInv(t)'
    BY <1>1, IterStands DEF IterInv
  <2>5. QED
    BY <2>1, <2>2, <2>3, <2>4 DEF ReadInv
<1>5. QED
  BY <1>2, <1>3, <1>4 DEF ReadsInv, ReadInv

LEMMA ReadsInitial == ReadsInit => ReadsInv
<1> SUFFICES ASSUME ReadsInit PROVE ReadsInv
  OBVIOUS
<1>1. SkipListInv
  BY InvInit DEF ReadsInit
<1>2. \A t \in Threads : pc[t] = "idle" /\ lock # t /\ seen[t] = {}
  BY ThreadAssumption DEF ReadsInit, Init
<1>3. ReadsTypeOK
  BY DEF ReadsInit, ReadsTypeOK
<1>4. QED
  BY <1>1, <1>2, <1>3 DEF ReadsInv, SeenInv, QuietWalk, IterInv

LEMMA ReadsStutter == ReadsInv /\ UNCHANGED rvars => ReadsInv'
<1> SUFFICES ASSUME ReadsInv, UNCHANGED rvars PROVE ReadsInv'
  OBVIOUS
<1> USE DEF rvars, vars
<1>1. SkipListInv'
  BY InvNext DEF ReadsInv
<1>2. /\ \A i \in Levels : Linked(i)' = Linked(i)
      /\ Allocated' = Allocated /\ (WriterLinks' <=> WriterLinks) /\ ReadsTypeOK'
      /\ 0 \in Levels
  BY LevelAssumption DEF Linked, Allocated, WriterLinks, ReadsTypeOK, ReadsInv, Levels
<1>3. Present' = Present
  BY <1>2 DEF Present
<1>4. ASSUME NEW t \in Threads
      PROVE  /\ lock' = t => pc'[t] \in Inside \cup {"abort"}
             /\ SeenInv(t)' /\ QuietWalk(t)' /\ IterInv(t)'
  <2>1. SeenInv(t)'
    BY <1>3 DEF ReadsInv, SeenInv
  <2>2. WalkInv(t) => WalkInv(t)'
    BY <1>2 DEF WalkInv, Before, ReadsInv, SkipListInv, TypeOK
  <2>3. QuietWalk(t)'
    BY <1>2, <2>2 DEF ReadsInv, QuietWalk
  <2>4. /\ Trusted(t)' <=> Trusted(t)
        /\ Missed(t)' <=> Missed(t)
        /\ Passed(t)' = Passed(t)
    BY DEF Trusted, Missed, Passed
  <2>5. IterInv(t)'
    BY <1>2, <2>4 DEF ReadsInv, IterInv
  <2>6. QED
    BY <2>1, <2>3, <2>5 DEF ReadsInv
<1>5. QED
  BY <1>1, <1>2, <1>4 DEF ReadsInv

\* What readers rely on holds in every reachable state, for any number of
\* threads, keys, nodes and levels.
THEOREM ReadsInvariant == ReadsSpec => []ReadsInv
<1>1. ReadsInv /\ [ReadsNext]_rvars => ReadsInv'
  BY ReadsStep, ReadsStutter DEF ReadsNext, Next
<1>2. QED
  BY <1>1, ReadsInitial, PTL DEF ReadsSpec

\* A Find or Seek that no writer's linking overlaps misses no key whose Insert had
\* returned when it began.
THEOREM QuietFindIsRight == ReadsSpec => []QuietFindMissesNothing
<1>1. ReadsInv => QuietFindMissesNothing
  BY DEF ReadsInv, IterInv, QuietFindMissesNothing, Missed
<1>2. QED
  BY <1>1, ReadsInvariant, PTL

\* A scan shows every key that was in the list when it began and that it has gone
\* past, whatever is inserted around it.
THEOREM ScanMissesNothing == ReadsSpec => []ScanComplete
<1>1. ReadsInv => ScanComplete
  BY DEF ReadsInv, IterInv, ScanComplete, Trusted
<1>2. QED
  BY <1>1, ReadsInvariant, PTL
=============================================================================
