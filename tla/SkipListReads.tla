--------------------------- MODULE SkipListReads ---------------------------
(***************************************************************************)
(* What the readers of the skip list see.  The history variables record,   *)
(* for the call or the iterator of each thread, which keys were in the     *)
(* list when it began, which keys it has shown, and whether a writer was   *)
(* linking a node while its Find ran.  They only watch SkipList's steps.   *)
(***************************************************************************)
EXTENDS SkipList

VARIABLES seen, shown, raced

rvars == <<vars, seen, shown, raced>>

\* The keys whose Insert has returned.
Present == {key[n] : n \in Linked(0)}

WriterLinks == \E t \in Threads : pc[t] \in Linking

ReadsInit ==
    /\ Init
    /\ seen = [t \in Threads |-> {}]
    /\ shown = [t \in Threads |-> {}]
    /\ raced = [t \in Threads |-> FALSE]

\* A read begins with the call of Find, Seek or Begin, or with the iterator that
\* Insert returns.
ReadBegins(t) ==
    \/ pc[t] = "idle" /\ pc'[t] \in {"find", "iter"}
    \/ pc[t] = "iter" /\ pc'[t] = "find"
    \/ lock = t /\ pc'[t] = "iter"

Shows(t) == IF pc'[t] = "iter" /\ iter'[t] # Nil THEN {key'[iter'[t]]} ELSE {}

Watch ==
    /\ seen' = [t \in Threads |-> IF pc'[t] = "idle" THEN {}
                                  ELSE IF ReadBegins(t) THEN Present' ELSE seen[t]]
    /\ shown' = [t \in Threads |-> IF pc'[t] = "idle" THEN {}
                                   ELSE IF ReadBegins(t) THEN Shows(t)
                                   ELSE shown[t] \cup Shows(t)]
    /\ raced' = [t \in Threads |-> /\ pc'[t] # "idle"
                                   /\ \/ pc'[t] = "find" /\ WriterLinks'
                                      \/ raced[t] /\ ~ReadBegins(t)]

ReadsNext == Next /\ Watch

ReadsSpec == ReadsInit /\ [][ReadsNext]_rvars

-----------------------------------------------------------------------------
\* The Find, or Seek, of a thread has returned End().
Missed(t) == pc[t] = "iter" /\ op[t] \in {"find", "seek"} /\ shown[t] = {}

\* An iterator that did not come from a Find or Seek a writer overlapped.
Trusted(t) == pc[t] = "iter" /\ (op[t] \in {"find", "seek"} => ~raced[t])

\* The keys of seen that the iterator has gone past.
Passed(t) == {k \in seen[t] : /\ op[t] # "begin" => arg[t] <= k
                              /\ iter[t] # Nil => k <= key[iter[t]]}

\* A Find that no writer's linking overlaps misses a key only if no Insert of
\* it had returned when the Find began (skiplist.cpp:157-182).
QuietFindMissesNothing ==
    \A t \in Threads : Missed(t) /\ ~raced[t] => arg[t] \notin seen[t]

\* Find never misses a key that is in the list: "if(list->Contains(i)) ... else
\* { EXPECT_EQ(keys.count(i), 0); }" (tests/skiplist_test.cpp:81-87).
FindMissesNothing ==
    \A t \in Threads : Missed(t) => arg[t] \notin seen[t]

\* A scan from Begin(), from the iterator Insert returns, or from the result of
\* a Find or Seek no writer overlapped, shows every key that was in the list when it
\* began and that it has gone past, whatever is inserted around it meanwhile
\* (Next, skiplist.h:102-106).
ScanComplete ==
    \A t \in Threads : Trusted(t) /\ shown[t] # {} => Passed(t) \subseteq shown[t]

-----------------------------------------------------------------------------
(* The inductive invariant behind QuietFindMissesNothing and ScanComplete  *)
(* (SkipListProofs), beside SkipListInv.                                   *)

ReadsTypeOK ==
    /\ seen \in [Threads -> SUBSET Keys]
    /\ shown \in [Threads -> SUBSET Keys]
    /\ raced \in [Threads -> BOOLEAN]

\* A Find that no writer has overlapped so far stands on the level, before its
\* key, as the search of a writer does; it has shown nothing yet.
QuietWalk(t) ==
    pc[t] = "find" => /\ shown[t] = {}
                      /\ ~raced[t] => (~WriterLinks /\ WalkInv(t))

\* An iterator has shown the key of its node; if it is to be trusted the node
\* is linked, so that level 0 leads on from it.
IterInv(t) ==
    pc[t] = "iter" =>
        /\ iter[t] # Nil => (iter[t] \in Allocated /\ key[iter[t]] \in shown[t])
        /\ (Trusted(t) /\ iter[t] # Nil) => iter[t] \in Linked(0)
        /\ (Trusted(t) /\ shown[t] # {}) => Passed(t) \subseteq shown[t]
        /\ (Missed(t) /\ ~raced[t]) => arg[t] \notin seen[t]

\* Keys do not leave the list.
SeenInv(t) == seen[t] \subseteq Present

ReadsInv ==
    /\ SkipListInv /\ ReadsTypeOK
    /\ \A t \in Threads : /\ lock = t => pc[t] \in Inside \cup {"abort"}
                          /\ SeenInv(t) /\ QuietWalk(t) /\ IterInv(t)
=============================================================================
