------------------------------- MODULE KeySet -------------------------------
(***************************************************************************)
(* What SkipList::Insert promises to its callers: a set of keys that grows *)
(* by the key of one call at a time, at one instant between the call and   *)
(* its return, and never loses a key.                                      *)
(***************************************************************************)
CONSTANTS Threads, Keys, NoKey

VARIABLES set,  \* the keys in the list
          req   \* the key each thread is inserting

setVars == <<set, req>>

SetInit == set = {} /\ req = [t \in Threads |-> NoKey]

SetCall(t, k) ==
    /\ req[t] = NoKey
    /\ req' = [req EXCEPT ![t] = k]
    /\ UNCHANGED set

SetReturn(t) ==
    /\ req[t] # NoKey
    /\ set' = set \cup {req[t]}
    /\ req' = [req EXCEPT ![t] = NoKey]

SetNext == \E t \in Threads : SetReturn(t) \/ \E k \in Keys : SetCall(t, k)

SetSpec == SetInit /\ [][SetNext]_setVars
=============================================================================
