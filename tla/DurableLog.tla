----------------------------- MODULE DurableLog -----------------------------
(***************************************************************************)
(* What the write-ahead log promises.  A client appends records to a file; *)
(* some prefix of them is out of the program, some prefix of that is safe  *)
(* from a power failure.  A reader that comes afterwards gets, in order,   *)
(* at least what was out, or safe if power was lost, before the file was   *)
(* damaged; and nothing but what was appended, if it never was and held no *)
(* older log.                                                              *)
(*                                                                         *)
(* Nothing here knows of blocks, fragments or checksums: Wal is shown to   *)
(* implement this module.                                                  *)
(***************************************************************************)
EXTENDS Integers, Sequences

CONSTANTS Records,
          Torn      \* what is none

VARIABLES
    log,      \* the records of this file, in the order they were appended
    flushed,  \* how many of them are out of the program, or were when the file was damaged
    synced,   \* how many of those a power failure cannot take away
    damaged,  \* the file is damaged, or what is written to it next will be in the wrong place
    reused,   \* the file held an older log before
    returned, \* what the reader got
    phase     \* of the file

vars == <<log, flushed, synced, damaged, reused, returned, phase>>

Phases == {"closed", "open", "down", "reading", "done", "failed"}

TypeOK ==
    /\ log \in Seq(Records) /\ returned \in Seq(Records \cup {Torn})
    /\ flushed \in 0 .. Len(log) /\ synced \in 0 .. flushed
    /\ damaged \in BOOLEAN /\ reused \in BOOLEAN /\ phase \in Phases

Init ==
    /\ log = <<>> /\ flushed = 0 /\ synced = 0 /\ damaged = FALSE
    /\ reused = FALSE /\ returned = <<>> /\ phase = "closed"

\* A new log, in a new file or over the old one.  What its predecessor did not get out
\* when it was closed comes first, and counts as damage.
Create ==
    /\ phase \in {"closed", "down"}
    /\ \E n \in 0 .. Len(log) : log' = SubSeq(log, n + 1, Len(log))
    /\ phase = "down" => log' = <<>>
    /\ flushed' = 0 /\ synced' = 0
    /\ damaged' = (log' # <<>>)
    /\ reused' \in BOOLEAN
    /\ phase' = "open"
    /\ UNCHANGED returned

\* The file may be damaged on the way.
MayDamage == damaged => damaged'

Add(r) ==
    /\ phase = "open"
    /\ log' = Append(log, r)
    /\ MayDamage
    /\ UNCHANGED <<flushed, synced, reused, returned, phase>>

\* More is written, to a file that is not damaged.
WriteOut ==
    /\ phase = "open" /\ ~damaged
    /\ flushed' \in flushed .. Len(log)
    /\ UNCHANGED <<log, synced, damaged, reused, returned, phase>>

Harm ==
    /\ phase = "open"
    /\ damaged' = TRUE
    /\ UNCHANGED <<log, flushed, synced, reused, returned, phase>>

Sync ==
    /\ phase = "open"
    /\ synced' = flushed
    /\ UNCHANGED <<log, flushed, damaged, reused, returned, phase>>

Close ==
    /\ phase = "open"
    /\ phase' = "closed"
    /\ UNCHANGED <<log, flushed, synced, damaged, reused, returned>>

Kill ==
    /\ phase \in {"open", "closed"}
    /\ phase' = "down"
    /\ UNCHANGED <<log, flushed, synced, damaged, reused, returned>>

PowerLoss ==
    /\ phase \in {"open", "closed"}
    /\ phase' = "down"
    /\ flushed' = synced
    /\ MayDamage
    /\ UNCHANGED <<log, synced, reused, returned>>

Begin ==
    /\ phase \in {"closed", "down"}
    /\ phase' = "reading"
    /\ UNCHANGED <<log, flushed, synced, damaged, reused, returned>>

\* The reader gets the next record.
Return ==
    /\ phase = "reading"
    /\ Len(returned) < Len(log)
    /\ returned' = Append(returned, log[Len(returned) + 1])
    /\ UNCHANGED <<log, flushed, synced, damaged, reused, phase>>

\* Behind what was flushed a reader may come upon the damage, or what an older log left.
Beyond == (reused \/ damaged) /\ Len(returned) >= flushed

\* ... and put anything together from that.
ReturnAny ==
    /\ phase = "reading" /\ Beyond
    /\ \E r \in Records \cup {Torn} : returned' = Append(returned, r)
    /\ UNCHANGED <<log, flushed, synced, damaged, reused, phase>>

\* The reader is told that there is nothing more.
Finish ==
    /\ phase = "reading"
    /\ Len(returned) >= flushed
    /\ phase' = "done"
    /\ UNCHANGED <<log, flushed, synced, damaged, reused, returned>>

\* Reading fails.
Fail ==
    /\ phase = "reading" /\ Beyond
    /\ phase' = "failed"
    /\ UNCHANGED <<log, flushed, synced, damaged, reused, returned>>

Next ==
    \/ Create \/ (\E r \in Records : Add(r)) \/ WriteOut \/ Harm \/ Sync \/ Close
    \/ Kill \/ PowerLoss
    \/ Begin \/ Return \/ ReturnAny \/ Finish \/ Fail

Spec == Init /\ [][Next]_vars

-----------------------------------------------------------------------------
\* The promise: what the reader got begins with what was out of the program, or safe when
\* power was lost, before anything was damaged, in the order it was appended, and all of
\* that once the reader has come to the end or failed; and if the file was new and is not
\* damaged, it got nothing else than what was appended, none left out.
Recovered ==
    /\ \A j \in 1 .. Len(returned) : j <= flushed \/ ~(reused \/ damaged) =>
           j <= Len(log) /\ returned[j] = log[j]
    /\ phase \in {"done", "failed"} => flushed <= Len(returned)
=============================================================================
