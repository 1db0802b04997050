---------------------------- MODULE DropCounter ----------------------------
(***************************************************************************)
(* The durable count of captures that were lost at a full channel: the      *)
(* counter of the run, which dies with it; what the heartbeat of the writer *)
(* knows of earlier runs; and the total it keeps in the table meta, which   *)
(* the health verdict of the Diagnostics tab reads. The count of stale rows *)
(* after an erase has the same life, line for line.                        *)
(***************************************************************************)
EXTENDS Integers

CONSTANTS
    None,       \* no key in meta, nothing known yet
    Resets,     \* what may empty the tables: "erase", "archive"
    MaxDrops,   \* bound: lost captures
    MaxResets,  \* bound: erases and archives
    MaxRuns     \* bound: runs of the program after the first

VARIABLES
    running,    \* the writer runs
    dropped,    \* DiagnosticsCounters::capture_events_dropped
    beat,       \* WriterHeartbeat: base, persisted, offset of this counter
    meta,       \* the value of capture_events_dropped in meta
    lost,       \* history: captures lost since the last erase
    told,       \* history: how many of them the last persist was of
    used        \* the bounded occasions used up

vars == <<running, dropped, beat, meta, lost, told, used>>

FreshBeat == [base |-> None, persisted |-> None, offset |-> 0]

Init ==
    /\ running = TRUE /\ dropped = 0 /\ beat = FreshBeat /\ meta = None
    /\ lost = 0 /\ told = 0
    /\ used = [resets |-> 0, runs |-> 0]

\* read_meta_u64: a missing key is zero.
Stored == IF meta = None THEN 0 ELSE meta

Minus(a, b) == IF a < b THEN 0 ELSE a - b       \* saturating_sub

\* A capture callback finds the channel full.
Drop ==
    /\ running /\ lost < MaxDrops
    /\ dropped' = dropped + 1 /\ lost' = lost + 1
    /\ UNCHANGED <<running, beat, meta, told, used>>

\* persist_capture_events_dropped. A total that was written is not written again.
Persisted ==
    LET base == IF beat.base = None THEN Stored ELSE beat.base
        total == base + Minus(dropped, beat.offset)
    IN IF beat.persisted = total
       THEN meta' = meta /\ beat' = [beat EXCEPT !.base = base]
       ELSE \/ meta' = total
               /\ beat' = [beat EXCEPT !.base = base, !.persisted = total]
            \/ meta' = meta /\ beat' = [beat EXCEPT !.base = base]

\* A failed write is a warning, and the next heartbeat writes again.
Wrote == beat'.persisted # None /\ beat'.persisted = beat'.base + Minus(dropped, beat.offset)

Heartbeat ==
    /\ running
    /\ Persisted
    /\ told' = IF Wrote THEN lost ELSE told
    /\ UNCHANGED <<running, dropped, lost, used>>

Resetting(kind) ==
    /\ running /\ kind \in Resets /\ used.resets < MaxResets
    /\ used' = [used EXCEPT !.resets = @ + 1]

\* The delete empties meta; the counter begins again at the delete.
SecureErase ==
    /\ Resetting("erase")
    /\ meta' = None
    /\ beat' = [base |-> 0, persisted |-> None, offset |-> dropped]
    /\ lost' = 0 /\ told' = 0
    /\ UNCHANGED <<running, dropped>>

\* The same delete; the heartbeat keeps what it knew. Nothing is erased here:
\* what was lost was lost.
ArchiveReset ==
    /\ Resetting("archive")
    /\ meta' = None
    /\ UNCHANGED <<running, dropped, beat, lost, told>>

\* A clean stop persists once more.
Stop ==
    /\ running /\ running' = FALSE
    /\ Persisted
    /\ told' = IF Wrote THEN lost ELSE told
    /\ UNCHANGED <<dropped, lost, used>>

\* What was not told dies with the run.
Crash ==
    /\ running /\ running' = FALSE
    /\ lost' = told
    /\ UNCHANGED <<dropped, beat, meta, told, used>>

Start ==
    /\ ~running /\ used.runs < MaxRuns
    /\ running' = TRUE /\ dropped' = 0 /\ beat' = FreshBeat
    /\ lost' = told
    /\ used' = [used EXCEPT !.runs = @ + 1]
    /\ UNCHANGED <<meta, told>>

Next ==
    \/ Drop \/ Heartbeat \/ SecureErase \/ ArchiveReset
    \/ Stop \/ Crash \/ Start

Spec == Init /\ [][Next]_vars

\* What a heartbeat has told stays told: the total in the database is the number
\* of captures lost up to the last persist, over every run since the last erase
\* (CAPTURE_EVENTS_DROPPED_META_KEY, "cumulative (cross-run)"). It holds while
\* nothing is archived.
LossStaysTold == Stored = told

\* The total in the database grows only by captures lost since it was last
\* written: a total that was deleted does not come back from the cache of the
\* heartbeat, whatever deleted it (persist_capture_events_dropped).
GrowsByLoss == [][meta' \notin {meta, None} => meta' - Stored <= lost' - told]_vars
=============================================================================
