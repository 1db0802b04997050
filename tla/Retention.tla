------------------------------ MODULE Retention ------------------------------
(***************************************************************************)
(* Deletion and its accounting: startup retention, the mouse-move tier, and *)
(* the dashboard's prune and deletes (a second process with a connection of *)
(* its own), next to the writer that records into the live session, crashes *)
(* and restarts. Every deletion of numbered rows leaves an audit row; the   *)
(* health check classifies the holes in a session's numbers by them.        *)
(*                                                                         *)
(* Times are wall-clock readings. Sessions are numbered MAX + 1 (the table  *)
(* has no AUTOINCREMENT), recordings from a counter that never goes back.   *)
(***************************************************************************)
EXTENDS Integers, Sequences, FiniteSetsExt

CONSTANTS
    None,       \* "not ended", "no recording"
    Days,       \* the retention window
    MouseDays,  \* the window of the mouse-move tier
    Batch,      \* rows one batch of the mouse-move tier deletes
    Ops,        \* the operations of the dashboard that may happen
    Times,      \* bound: the readings of the clock
    MaxRows,    \* bound: rows and recordings written
    MaxBoots,   \* bound: starts of the application
    MaxRecs,    \* bound: recordings
    MaxLost,    \* bound: numbers whose row is lost
    MaxSets,    \* bound: how often the clock is set
    MaxUpsets   \* bound: that, and deletions in the dashboard

ASSUME RetentionConstants ==
    /\ Days \in Nat \ {0} /\ MouseDays \in Nat \ {0} /\ Batch \in Nat \ {0}
    /\ Ops \subseteq {"prune", "events", "recording", "erase"}
    /\ Times \subseteq Nat \ {0} /\ Times # {}
    /\ {MaxRows, MaxBoots, MaxRecs, MaxLost, MaxSets, MaxUpsets} \subseteq Nat
    /\ None \notin Int

VARIABLES
    now,        \* the wall clock
    app,        \* the application: "off", "pruning", "thinning", "ready", "on"
    base,       \* the reading the timebase of a start begins at
    skew,       \* how far the timebase is ahead of the clock by now
    agesFrom,   \* the reading the retention of a start reckons from
    live,       \* the session it writes, or None
    stamp,      \* the number and the timestamp the sequencer gave last
    sessions,   \* id -> [started, ended]
    rows,       \* rows of events and action_events (rec # None)
    recs,       \* id -> [session, started, ended]
    lastRec,    \* the recordings ever opened
    requests,   \* recording requests: when they expire and what fulfils them
    audit,      \* deletion_audit
    thinned,    \* when its mouse-move tier began: all the batches say so
    lost,       \* history: <<session, seq>> given out and never stored
    deleted,    \* history: sessions numbered rows were deleted from
    heirs,      \* history: sessions that began with audit rows of their start
    used        \* the bounded occasions used up

clock == <<now, used>>
store == <<sessions, rows, recs, lastRec, requests, audit, lost, deleted, heirs>>
boot == <<app, base, skew, agesFrom, live, stamp, thinned>>
vars == <<now, app, base, skew, agesFrom, live, stamp, sessions, rows, recs, lastRec,
          requests, audit, thinned, lost, deleted, heirs, used>>

RowKinds == {"event", "mouse", "action"}
Events(rs) == {r \in rs : r.kind # "action"}
Actions(rs) == {r \in rs : r.kind = "action"}
Of(rs, s) == {r \in rs : r.session = s}
Newest(rs) == Max({r.ts : r \in rs})

Init ==
    /\ now = Min(Times) /\ app = "off" /\ base = 0 /\ agesFrom = 0
    /\ skew = 0 /\ live = None /\ stamp = [seq |-> 0, ts |-> 0]
    /\ sessions = <<>> /\ rows = {} /\ recs = <<>> /\ lastRec = 0
    /\ requests = {} /\ audit = {} /\ thinned = 0
    /\ lost = {} /\ deleted = {} /\ heirs = {}
    /\ used = [boots |-> 0, rows |-> 0, sets |-> 0, upsets |-> 0, raced |-> FALSE]

-----------------------------------------------------------------------------
(* The clock *)

\* Time passes, for the timebase as well.
Tick ==
    /\ now' \in {t \in Times : t > now}
    /\ UNCHANGED <<boot, store, used>>

\* The clock is set. A running timebase goes on as it did, until it is
\* resynchronised with the clock.
SetClock ==
    /\ used.sets < MaxSets /\ used.upsets < MaxUpsets
    /\ now' \in Times \ {now}
    /\ skew' = IF app = "off" THEN 0 ELSE skew + now - now'
    /\ used' = [used EXCEPT !.sets = @ + 1, !.upsets = @ + 1]
    /\ UNCHANGED <<app, base, agesFrom, live, stamp, thinned, store>>

Resync ==
    /\ app = "on" /\ skew # 0
    /\ skew' = 0
    /\ UNCHANGED <<clock, app, base, agesFrom, live, stamp, thinned, store>>

-----------------------------------------------------------------------------
(* Deletion: the rows that go, and the audit rows of their operation *)

NextOp == Max({0} \cup {a.op : a \in audit}) + 1

\* Mutant: later rows do not extend the span of the first.
AuditRowsFirst(gone, at) ==
    {[op |-> NextOp, session |-> s, rows |-> Cardinality(Of(gone, s)),
      min |-> Min({r.seq : r \in Of(gone, s)}),
      max |-> Min({r.seq : r \in Of(gone, s)}), at |-> at] :
        s \in {r.session : r \in gone}}

\* One audit row per session an operation took rows from.
AuditRows(gone, at) ==
    {[op |-> NextOp, session |-> s, rows |-> Cardinality(Of(gone, s)),
      min |-> Min({r.seq : r \in Of(gone, s)}),
      max |-> Max({r.seq : r \in Of(gone, s)}), at |-> at] :
        s \in {r.session : r \in gone}}

\* Delete `gone` and account for it, in one transaction.
Delete(gone, at) ==
    /\ rows' = rows \ gone
    /\ audit' = audit \cup AuditRows(gone, at)
    /\ deleted' = deleted \cup {r.session : r \in gone}
    /\ UNCHANGED heirs

EndedBefore(r, cutoff) == recs[r].ended # None /\ recs[r].ended < cutoff

\* The statements of a prune, each over what the ones before it have left.
PrunedRecs(cutoff) ==
    {r \in DOMAIN recs : /\ EndedBefore(r, cutoff)
                         /\ ~\E a \in rows : a.rec = r /\ a.ts >= cutoff}
PrunedRows(cutoff) ==
    LET old == {r \in rows : r.ts < cutoff}
        orphans == {r \in Actions(rows) \ old :
                       r.rec \notin DOMAIN recs \ PrunedRecs(cutoff)}
    IN old \cup orphans
\* Mutant: a session is pruned although a recording is still its own.
PrunedSessionsRecorded(cutoff) ==
    {s \in DOMAIN sessions : /\ sessions[s].ended # None
                             /\ Of(rows \ PrunedRows(cutoff), s) = {}}

PrunedSessions(cutoff) ==
    {s \in DOMAIN sessions :
        /\ sessions[s].ended # None
        /\ Of(rows \ PrunedRows(cutoff), s) = {}
        /\ \A r \in DOMAIN recs \ PrunedRecs(cutoff) : recs[r].session # s}
PrunedRequests(cutoff) ==
    {q \in requests : /\ q.expires < cutoff
                      /\ q.rec \notin DOMAIN recs \ PrunedRecs(cutoff)}

Without(f, gone) == [x \in DOMAIN f \ gone |-> f[x]]

Prune(cutoff, at) ==
    /\ Delete(PrunedRows(cutoff), at)
    /\ recs' = Without(recs, PrunedRecs(cutoff))
    /\ sessions' = Without(sessions, PrunedSessions(cutoff))
    /\ requests' = requests \ PrunedRequests(cutoff)
    /\ lost' = {l \in lost : l[1] \in DOMAIN sessions'}
    /\ UNCHANGED lastRec

-----------------------------------------------------------------------------
(* A start of the application: open repairs what a crash left, retention    *)
(* runs, and then the session begins, at the reading taken before all that. *)

\* The row that says what was in front when the last run died, numbered after
\* what is stored of its session.
Recovered(s) ==
    LET of == Of(rows, s)
    IN [session |-> s, seq |-> Max({0} \cup {r.seq : r \in of}) + 1,
        ts |-> Max({sessions[s].started} \cup {r.ts : r \in of}),
        kind |-> "event", rec |-> None]

\* What a run left open ends at its newest row.
Finalized(open, rs) ==
    IF open.ended # None THEN open
    ELSE [open EXCEPT !.ended = Max({open.started} \cup {r.ts : r \in rs})]

\* Mutant: retention reckons from the wall clock as it is.
ClampedNowRaw(rs) == now

ClampedNow(rs) == IF Events(rs) = {} THEN now ELSE Min({now, Newest(Events(rs))})

Open ==
    /\ app = "off" /\ used.boots < MaxBoots
    /\ base' = now /\ skew' = 0
    /\ \E recovered \in {{}} \cup {{Recovered(s)} : s \in
                {s \in DOMAIN sessions : sessions[s].ended = None}} :
          rows' = rows \cup recovered
    /\ sessions' = [s \in DOMAIN sessions |->
                       Finalized(sessions[s], Events(Of(rows', s)))]
    /\ recs' = [r \in DOMAIN recs |->
                   Finalized(recs[r], {a \in rows : a.rec = r})]
    /\ agesFrom' = ClampedNow(rows')
    /\ app' = "pruning"
    /\ used' = [used EXCEPT !.boots = @ + 1]
    /\ UNCHANGED <<now, live, stamp, lastRec, requests, audit, thinned, lost,
                   deleted, heirs>>

StartupPrune ==
    /\ app = "pruning"
    /\ Prune(agesFrom - Days, now)
    /\ app' = "thinning"
    /\ thinned' = now
    /\ UNCHANGED <<clock, base, skew, agesFrom, live, stamp>>

\* One batch, a transaction of its own; a short one is the last.
MousePrune ==
    /\ app = "thinning"
    /\ LET old == {r \in rows : r.kind = "mouse" /\ r.ts < agesFrom - MouseDays}
       IN \E gone \in SUBSET old :
             /\ Cardinality(gone) = Min({Batch, Cardinality(old)})
             /\ Delete(gone, thinned)
             /\ app' = IF Cardinality(gone) < Batch THEN "ready" ELSE app
    /\ UNCHANGED <<clock, base, skew, agesFrom, live, stamp, thinned, sessions,
                   recs, lastRec, requests, lost>>

NextSession == Max({0} \cup DOMAIN sessions) + 1

CreateSession ==
    /\ app = "ready"
    /\ live' = NextSession
    /\ sessions' = [s \in DOMAIN sessions \cup {live'} |->
          IF s = live' THEN [started |-> base, ended |-> None] ELSE sessions[s]]
    /\ stamp' = [seq |-> 0, ts |-> base]
    /\ app' = "on"
    /\ deleted' = deleted \ {live'}
    /\ heirs' = IF \E a \in audit : a.session = live' /\ a.at >= base
                THEN heirs \cup {live'} ELSE heirs \ {live'}
    /\ base' = 0 /\ agesFrom' = 0 /\ thinned' = 0
    /\ UNCHANGED <<clock, skew, rows, recs, lastRec, requests, audit, lost>>

-----------------------------------------------------------------------------
(* The writer *)

OpenRecs == {r \in DOMAIN recs : recs[r].ended = None}

\* Timestamps come from the timebase and never go back in a session.
Reading == Max({now + skew, stamp.ts})
Stamp == stamp' = [seq |-> stamp.seq + 1, ts |-> Reading]

Room == used.rows < MaxRows /\ used' = [used EXCEPT !.rows = @ + 1]

\* A stamped row is stored, or its batch is given up and its number is lost.
Write(kind) ==
    /\ app = "on" /\ Stamp
    /\ Room
    /\ \E rec \in IF kind = "action" THEN OpenRecs ELSE {None} :
          rows' = rows \cup {[session |-> live, seq |-> stamp'.seq,
                              ts |-> stamp'.ts, kind |-> kind, rec |-> rec]}
    /\ UNCHANGED <<now, app, base, skew, agesFrom, live, thinned, sessions,
                   recs, lastRec, requests, audit, lost, deleted, heirs>>

Lose ==
    /\ app = "on" /\ Cardinality(lost) < MaxLost /\ Stamp
    /\ lost' = lost \cup {<<live, stamp'.seq>>}
    /\ UNCHANGED <<clock, app, base, skew, agesFrom, live, thinned, sessions,
                   rows, recs, lastRec, requests, audit, deleted, heirs>>

\* A recording is opened from a request, which it fulfils, or by hand while a
\* request is declined.
OpenRecording ==
    /\ app = "on" /\ OpenRecs = {} /\ lastRec < MaxRecs /\ Room
    /\ lastRec' = lastRec + 1
    /\ recs' = [r \in DOMAIN recs \cup {lastRec'} |->
          IF r = lastRec'
          THEN [session |-> live, started |-> Reading, ended |-> None]
          ELSE recs[r]]
    /\ \E rec \in {lastRec', None} :
          requests' = requests \cup {[expires |-> Reading + 1, rec |-> rec]}
    /\ UNCHANGED <<now, boot, sessions, rows, audit, lost, deleted, heirs>>

CloseRecording ==
    /\ app = "on"
    /\ \E r \in OpenRecs :
          recs' = [recs EXCEPT ![r].ended = Reading]
    /\ UNCHANGED <<clock, boot, sessions, rows, lastRec, requests, audit, lost,
                   deleted, heirs>>

\* Nothing of the memory of a run outlives it.
Stopped ==
    /\ app' = "off" /\ live' = None
    /\ base' = 0 /\ skew' = 0 /\ agesFrom' = 0 /\ thinned' = 0
    /\ stamp' = [seq |-> 0, ts |-> 0]

EndSession ==
    /\ app = "on"
    /\ recs' = [r \in DOMAIN recs |->
          IF recs[r].ended = None THEN [recs[r] EXCEPT !.ended = Reading]
          ELSE recs[r]]
    /\ sessions' = [sessions EXCEPT ![live].ended = Reading]
    /\ Stopped
    /\ UNCHANGED <<clock, rows, lastRec, requests, audit, lost, deleted, heirs>>

Crash ==
    /\ app # "off"
    /\ Stopped
    /\ UNCHANGED <<clock, store>>

\* Secure erase takes everything, the audit with it, and starts anew.
Erase ==
    /\ "erase" \in Ops /\ app = "on" /\ used.upsets < MaxUpsets
    /\ live' = 1
    /\ sessions' = [s \in {1} |-> [started |-> now, ended |-> None]]
    /\ skew' = 0
    /\ stamp' = [seq |-> 0, ts |-> now]
    /\ rows' = {} /\ recs' = <<>> /\ lastRec' = 0 /\ requests' = {}
    /\ audit' = {} /\ lost' = {} /\ deleted' = {} /\ heirs' = {}
    /\ used' = [used EXCEPT !.upsets = @ + 1]
    /\ UNCHANGED <<now, app, base, agesFrom, thinned>>

-----------------------------------------------------------------------------
(* The dashboard, at any time, whether the application runs or not *)

Dashboard(op) ==
    /\ op \in Ops /\ used.upsets < MaxUpsets
    /\ used' = [used EXCEPT !.upsets = @ + 1,
                            !.raced = @ \/ app \notin {"off", "on"}]

\* At any time between the readings, or past them all.
Cutoffs == {t + 1 : t \in Times}

DashboardPrune ==
    /\ Dashboard("prune")
    /\ \E cutoff \in Cutoffs : Prune(cutoff, now)
    /\ UNCHANGED <<now, boot>>

DeleteEvents ==
    /\ Dashboard("events")
    /\ \E gone \in (SUBSET Events(rows)) \ {{}} : Delete(gone, now)
    /\ UNCHANGED <<now, boot, sessions, recs, lastRec, requests, lost>>

DeleteRecording ==
    /\ Dashboard("recording")
    /\ \E r \in DOMAIN recs \ OpenRecs :
          /\ Delete({a \in rows : a.rec = r}, now)
          /\ recs' = Without(recs, {r})
          /\ requests' = {q \in requests : q.rec # r}
    /\ UNCHANGED <<now, boot, sessions, lastRec, lost>>

Next ==
    \/ Tick \/ SetClock \/ Resync
    \/ Open \/ StartupPrune \/ MousePrune \/ CreateSession
    \/ \E kind \in RowKinds : Write(kind)
    \/ Lose \/ OpenRecording \/ CloseRecording \/ EndSession \/ Crash \/ Erase
    \/ DashboardPrune \/ DeleteEvents \/ DeleteRecording

Spec == Init /\ [][Next]_vars

-----------------------------------------------------------------------------
(* The health check of the read layer *)

Seqs(s) == {r.seq : r \in Of(rows, s)}
Missing(s) == IF Seqs(s) = {} THEN {} ELSE (Min(Seqs(s)) .. Max(Seqs(s))) \ Seqs(s)

\* Mutant: audit rows of an earlier session of the number count as well.
SpansResidue(s) == {a \in audit : a.session = s}

\* The audit rows that may explain the holes of a session: those stamped
\* before it began are residue. The spans are merged where they touch, so a
\* hole lies in one of the merged spans when each of its numbers is in a span.
Spans(s) == {a \in audit : a.session = s /\ a.at >= sessions[s].started}
Explained(s) ==
    /\ Spans(s) # {}
    /\ \A n \in Missing(s) : \E a \in Spans(s) : n \in a.min .. a.max
    /\ Cardinality(Missing(s)) <= MapThenSumSet(LAMBDA a : a.rows, Spans(s))
Flagged == {s \in DOMAIN sessions : Missing(s) # {} /\ ~Explained(s)}

\* Mutant: the statements are counted as if nothing went before them.
PreviewRecsEmpty(cutoff) ==
    {r \in DOMAIN recs : EndedBefore(r, cutoff) /\
        {a \in Actions(rows) : a.rec = r} = {}}

(* The preview the dashboard shows before a prune: queries of its own *)
PreviewRecs(cutoff) ==
    {r \in DOMAIN recs : EndedBefore(r, cutoff) /\
        {a \in Actions(rows) : a.rec = r /\ a.ts >= cutoff} = {}}
Preview(cutoff) ==
    [events |-> Cardinality({r \in Events(rows) : r.ts < cutoff}),
     actions |-> Cardinality({r \in Actions(rows) : r.ts < cutoff}),
     recs |-> Cardinality(PreviewRecs(cutoff)),
     sessions |-> Cardinality({s \in DOMAIN sessions :
        /\ sessions[s].ended # None
        /\ {r \in Of(rows, s) : r.ts >= cutoff} = {}
        /\ {r \in DOMAIN recs : recs[r].session = s} \subseteq PreviewRecs(cutoff)}),
     requests |-> Cardinality({q \in requests : q.expires < cutoff /\
        (q.rec = None \/ q.rec \in PreviewRecs(cutoff) \/ q.rec \notin DOMAIN recs)})]

-----------------------------------------------------------------------------
(* Properties *)

\* Whatever the dashboard, retention and the application delete, and in
\* whatever order, no row loses its session or its recording, no recording its
\* session, and the session being written is still there and open (prune_*,
\* delete_*: the statements of one process keep the foreign keys of the other).
Intact ==
    /\ \A r \in rows :
          /\ r.session \in DOMAIN sessions
          /\ r.rec # None => r.rec \in DOMAIN recs
    /\ \A r \in DOMAIN recs : recs[r].session \in DOMAIN sessions
    /\ live # None => live \in DOMAIN sessions /\ sessions[live].ended = None

\* A session that lost nothing is never reported as damaged, however its rows
\* were deleted, in whatever pieces, before and after crashes: every deletion
\* is accounted for where it is made (record_deletion_audit). The clock must
\* not be set: a deletion stamped before its session does not count.
NoFalseAlarm ==
    used.sets = 0 =>
        \A s \in Flagged : \E n \in Missing(s) : <<s, n>> \in lost

LostInside(s) ==
    \E l \in lost :
       /\ l[1] = s
       /\ \E a, b \in Of(rows, s) : a.seq < l[2] /\ l[2] < b.seq

\* A hole in a session nothing was deleted from is reported, whatever was
\* deleted from earlier sessions of the same number: database_health discards
\* audit rows stamped before a session began. Those stamped while it starts
\* remain, and the sessions that begin with such are excepted.
LossShown ==
    \A s \in DOMAIN sessions \ (deleted \cup heirs) : LostInside(s) => s \in Flagged

\* The same with no exception: what is left of an earlier session never explains
\* the holes of a fresh one.
ResidueNeverExplains ==
    \A s \in DOMAIN sessions \ deleted : LostInside(s) => s \in Flagged

\* What the dashboard says a prune would take is what the prune takes.
PreviewExact ==
    \A cutoff \in Cutoffs :
        Preview(cutoff) =
            [events |-> Cardinality(Events(PrunedRows(cutoff))),
             actions |-> Cardinality(Actions(PrunedRows(cutoff))),
             recs |-> Cardinality(PrunedRecs(cutoff)),
             sessions |-> Cardinality(PrunedSessions(cutoff)),
             requests |-> Cardinality(PrunedRequests(cutoff))]

\* However wrong the clock is or was, a start takes no row younger than its
\* window on the timeline of the stored rows themselves
\* (clamped_retention_now_ms), unless the dashboard deletes at the same time or
\* no event is left to go by.
RecentKept ==
    [][(app \in {"pruning", "thinning"} /\ ~used'.raced /\ Events(rows) # {}) =>
          \A r \in rows \ rows' :
              r.ts < Newest(Events(rows)) - (IF app = "pruning" THEN Days
                                             ELSE MouseDays)]_vars
=============================================================================
