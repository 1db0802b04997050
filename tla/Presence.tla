------------------------------ MODULE Presence ------------------------------
(***************************************************************************)
(* Whose time is counted: from the window in front of the user, through the *)
(* capture pump (foreground segments, idle, sleep, lock, pause), the rows   *)
(* and the open-focus row it leaves in the database, to the active time the *)
(* read layer reports of them.                                             *)
(*                                                                         *)
(* One unit of time is 30 seconds: the threshold of a missed power          *)
(* boundary, the cap on the dwell counted across it, and an open-focus beat.*)
(* A row is stored as it is sent; the way through the channels is Writer's. *)
(***************************************************************************)
EXTENDS Integers, Sequences, FiniteSets, SequencesExt, FiniteSetsExt, TLC

CONSTANTS
    App,        \* applications
    None,       \* no window, no segment, no end
    Ops,        \* what may happen: "lock", "suspend", "missed", "pause",
                \* "recording", "stop", "crash"
    IdleAfter,  \* capture.idle_threshold_ms
    MaxTime,    \* bound: units of time
    MaxOps,     \* bound: occasions of Ops
    MaxSwitches \* bound: changes of the window in front

ASSUME PresenceConstants ==
    /\ None \notin App \cup Nat
    /\ Ops \subseteq {"lock", "suspend", "missed", "pause", "recording",
                      "stop", "crash"}
    /\ IdleAfter \in Nat \ {0} /\ {MaxTime, MaxOps, MaxSwitches} \subseteq Nat

\* No segment is told from a segment.
ASSUME AbsentValues ==
    /\ None \notin [app : App, at : Nat] \cup [sess : Nat, app : App, start : Nat]
    /\ None \notin [sess : Nat, app : App, start : Nat, high : Nat]

Gap == 1        \* MISSED_POWER_BOUNDARY_THRESHOLD_MS
CapDwell == 1   \* MISSED_POWER_BOUNDARY_MAX_DWELL
Fresh == 2      \* 2 * OPEN_FOCUS_BEAT_MS

VARIABLES
    now,        \* units passed
    power,      \* "on", "suspending" (the pump has been told), "asleep"
    slept,      \* when it fell asleep
    front,      \* the application in front, None at the lock screen
    inputs,     \* the times of the user's input
    due, notice, \* the timer, and a resume broadcast, not yet delivered
    pump,       \* the state of the capture pump
    gate,       \* capture: "open", closed by "paused" or by "recording"
    reseed,     \* a reseed is requested
    open,       \* the writer's open segment and the open_focus row
    rows,       \* the stored rows, in the order of their ids
    sess,       \* the session, 0 while the program does not run
    ended,      \* when each session ended, None if it did not
    past,       \* history: what was true in each unit of time
    dirty,      \* history: sessions, with an event that may lose time
    used        \* the bounded occasions used up

world == <<now, power, slept, front, inputs, past>>
vars == <<world, due, notice, pump, gate, reseed, open, rows, sess, ended,
          dirty, used>>

Running == sess # 0
LastInput == Max(inputs)

\* The pump has done what is due.
Settled == power = "on" /\ ~due /\ ~notice /\ ~reseed

-----------------------------------------------------------------------------
(* The writer: rows, and the open segment mirrored from them *)

Row(kind, dur, app, prev) ==
    [kind |-> kind, sess |-> sess, ts |-> now, dur |-> dur, app |-> app,
     prev |-> prev]
Mark(kind) == Row(kind, 0, None, None)

Closed == [seg |-> None, row |-> None]

\* Mutant: the row of the segment that is replaced stays behind.
NotedBeside(o, r) ==
    CASE r.kind = "focus" /\ r.app = r.prev -> Closed
      [] r.kind = "focus" /\ r.app # r.prev ->
            [seg |-> [sess |-> r.sess, app |-> r.app, start |-> r.ts],
             row |-> o.row]
      [] r.kind \in {"suspend", "lock", "paused"} -> Closed
      [] OTHER -> o

\* A focus row opens the segment of its window and ends the one before it; a
\* row of a window to itself, and a boundary, end it.
Noted(o, r) ==
    CASE r.kind = "focus" /\ r.app = r.prev -> Closed
      [] r.kind = "focus" /\ r.app # r.prev ->
            [seg |-> [sess |-> r.sess, app |-> r.app, start |-> r.ts],
             row |-> None]
      [] r.kind \in {"suspend", "lock", "paused"} -> Closed
      [] OTHER -> o

StoreAll(new) ==
    /\ rows' = rows \o new
    /\ open' = FoldLeft(Noted, open, new)

\* The pump's rows pass while capture is open; its state goes on without.
Send(new) == StoreAll(IF gate = "open" THEN new ELSE <<>>)

\* A beat while the pump has something due changes nothing that is seen later.
Beat ==
    /\ Running /\ Settled /\ open.seg # None
    /\ open' = [open EXCEPT !.row = [sess |-> open.seg.sess, app |-> open.seg.app,
                                     start |-> open.seg.start, high |-> now]]
    /\ UNCHANGED <<world, due, notice, pump, gate, reseed, rows, sess, ended,
                   dirty, used>>

-----------------------------------------------------------------------------
(* The capture pump. Each of its parts is a change of its state and rows. *)

Fresh0 == [cur |-> None, idle |-> FALSE, suspended |-> FALSE, resumed |-> None,
           tick |-> None]

Least(a, b) == IF a < b THEN a ELSE b

\* Mutant: a boundary forgets the segment it ends.
EndDropped(p, cap) == [pump |-> [p EXCEPT !.cur = None], rows |-> <<>>]

\* end_current_at, and with a limit on the dwell: the window to itself.
End(p, cap) ==
    [pump |-> [p EXCEPT !.cur = None],
     rows |-> IF p.cur = None THEN <<>>
              ELSE << Row("focus", Least(now - p.cur.at, cap), p.cur.app,
                          p.cur.app) >>]

\* The window in front starts a segment; one that was open is not accounted.
Seed(p, app) ==
    [pump |-> IF app = None THEN p ELSE [p EXCEPT !.cur = [app |-> app, at |-> now]],
     rows |-> IF app = None THEN <<>> ELSE << Row("focus", 0, app, None) >>]

Switch(p, app) ==
    IF p.cur # None /\ p.cur.app = app THEN [pump |-> p, rows |-> <<>>]
    ELSE [pump |-> [p EXCEPT !.cur = [app |-> app, at |-> now]],
          rows |-> << IF p.cur = None THEN Row("focus", 0, app, None)
                      ELSE Row("focus", now - p.cur.at, app, p.cur.app) >>]

Missing(p) == ~p.suspended /\ p.tick # None /\ now - p.tick > Gap

\* A gap in the ticks without a suspend: the segment is ended, capped.
Recover(p) ==
    LET e == End(p, CapDwell)
        s == Seed(e.pump, front)
    IN [pump |-> [s.pump EXCEPT !.suspended = FALSE, !.resumed = now],
        rows |-> e.rows \o s.rows \o << Row("recovered", now - p.tick, None, None) >>]

\* on_power_resume_at. A second resume at once is the same wake.
Resume(p) ==
    LET e == IF p.suspended THEN [pump |-> p, rows |-> <<>>] ELSE End(p, CapDwell)
        s == Seed(e.pump, front)
        r == IF Missing(p) THEN Recover(p)
             ELSE [pump |-> s.pump, rows |-> e.rows \o s.rows]
    IN IF ~p.suspended /\ p.resumed = now
       THEN [pump |-> [p EXCEPT !.tick = now], rows |-> <<>>]
       ELSE [pump |-> [r.pump EXCEPT !.suspended = FALSE, !.resumed = now,
                                     !.tick = now],
             rows |-> r.rows \o << Mark("resume") >>]

\* An idle row carries the time without input so far.
Sampled(p) ==
    LET ms == now - LastInput
    IN IF ~p.idle /\ ms >= IdleAfter
       THEN [pump |-> [p EXCEPT !.idle = TRUE], rows |-> << Row("idle", ms, None, None) >>]
       ELSE IF p.idle /\ ms < IdleAfter
       THEN [pump |-> [p EXCEPT !.idle = FALSE], rows |-> << Mark("active") >>]
       ELSE [pump |-> p, rows |-> <<>>]

Became(outcome) == pump' = outcome.pump /\ Send(outcome.rows)

\* The pump takes part in what happens while the program runs.
Told(outcome) ==
    IF Running THEN Became(outcome) ELSE UNCHANGED <<pump, rows, open>>

-----------------------------------------------------------------------------
(* The user and the machine *)

\* A sleep is seen to be over at the first tick after it. Nothing of Ops happens
\* in the second before that, in the moment before a reseed, at the time of a
\* recovered row, or while the program does not run.
Unaware == reseed \/ (due /\ (pump.suspended \/ Missing(pump)))

Uses(op) ==
    /\ op \in Ops /\ used.ops < MaxOps /\ Running /\ ~Unaware
    /\ \A i \in DOMAIN rows : rows[i].kind = "recovered" => rows[i].ts < now
    /\ used' = [used EXCEPT !.ops = @ + 1]
Soils(op) == dirty' = dirty \cup {<<sess, op>>}

Focus ==
    /\ Running /\ power # "asleep" /\ front # None /\ used.switches < MaxSwitches
    /\ \E app \in App \ {front} : front' = app /\ Became(Switch(pump, app))
    /\ used' = [used EXCEPT !.switches = @ + 1]
    /\ UNCHANGED <<now, power, slept, inputs, past, due, notice, gate, reseed, sess,
                   ended, dirty>>

\* Raw input reaches the pump, but not at the lock screen, where the next tick
\* of the timer sees it. Two rows have two times: it is not at once after the
\* idle row. An input after the tick of its time would do what one before does.
Input ==
    /\ power = "on" /\ now \notin inputs
    /\ Running => due
    /\ \A i \in DOMAIN rows : rows[i].kind = "idle" => rows[i].ts < now
    /\ inputs' = inputs \cup {now}
    /\ IF Running /\ front # None /\ pump.idle
       THEN Became([pump |-> [pump EXCEPT !.idle = FALSE], rows |-> << Mark("active") >>])
       ELSE UNCHANGED <<pump, rows, open>>
    /\ UNCHANGED <<now, power, slept, front, past, due, notice, gate, reseed, sess,
                   ended, dirty, used>>

\* on_timer_sample_at, but not between the broadcast of a suspend and the sleep,
\* where its resume row would have the time of the suspend row.
Timer ==
    /\ Running /\ due /\ power = "on"
    /\ due' = FALSE
    /\ LET woken == IF pump.suspended THEN Resume(pump)
                    ELSE IF Missing(pump) THEN Recover(pump)
                    ELSE [pump |-> pump, rows |-> <<>>]
           idled == Sampled([woken.pump EXCEPT !.tick = now])
       IN Became([pump |-> idled.pump, rows |-> woken.rows \o idled.rows])
    /\ UNCHANGED <<world, notice, gate, reseed, sess, ended, dirty, used>>

Suspend ==
    /\ power = "on" /\ Uses("suspend")
    /\ power' = "suspending"
    /\ LET e == End(pump, now)
       IN Told([pump |-> [e.pump EXCEPT !.suspended = TRUE, !.resumed = None,
                                        !.tick = now],
                rows |-> e.rows \o << Mark("suspend") >>])
    /\ UNCHANGED <<now, slept, front, inputs, past, due, notice, gate, reseed, sess,
                   ended, dirty>>

\* Sleep comes after the broadcast, or without one.
Sleep ==
    /\ \/ power = "suspending" /\ UNCHANGED <<dirty, used>>
       \/ power = "on" /\ Uses("missed") /\ Soils("missed")
    /\ power' = "asleep" /\ slept' = now
    /\ due' = FALSE
    /\ UNCHANGED <<now, front, inputs, past, notice, pump, gate, reseed, open, rows,
                   sess, ended>>

\* A sleep nobody was told of is found if it is longer than the threshold. The
\* broadcast of the resume may be lost.
Wake ==
    /\ power = "asleep"
    /\ now > slept + (IF Running /\ ~pump.suspended THEN Gap ELSE 0)
    /\ power' = "on" /\ slept' = 0 /\ notice' \in BOOLEAN /\ due' = Running
    /\ UNCHANGED <<now, front, inputs, past, pump, gate, reseed, open, rows,
                   sess, ended, dirty, used>>

ResumeNotice ==
    /\ power = "on" /\ notice
    /\ notice' = FALSE
    /\ Told(Resume(pump))
    /\ UNCHANGED <<world, due, gate, reseed, sess, ended, dirty, used>>

Lock ==
    /\ power = "on" /\ front # None /\ Uses("lock")
    /\ front' = None
    /\ LET e == End(pump, now)
       IN Told([pump |-> e.pump, rows |-> e.rows \o << Mark("lock") >>])
    /\ UNCHANGED <<now, power, slept, inputs, past, due, notice, gate, reseed, sess,
                   ended, dirty>>

Unlock ==
    /\ power = "on" /\ front = None
    /\ \E app \in App : front' = app /\ Told(Seed(pump, app))
    /\ UNCHANGED <<now, power, slept, inputs, past, due, notice, gate, reseed, sess,
                   ended, dirty, used>>

-----------------------------------------------------------------------------
(* The program *)

\* A press is an input, not at the lock screen, which the pump sees first.
Pressed == power = "on" /\ front # None /\ now \in inputs /\ ~pump.idle

\* Producers are closed before the row and opened after.
Pause ==
    /\ gate = "open" /\ Pressed /\ Uses("pause")
    /\ gate' = "paused"
    /\ StoreAll(<< Mark("paused") >>)
    /\ Soils("pause")
    /\ UNCHANGED <<world, due, notice, pump, reseed, sess, ended>>

Unpause ==
    /\ gate = "paused" /\ Pressed
    /\ \A i \in DOMAIN rows : rows[i].kind = "paused" => rows[i].ts < now
    /\ gate' = "open" /\ reseed' = TRUE
    /\ StoreAll(<< Mark("resumed") >>)
    /\ UNCHANGED <<world, due, notice, pump, sess, ended, dirty, used>>

\* Record Routine closes capture without a row.
StartRecording ==
    /\ gate = "open" /\ Pressed /\ Uses("recording")
    /\ gate' = "recording"
    /\ Soils("recording")
    /\ UNCHANGED <<world, due, notice, pump, reseed, open, rows, sess, ended>>

EndRecording ==
    /\ gate = "recording" /\ power = "on"
    /\ gate' = "open" /\ reseed' = TRUE
    /\ UNCHANGED <<world, due, notice, pump, open, rows, sess, ended, dirty, used>>

\* reseed_after_reset: the pump starts from what is there now.
Reseed ==
    /\ reseed /\ power = "on"
    /\ reseed' = FALSE
    /\ Became(Seed([Fresh0 EXCEPT !.tick = now], front))
    /\ UNCHANGED <<world, due, notice, gate, sess, ended, dirty, used>>

\* The writer's session ends after the pump's last row, without an open row.
Stop ==
    /\ power = "on" /\ Uses("stop")
    /\ rows' = rows \o (IF gate = "open" THEN End(pump, now).rows ELSE <<>>)
    /\ open' = Closed
    /\ ended' = [ended EXCEPT ![sess] = now]
    /\ sess' = 0 /\ pump' = Fresh0 /\ gate' = "open" /\ reseed' = FALSE
    /\ due' = FALSE
    /\ UNCHANGED <<world, notice, dirty>>

Crash ==
    /\ Uses("crash") /\ Soils("crash")
    /\ open' = [open EXCEPT !.seg = None]
    /\ sess' = 0 /\ pump' = Fresh0 /\ gate' = "open" /\ reseed' = FALSE
    /\ due' = FALSE
    /\ UNCHANGED <<world, notice, rows, ended>>

\* An open_focus row left by a session that did not end becomes its last row.
Repaired ==
    IF open.row = None \/ ended[open.row.sess] # None THEN rows
    ELSE Append(rows, [kind |-> "focus", sess |-> open.row.sess,
                       ts |-> open.row.high, dur |-> open.row.high - open.row.start,
                       app |-> open.row.app, prev |-> open.row.app])

\* Sessions without an end get the time of their last row.
Finalized(stored) ==
    [s \in DOMAIN ended |->
        IF ended[s] # None THEN ended[s]
        ELSE Max({0} \cup {stored[i].ts : i \in {j \in DOMAIN stored : stored[j].sess = s}})]

Start ==
    /\ ~Running /\ power = "on"
    /\ LET s == Len(ended) + 1
           seeded == Seed([Fresh0 EXCEPT !.tick = now], front)
           first == [i \in DOMAIN seeded.rows |-> [seeded.rows[i] EXCEPT !.sess = s]]
       IN /\ sess' = s
          /\ ended' = Append(Finalized(Repaired), None)
          /\ pump' = seeded.pump
          /\ rows' = Repaired \o first
          /\ open' = FoldLeft(Noted, Closed, first)
    /\ due' = TRUE
    /\ UNCHANGED <<world, notice, gate, reseed, dirty, used>>

-----------------------------------------------------------------------------
(* Time passes, from the first start on, once the pump has settled. *)

Tick ==
    /\ now < MaxTime /\ ended # <<>>
    /\ Settled \/ power = "asleep"
    /\ now' = now + 1
    /\ past' = Append(past, [app |-> front, awake |-> power = "on",
                             gate |-> gate, sess |-> sess])
    /\ due' = (Running /\ power = "on")
    /\ UNCHANGED <<power, slept, front, inputs, notice, pump, gate, reseed, open,
                   rows, sess, ended, dirty, used>>

Init ==
    /\ now = 0 /\ power = "on" /\ slept = 0
    /\ front \in App /\ inputs = {0}
    /\ due = FALSE /\ notice = FALSE
    /\ pump = Fresh0 /\ gate = "open" /\ reseed = FALSE
    /\ open = Closed /\ rows = <<>> /\ sess = 0 /\ ended = <<>>
    /\ past = <<>> /\ dirty = {}
    /\ used = [ops |-> 0, switches |-> 0]

Next ==
    \/ Focus \/ Input \/ Timer \/ Beat
    \/ Suspend \/ Sleep \/ Wake \/ ResumeNotice \/ Lock \/ Unlock
    \/ Pause \/ Unpause \/ StartRecording \/ EndRecording \/ Reseed
    \/ Stop \/ Crash \/ Start
    \/ Tick

Spec == Init /\ [][Next]_vars

\* Nothing tells applications apart: they are a symmetry set of the runs.
Interchangeable == Permutations(App)

-----------------------------------------------------------------------------
(* The read layer. A span is a set of units of time. *)

Span(from, to) == from .. to - 1
OfKind(s, kind) == {rows[i] : i \in {j \in DOMAIN rows :
                                        rows[j].sess = s /\ rows[j].kind = kind}}

\* The first row of that kind strictly later, or the end of the session.
EndOf(s, r, kind) ==
    LET later == {q.ts : q \in {x \in OfKind(s, kind) : x.ts > r.ts}}
    IN IF later # {} THEN Min(later)
       ELSE IF ended[s] = None THEN r.ts ELSE ended[s]

\* From r to its end, and for an idle row from when it began; nothing without
\* an end after r.
PairedSpan(s, r, kind) ==
    IF EndOf(s, r, kind) <= r.ts THEN {}
    ELSE Span(Max({0, r.ts - r.dur}), EndOf(s, r, kind))

Paired(s, from, to) == UNION {PairedSpan(s, r, to) : r \in OfKind(s, from)}

\* A recovered gap begins no earlier than the last suspend before it.
RecoveredSpan(s, r) ==
    LET before == {q.ts : q \in {x \in OfKind(s, "suspend") : x.ts <= r.ts}}
    IN Span(Max({0, r.ts - r.dur} \cup before), r.ts)

Asleep(s) ==
    Paired(s, "suspend", "resume") \cup Paired(s, "paused", "resumed")
    \cup UNION {RecoveredSpan(s, r) : r \in OfKind(s, "recovered")}

Away(s) == Asleep(s) \cup Paired(s, "idle", "active")

\* Completed dwells, by the window they belong to.
Dwells == {i \in DOMAIN rows : rows[i].kind = "focus" /\ rows[i].prev # None}
DwellSpan(i) == Span(rows[i].ts - rows[i].dur, rows[i].ts)

\* A last idle row nobody came back from reaches to now.
TrailingIdle(s) ==
    LET edges == SelectSeq(rows, LAMBDA r : r.sess = s /\ r.kind \in {"idle", "active"})
    IN IF edges = <<>> \/ Last(edges).kind = "active" THEN {}
       ELSE Span(Max({0, Last(edges).ts - Last(edges).dur}), now)

\* The open segment counts while its row is fresh.
LiveSpan ==
    IF open.row = None \/ now - open.row.high > Fresh THEN {}
    ELSE Span(open.row.start, open.row.high) \ (Away(open.row.sess) \cup TrailingIdle(open.row.sess))

Credits ==
    {[row |-> i, app |-> rows[i].prev, units |-> DwellSpan(i) \ Away(rows[i].sess)] :
        i \in Dwells}
    \cup {[row |-> 0, app |-> open.row.app, units |-> LiveSpan] :
            x \in IF open.row = None THEN {} ELSE {0}}

\* add_active_foreground_ms computes the size of these sets in one sweep of the
\* dwells by start over the merged spans of the session.
Merged(s) ==
    LET units == Away(s)
    IN {[from |-> t, to |-> Min({u \in t + 1 .. now + 1 : u \notin units})] :
            t \in {u \in units : u - 1 \notin units}}

Began(i) == rows[i].ts - rows[i].dur

\* The last of some dwells, by start and then by row.
LastByStart(dwells) ==
    CHOOSE i \in dwells : \A j \in dwells \ {i} :
        Began(j) < Began(i) \/ (Began(j) = Began(i) /\ j < i)

\* Mutant: the sweep leaves a span behind once a dwell starts in it.
PassedEarly(span, start) == span.from <= start

\* A span that ended before a dwell is left behind for good.
Passed(span, start) == span.to <= start

Positive(n) == IF n < 0 THEN 0 ELSE n

Overlap(i, span) ==
    Positive(Least(rows[i].ts, span.to)
             - (IF Began(i) < span.from THEN span.from ELSE Began(i)))

IdleOverlap(i, spans) == MapThenSumSet(LAMBDA x : Overlap(i, x), spans)

\* The cursor goes on to the first span that is not over when dwell i starts.
SweepStep(spans, i, acc) ==
    LET ahead == spans \ acc.passed
        passed == acc.passed \cup
                      {x \in ahead : \A y \in ahead : y.from <= x.from => Passed(y, Began(i))}
        away == IdleOverlap(i, {x \in spans \ passed : x.from < rows[i].ts})
    IN [passed |-> passed,
        active |-> [j \in DOMAIN acc.active \cup {i} |->
                       IF j = i THEN Positive(rows[i].ts - Began(i) - away)
                       ELSE acc.active[j]]]

Sweep(s) ==
    LET spans == Merged(s)
    IN MapThenFoldSet(LAMBDA i, acc : SweepStep(spans, i, acc),
                      [passed |-> {}, active |-> [j \in {} |-> 0]],
                      LAMBDA i : i, LAMBDA dwells : LastByStart(dwells),
                      {i \in Dwells : rows[i].sess = s}).active

-----------------------------------------------------------------------------
(* Properties *)

\* The user's input before and after unit t.
Before(t) == Max({i \in inputs : i <= t})
After(t) == {i \in inputs : i > t}

\* Idle for certain: one run of the program saw the user come back after more
\* than the threshold, on a machine that was awake. (A crash right after an idle
\* row ends the session at that row, and the row then counts for nothing. Input at
\* the lock screen of a machine that sleeps before the next tick is not seen.)
SurelyIdle(t) ==
    /\ After(t) # {}
    /\ LET back == Min(After(t))
           away == Span(Before(t), back)
       IN /\ back = now \/ past[back + 1].awake
          /\ \E s \in DOMAIN ended : <<s, "crash">> \notin dirty /\ \A u \in away : past[u + 1].sess = s
          /\ Cardinality({u \in away : past[u + 1].awake}) > IdleAfter

\* Once the pump has settled, also between a crash and its repair, a unit of time
\* is counted at most once, and for the application that was then in front, on a
\* machine that was awake, of a user who was there, with capture not paused:
\* whatever order the switches, ticks, broadcasts, sleeps, pauses, stops and
\* crashes came in (ForegroundState, PowerMonitor, OpenFocusState,
\* repair_open_focus and the readers together). A session with a recording is
\* NotSpentRecording's.
CreditedOnce ==
    Settled =>
        LET credits == Credits IN
        \A t \in 0 .. now - 1 : <<past[t + 1].sess, "recording">> \notin dirty =>
            LET credited == {c \in credits : t \in c.units}
            IN /\ Cardinality(credited) <= 1
               /\ \A c \in credited :
                     /\ c.app = past[t + 1].app
                     /\ past[t + 1].awake /\ past[t + 1].gate # "paused"
                     /\ ~SurelyIdle(t)

\* After a session of plain use (locks, suspends the pump was told of, a clean
\* stop) every unit the user spent in an application is counted for it.
EveryMinuteCounted ==
    LET credits == Credits IN
    \A t \in 0 .. now - 1 :
        LET u == past[t + 1]
        IN (/\ u.sess \in DOMAIN ended /\ ended[u.sess] # None
            /\ u.sess \notin {d[1] : d \in dirty}
            /\ u.awake /\ u.app # None
            /\ Min(After(t) \cup {ended[u.sess]}) - Before(t) < IdleAfter)
           => \E c \in credits : t \in c.units /\ c.app = u.app

\* The sweep of add_active_foreground_ms, whose cursor never goes back, finds of
\* every dwell of a session how much of it is not away.
SweepExact ==
    \A s \in DOMAIN ended :
        LET away == Away(s)
        IN Sweep(s) = [i \in {j \in Dwells : rows[j].sess = s} |->
                          Cardinality(DwellSpan(i) \ away)]

\* The time of a recording is not counted for the application that was in front
\* when it began.
NotSpentRecording ==
    (Settled /\ Running) => \A t \in 0 .. now - 1 : past[t + 1].gate = "recording" =>
        \A c \in Credits : t \notin c.units

\* No time at an empty desk reads as active, not even until the user returns
\* (what open_trailing_idle_span is for).
EmptyDeskNotActive ==
    (Settled /\ Running /\ pump.idle /\ gate = "open") =>
        \A t \in LastInput .. now - 1 : \A c \in Credits :
            (past[t + 1].sess = sess /\ \A u \in t .. now - 1 : past[u + 1].sess = sess)
            => t \notin c.units
=============================================================================
