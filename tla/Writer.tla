------------------------------- MODULE Writer -------------------------------
(***************************************************************************)
(* The writer thread of gilbreth-store, the channels that feed it and the  *)
(* database it owns: run_writer_with_commands, from the capture channel    *)
(* and the forwarder hop through the erase gate, the policy, the sequencer *)
(* and the batches to SQLite, with the tray's commands, secure erase and   *)
(* archive/reset, the open-focus heartbeat, a crash at any step and the    *)
(* repair the next start makes.                                            *)
(*                                                                         *)
(* One step is one turn of the writer's select loop, or one input of a     *)
(* drain: producers go on sending while a command drains its input.  The   *)
(* database transactions of the single connection are atomic; a commit     *)
(* that fails is a choice Faults allows.                                   *)
(***************************************************************************)
EXTENDS Sequencer, Policy, Sequences, FiniteSets

CONSTANTS
    Inputs,        \* the kinds of capture the instance takes
    Commands,      \* the commands the tray may send in it
    Faults,        \* the store operations that may fail in it
    BatchSize,     \* config.batch_size
    Threshold,     \* config.timebase_drift_threshold_ms
    Skews,         \* the distances of the wall clock from the monotonic clock
    MaxNow,        \* bound on the monotonic clock
    ChannelBound,  \* bound on each channel
    MaxCaptures, MaxCommands, MaxToggles, MaxRuns    \* bounds on what happens

ASSUME WriterAssumption ==
    /\ BatchSize \in Nat \ {0} /\ Threshold \in Nat /\ Skews \subseteq Int
    /\ 0 \in Skews /\ MaxNow \in Nat
    /\ IsFiniteSet(Reason)

VARIABLES
    now, skew,            \* Instant::now(), and how far unix_now_ms() is from it
    focus, since,         \* the window the capture side last reported, and when
    gate, blind,          \* the Foreground stream; off with its latch forgotten
    active, suspended,    \* sensitive contexts in force; a privacy operation runs
    worker, cutoff,       \* the recording actions are captured for; panic fence
    fwd, rx, cmds,        \* capture, writer-input and writer-command channels
    flushing,             \* the tray waits for the forwarder before its forget
    pc, cmd, todo,        \* the writer's place, its command, reasons to re-emit
    sq, lost,             \* the sequencer; numbers report.*_skipped accounts for
    latch, reasons,       \* the policy's state
    batch, actions,       \* rows stamped and not yet committed
    recording, paused, gapOpen,      \* WriterRecordState
    boundary,             \* erase_completion_boundary_ms
    erasedAt, masked,     \* kept for the properties: when that erase completed,
                          \* the recordings an excluded app has acted in
    segment, rowWritten,  \* OpenFocusState
    sessions, ended, rows, recs, openRecs, focusRow,   \* the database
    used                  \* what has been used up of the bounds

clocks   == <<now, skew>>
producer == <<focus, since, gate, blind, active, suspended, worker, cutoff, flushing>>
policy   == <<latch, reasons>>
pending  == <<batch, actions, lost>>
record   == <<recording, paused, gapOpen, masked>>
erasure  == <<boundary, erasedAt>>
openness == <<segment, rowWritten, focusRow>>
catalog  == <<sessions, ended, recs, openRecs>>
vars == <<clocks, producer, fwd, rx, cmds, pc, cmd, todo, sq, policy, pending,
          record, erasure, openness, catalog, rows, used>>

Wall == now + skew

NoCmd == [op |-> "none", rec |-> 0, at |-> 0]
Ops   == {"none", "forget", "start", "stop", "pause", "resume", "erase", "archive"}
NoSegment == [sess |-> 0, app |-> NoApp, start |-> 0]
NoFocusRow == [sess |-> 0, app |-> NoApp, start |-> 0, high |-> 0]
NoCutoff == [rec |-> 0, at |-> 0]

Rows == [sess : Nat, seq : Nat, ts : Int, sens : BOOLEAN, cap : Captures]

Seqs(R) == {r.seq : r \in R}
RowsOf(s) == {r \in rows : r.sess = s}

ClocksOK == now \in Int /\ skew \in Int

ProducerOK ==
    /\ focus \in App \cup {NoApp} /\ since \in Int
    /\ gate \in BOOLEAN /\ blind \in BOOLEAN /\ flushing \in BOOLEAN
    /\ active \subseteq Reason /\ suspended \in BOOLEAN /\ worker \in Nat
    /\ cutoff \in [rec : Nat, at : Int]

CommandRecords == [op : Ops, rec : Nat, at : Int]

ChannelsOK ==
    fwd \in Seq(Captures) /\ rx \in Seq(Captures) /\ cmds \in Seq(CommandRecords)

ControlOK ==
    /\ pc \in {"loop", "drain", "replace", "reemit", "shutdown", "stopped", "down"}
    /\ cmd \in CommandRecords /\ todo \subseteq Reason

PolicyOK == latch \in Latches /\ reasons \subseteq Reason

NumbersOK == sq \in Sequencers /\ lost \subseteq Nat

(* A batch is flushed when it is full. *)
BatchesOK ==
    /\ batch \subseteq Rows /\ Cardinality(batch) < BatchSize
    /\ actions \subseteq Rows /\ Cardinality(actions) < BatchSize
    /\ rows \subseteq Rows

RecordOK ==
    /\ recording \in Nat /\ paused \in Nat /\ gapOpen \in BOOLEAN
    /\ masked \subseteq Nat

ErasureOK == boundary \in Int \cup {NoTs} /\ erasedAt \in Int \cup {NoTs}

OpennessOK ==
    /\ segment \in [sess : Nat, app : App \cup {NoApp}, start : Int]
    /\ rowWritten \in BOOLEAN
    /\ focusRow \in [sess : Nat, app : App \cup {NoApp}, start : Int, high : Int]

CatalogOK ==
    /\ sessions \in Nat /\ ended \subseteq Nat
    /\ recs \in Nat /\ openRecs \subseteq Nat

UsedOK == used \in [cap : Nat, cmd : Nat, toggle : Nat, run : Nat]

TypeOK ==
    /\ ClocksOK /\ ProducerOK /\ ChannelsOK /\ ControlOK /\ PolicyOK /\ NumbersOK
    /\ BatchesOK /\ RecordOK /\ ErasureOK /\ OpennessOK /\ CatalogOK /\ UsedOK

Running == pc \notin {"stopped", "down"}

(* What a fresh process knows: nothing of the previous run survives it.    *)
FreshMemory ==
    /\ focus' = NoApp /\ since' = 0 /\ gate' = TRUE /\ blind' = FALSE
    /\ active' = {} /\ suspended' = FALSE /\ worker' = 0 /\ cutoff' = NoCutoff /\ flushing' = FALSE
    /\ fwd' = <<>> /\ rx' = <<>> /\ cmds' = <<>> /\ cmd' = NoCmd /\ todo' = {}
    /\ lost' = {} /\ latch' = "unknown" /\ reasons' = {}
    /\ batch' = {} /\ actions' = {}
    /\ recording' = 0 /\ paused' = 0 /\ gapOpen' = FALSE
    /\ boundary' = NoTs /\ erasedAt' = NoTs /\ masked' = {}
    /\ segment' = NoSegment /\ rowWritten' = FALSE

(* A fresh database whose first session has just been created. *)
Init ==
    /\ now = 0 /\ skew = 0
    /\ focus = NoApp /\ since = 0 /\ gate = TRUE /\ blind = FALSE
    /\ active = {} /\ suspended = FALSE /\ worker = 0 /\ cutoff = NoCutoff /\ flushing = FALSE
    /\ fwd = <<>> /\ rx = <<>> /\ cmds = <<>>
    /\ pc = "loop" /\ cmd = NoCmd /\ todo = {}
    /\ sq = NewSequencer(1, 0, 0) /\ lost = {}
    /\ latch = "unknown" /\ reasons = {}
    /\ batch = {} /\ actions = {}
    /\ recording = 0 /\ paused = 0 /\ gapOpen = FALSE
    /\ boundary = NoTs /\ erasedAt = NoTs /\ masked = {}
    /\ segment = NoSegment /\ rowWritten = FALSE
    /\ sessions = 1 /\ ended = {} /\ rows = {} /\ recs = 0 /\ openRecs = {}
    /\ focusRow = NoFocusRow
    /\ used = [cap |-> 0, cmd |-> 0, toggle |-> 0, run |-> 0]
-----------------------------------------------------------------------------
(***************************************************************************)
(* The capture side.  A capture takes its instant when it happens and      *)
(* enters the capture channel (fwd); the forwarder moves it to the         *)
(* writer's input (rx) later.  A full channel loses the capture, which the *)
(* guard models as a capture that never happens.                           *)
(***************************************************************************)
Capture(kind, app) ==
    [kind |-> kind, app |-> app, prev |-> NoApp, dur |-> 0,
     reason |-> NoReason, rec |-> 0, at |-> now,
     dark |-> focus \in Excluded \/ (blind /\ Excluded # {}), hot |-> active # {}]

Emit(c) ==
    /\ Running /\ ~suspended /\ c.kind \in Inputs
    /\ used.cap < MaxCaptures /\ Len(fwd) < ChannelBound
    /\ fwd' = Append(fwd, c)
    /\ used' = [used EXCEPT !.cap = @ + 1]

Asked(op) == cmd.op = op \/ \E i \in 1 .. Len(cmds) : cmds[i].op = op

writerVars == <<rx, cmds, pc, cmd, todo, sq, policy, pending, record,
                erasure, openness, catalog, rows>>

(* FocusChanged to another window, with the dwell of the one it replaces. *)
FocusTo(app) ==
    /\ gate /\ app # focus
    /\ Emit([Capture("focus", app) EXCEPT
                !.prev = focus,
                !.dur = IF focus = NoApp THEN 0 ELSE now - since])
    /\ focus' = app /\ since' = now /\ blind' = FALSE
    /\ UNCHANGED <<clocks, gate, active, suspended, worker, cutoff, flushing, writerVars>>

(* The self-close row (prev = window) of a segment without a successor. *)
FocusClosed ==
    /\ gate /\ focus # NoApp
    /\ Emit([Capture("focus", focus) EXCEPT !.prev = focus, !.dur = now - since])
    /\ focus' = NoApp
    /\ UNCHANGED <<clocks, since, gate, blind, active, suspended, worker, cutoff, flushing, writerVars>>

(* Every capture that leaves the capture side's own state alone. *)
PlainCapture ==
    /\ \/ \E app \in {NoApp, focus} : Emit(Capture("input", app))
       \/ \E kind \in {"window", "process"}, app \in App : Emit(Capture(kind, app))
       \/ \E kind \in {"notice", "wake"} : Emit(Capture(kind, NoApp))
    /\ UNCHANGED <<clocks, producer, writerVars>>

(* Suspend, lock, disconnect: the segment ends with no row of its own. *)
CutCapture ==
    /\ Emit(Capture("cut", NoApp))
    /\ focus' = NoApp
    /\ UNCHANGED <<clocks, since, gate, blind, active, suspended, worker, cutoff, flushing, writerVars>>

Boundary(kind, r) == [Capture(kind, NoApp) EXCEPT !.reason = r]

(* A protected context begins or ends.  Its boundary bypasses the stream   *)
(* gates; under suspension it is left to the reconcile that ends it.       *)
SensitiveBoundary(r) ==
    /\ Running /\ {"entered", "exited"} \subseteq Inputs
    /\ IF suspended
       THEN UNCHANGED fwd /\ used.toggle < MaxToggles
              /\ used' = [used EXCEPT !.toggle = @ + 1]
       ELSE Emit(Boundary(IF r \in active THEN "exited" ELSE "entered", r))
    /\ active' = IF r \in active THEN active \ {r} ELSE active \cup {r}
    /\ UNCHANGED <<clocks, focus, since, gate, blind, suspended, worker, cutoff, flushing, writerVars>>

Orders(S) == {q \in [1 .. Cardinality(S) -> S] : \A x \in S : \E i \in DOMAIN q : q[i] = x}

(* reconcile_sensitive_context_after_pause: every context is closed, then  *)
(* those in force are opened again, ahead of anything captured later.      *)
Reconcile ==
    \E out \in Orders(Reason), back \in Orders(active) :
        fwd' = fwd \o [i \in DOMAIN out |-> Boundary("exited", out[i])]
                \o [i \in DOMAIN back |-> Boundary("entered", back[i])]

(* The privacy operation is over, and there is a session to record into.   *)
ResumeCapture ==
    /\ Running /\ suspended /\ sessions > 0
    /\ ~Asked("erase") /\ ~Asked("archive")
    /\ suspended' = FALSE /\ focus' = NoApp
    /\ IF "entered" \in Inputs THEN Reconcile ELSE UNCHANGED fwd
    /\ UNCHANGED <<clocks, since, gate, blind, active, worker, cutoff, flushing, used, writerVars>>

Forward ==
    /\ Running /\ fwd # <<>> /\ Len(rx) < ChannelBound
    /\ rx' = Append(rx, Head(fwd)) /\ fwd' = Tail(fwd)
    /\ UNCHANGED <<clocks, producer, cmds, pc, cmd, todo, sq, policy, pending,
                   record, erasure, openness, catalog, rows, used>>

(* The record worker sends its actions to the writer's input directly. *)
ActionCaptured(app) ==
    /\ Running /\ "action" \in Inputs /\ worker # 0
    /\ used.cap < MaxCaptures /\ Len(rx) < ChannelBound
    /\ rx' = Append(rx, [Capture("action", app) EXCEPT
                            !.rec = worker, !.dark = cutoff.rec = worker])
    /\ used' = [used EXCEPT !.cap = @ + 1]
    /\ UNCHANGED <<clocks, producer, fwd, cmds, pc, cmd, todo, sq, policy,
                   pending, record, erasure, openness, catalog, rows>>
-----------------------------------------------------------------------------
(***************************************************************************)
(* The tray: clocks, the Foreground toggle, the commands it sends and the  *)
(* panic fence it arms; and what ends or starts the process.               *)
(***************************************************************************)
Tick ==
    /\ Running /\ now < MaxNow /\ now' = now + 1
    /\ UNCHANGED <<skew, producer, fwd, used, writerVars>>

(* The wall clock is set, or the machine slept and only it went on. *)
WallStep ==
    /\ Running /\ skew' \in Skews \ {skew}
    /\ used.toggle < MaxToggles /\ used' = [used EXCEPT !.toggle = @ + 1]
    /\ UNCHANGED <<now, producer, fwd, writerVars>>

Send(op, r) ==
    /\ Running /\ op \in Commands
    /\ used.cmd < MaxCommands /\ Len(cmds) < ChannelBound
    /\ cmds' = Append(cmds, [op |-> op, rec |-> r, at |-> 0])
    /\ used' = [used EXCEPT !.cmd = @ + 1]

restOfWriter == <<rx, pc, cmd, todo, sq, policy, pending, record, erasure,
                  openness, catalog, rows>>

(* forget_focus_attribution_on_stream_toggle: the gate closes first, then  *)
(* the forwarder hop is flushed, and only then the forget is sent.         *)
CloseGate ==
    /\ Running /\ gate /\ ~flushing /\ "forget" \in Commands
    /\ used.toggle < MaxToggles /\ used' = [used EXCEPT !.toggle = @ + 1]
    /\ gate' = FALSE /\ flushing' = TRUE
    /\ UNCHANGED <<clocks, focus, since, blind, active, suspended, worker, cutoff, fwd, writerVars>>

SendForget ==
    /\ flushing /\ fwd = <<>>
    /\ Send("forget", 0)
    /\ flushing' = FALSE
    /\ UNCHANGED <<clocks, focus, since, gate, blind, active, suspended, worker, cutoff, fwd, restOfWriter>>

OpenGate ==
    /\ Running /\ ~gate /\ ~flushing
    /\ gate' = TRUE /\ blind' = FALSE
    /\ UNCHANGED <<clocks, focus, since, active, suspended, worker, cutoff, flushing, fwd, used, writerVars>>

(* The tray offers Start only while nothing records, and Pause, Resume and *)
(* Stop for the recording its worker captures.                             *)
RecordCommand ==
    /\ \/ worker = 0 /\ recording = 0 /\ ~Asked("start") /\ Send("start", 0)
       \/ worker # 0 /\ ~Asked("stop")
             /\ \E op \in {"pause", "resume", "stop"} : Send(op, worker)
    /\ UNCHANGED <<clocks, producer, fwd, restOfWriter>>

(* Panic: the fence is armed at the keypress; then the worker is frozen,   *)
(* and only then the stop is sent.                                         *)
PanicArm ==
    /\ Running /\ worker # 0 /\ "stop" \in Commands /\ cutoff.rec # worker
    /\ cutoff' = [rec |-> worker, at |-> now]
    /\ UNCHANGED <<clocks, focus, since, gate, blind, active, suspended, worker,
                   flushing, fwd, used, writerVars>>

PanicStop ==
    /\ worker # 0 /\ cutoff.rec = worker
    /\ worker' = 0
    /\ IF Asked("stop") THEN Running /\ UNCHANGED <<cmds, used>> ELSE Send("stop", worker)
    /\ UNCHANGED <<clocks, focus, since, gate, blind, active, suspended, cutoff,
                   flushing, fwd, restOfWriter>>

(* The tray learns that a recording started, or that it stopped. *)
WorkerStarts ==
    /\ Running /\ worker = 0 /\ recording # 0 /\ ~Asked("stop")
    /\ cutoff.rec # recording
    /\ worker' = recording
    /\ UNCHANGED <<clocks, focus, since, gate, blind, active, suspended, cutoff, flushing, fwd, used, writerVars>>

WorkerStops ==
    /\ Running /\ recording = 0 /\ ~Asked("stop")
    /\ worker # 0 \/ cutoff # NoCutoff
    /\ worker' = 0 /\ cutoff' = NoCutoff
    /\ UNCHANGED <<clocks, focus, since, gate, blind, active, suspended, flushing, fwd, used, writerVars>>

(* Erase and archive are refused while the tray knows of a recording; the  *)
(* writer may already have one the tray has not heard of.  Capture is      *)
(* suspended first, but a capture already taken may still be in fwd: the   *)
(* flush only finds the hop quiet for a while.                             *)
PrivacyCommand ==
    /\ worker = 0 /\ ~suspended /\ suspended' = TRUE
    /\ \E op \in {"erase", "archive"} : Send(op, 0)
    /\ UNCHANGED <<clocks, focus, since, gate, blind, active, worker, cutoff,
                   flushing, fwd, restOfWriter>>

(* The stop token is cancelled: the loop ends and its input is drained. *)
Shutdown ==
    /\ pc = "loop" /\ pc' = "shutdown"
    /\ UNCHANGED <<clocks, producer, fwd, rx, cmds, cmd, todo, sq, policy,
                   pending, record, erasure, openness, catalog, rows, used>>

(* The process dies where it stands: memory goes, the database stays. *)
Crash ==
    /\ Running /\ pc' = "down"
    /\ used.run < MaxRuns /\ used' = [used EXCEPT !.run = @ + 1]
    /\ FreshMemory
    /\ UNCHANGED <<clocks, sq, focusRow, catalog, rows>>
-----------------------------------------------------------------------------
(***************************************************************************)
(* The database transactions of a flush.                                   *)
(***************************************************************************)
Outcomes(fault) == IF fault \in Faults THEN BOOLEAN ELSE {TRUE}

(* insert_events and insert_actions skip what the schema refuses: a row of *)
(* a session that is gone, an action of a recording that is closed.        *)
Insertable(r) ==
    /\ r.sess \in 1 .. sessions
    /\ r.cap.kind \in {"action", "gap"} => r.cap.rec \in openRecs

(* Commit the rows B of a batch, or lose the whole batch when the commit   *)
(* fails for good.  Skipped rows keep their numbers, as a hole.            *)
CommitOf(B, ok) == IF ok THEN {r \in B : Insertable(r)} ELSE {}

(* Mutant: the batch is flushed one row late.                              *)
HasRoomOffByOne(B) == Cardinality(B) <= BatchSize

HasRoom(B) == Cardinality(B) < BatchSize

PushEvent(row) ==
    LET full == batch \cup {row}
    IN  IF HasRoom(full)
        THEN batch' = full /\ UNCHANGED <<rows, lost>>
        ELSE \E ok \in Outcomes("busy") :
                LET done == CommitOf(full, ok)
                IN  /\ rows' = rows \cup done
                    /\ lost' = lost \cup Seqs(full \ done)
                    /\ batch' = {}

PushAction(row) ==
    LET full == actions \cup {row}
    IN  IF HasRoom(full)
        THEN actions' = full /\ UNCHANGED <<rows, lost>>
        ELSE \E ok \in Outcomes("busy") :
                LET done == CommitOf(full, ok)
                IN  /\ rows' = rows \cup done
                    /\ lost' = lost \cup Seqs(full \ done)
                    /\ actions' = {}

(* flush_all_batches: two transactions, either of which may fail. *)
FlushAll ==
    \E okE, okA \in Outcomes("busy") :
        LET done == CommitOf(batch, okE) \cup CommitOf(actions, okA)
        IN  /\ rows' = rows \cup done
            /\ lost' = lost \cup Seqs((batch \cup actions) \ done)
            /\ batch' = {} /\ actions' = {}

Row(s, c, redacted) ==
    [sess |-> s.session, seq |-> s.next, ts |-> TimestampFor(s, c.at),
     sens |-> redacted, cap |-> c]
-----------------------------------------------------------------------------
(***************************************************************************)
(* The open-focus row, the evidence of a segment a crash cuts short.       *)
(***************************************************************************)
DropFocusRow ==
    IF rowWritten
    THEN \E ok \in Outcomes("focus") :
            /\ rowWritten' = ~ok
            /\ focusRow' = IF ok THEN NoFocusRow ELSE focusRow
    ELSE UNCHANGED <<rowWritten, focusRow>>

(* Mutant: the segment is forgotten, its row stays behind.                 *)
ForgetSegmentOnly == segment' = NoSegment /\ UNCHANGED <<rowWritten, focusRow>>

ClearOpenFocus == segment' = NoSegment /\ DropFocusRow

NoteOpenFocus(row) ==
    IF row.cap.kind = "focus" /\ row.cap.prev # row.cap.app
    THEN /\ segment' = [sess |-> row.sess, app |-> row.cap.app, start |-> row.ts]
         /\ DropFocusRow
    ELSE IF row.cap.kind \in {"focus", "cut"}
    THEN ClearOpenFocus
    ELSE UNCHANGED openness

BeatOpenFocus ==
    /\ pc = "loop" /\ segment # NoSegment
    /\ LET ts == TimestampFor(sq, now)
       IN  focusRow' = [sess |-> segment.sess, app |-> segment.app,
                        start |-> segment.start,
                        high |-> IF ts < segment.start THEN segment.start ELSE ts]
    /\ rowWritten' = TRUE
    /\ UNCHANGED <<clocks, producer, fwd, rx, cmds, pc, cmd, todo, sq, policy,
                   pending, record, erasure, segment, catalog, rows, used>>
-----------------------------------------------------------------------------
(***************************************************************************)
(* One input of the writer: queue_captured and queue_action.  Each of the  *)
(* three outcomes of a capture, and of the two of an action, is an action. *)
(***************************************************************************)
(* Mutant: the gate compares the clamped timestamp, which a row stamped    *)
(* since the erase lifts over the boundary.                                *)
StaleClamped(c) == boundary # NoTs /\ TimestampFor(sq, c.at) < boundary

Stale(c) == boundary # NoTs /\ Projected(sq, c.at) < boundary

SequencerFor(c) == IF c.kind = "wake" THEN Resynced(sq, now, Wall, Threshold) ELSE sq

ApplyPolicyState(c) ==
    /\ latch' = LatchAfter(c, latch)
    /\ reasons' = ReasonsAfter(c, reasons)
    /\ gapOpen' = IF c.kind = "focus" /\ c.app \notin Excluded THEN FALSE ELSE gapOpen

(* Captured before the erase boundary: it leaves no trace but a counter. *)
DropStale(c) ==
    /\ Stale(c)
    /\ UNCHANGED <<sq, policy, pending, record, openness, rows>>

(* Mutant: the row takes its number first.                                 *)
DropExcludedStamped(c) ==
    /\ ~Stale(c) /\ Excludes(c, latch)
    /\ ApplyPolicyState(c)
    /\ sq' = Stamped(sq, c.at)
    /\ IF c.kind = "focus" THEN ClearOpenFocus ELSE UNCHANGED openness
    /\ UNCHANGED <<pending, recording, paused, masked, rows>>

(* Mutant: an excluded boundary row does not reach the suppression state.  *)
DropExcludedUntracked(c) ==
    /\ ~Stale(c) /\ Excludes(c, latch)
    /\ latch' = LatchAfter(c, latch)
    /\ IF c.kind = "focus" THEN ClearOpenFocus ELSE UNCHANGED openness
    /\ UNCHANGED <<sq, reasons, pending, record, rows>>

(* Dropped at the exclusion boundary, before it takes a number. *)
DropExcluded(c) ==
    /\ ~Stale(c) /\ Excludes(c, latch)
    /\ ApplyPolicyState(c)
    /\ IF c.kind = "focus" THEN ClearOpenFocus ELSE UNCHANGED openness
    /\ UNCHANGED <<sq, pending, recording, paused, masked, rows>>

StoreCaptured(c) ==
    /\ ~Stale(c) /\ ~Excludes(c, latch)
    /\ ApplyPolicyState(c)
    /\ LET s == SequencerFor(c)
           row == Row(s, Scrubbed(c), Redacts(c, ReasonsAfter(c, reasons)))
       IN  /\ sq' = Stamped(s, c.at)
           /\ NoteOpenFocus(row)
           /\ PushEvent(row)
    /\ UNCHANGED <<actions, recording, paused, masked>>

QueueCaptured(c) == DropStale(c) \/ DropExcluded(c) \/ StoreCaptured(c)

(* Mutant: an action taken at the very instant of the key is kept.         *)
PanicRejectsLater(a) == cutoff.rec = a.rec /\ a.at > cutoff.at

PanicRejects(a) == cutoff.rec = a.rec /\ a.at >= cutoff.at

ActionDropped(a) ==
    \/ recording # a.rec
    \/ PanicRejects(a)
    \/ paused = a.rec
    \/ Suppress /\ reasons # {} /\ a.app \notin Excluded

DropAction(a) ==
    /\ ActionDropped(a)
    /\ UNCHANGED <<sq, policy, pending, record, openness, rows>>

(* Mutant: every excluded action leaves a marker.                          *)
MarkEveryAction(a) ==
    /\ ~ActionDropped(a) /\ a.app \in Excluded
    /\ gapOpen' = TRUE /\ masked' = masked \cup {a.rec}
    /\ sq' = Stamped(sq, a.at)
    /\ PushAction(Row(sq, [a EXCEPT !.kind = "gap", !.app = NoApp], FALSE))
    /\ UNCHANGED <<policy, batch, recording, paused, openness>>

(* One marker stands for a run of excluded actions and carries nothing of  *)
(* them but the instant and the recording.                                 *)
MarkGap(a) ==
    /\ ~ActionDropped(a) /\ a.app \in Excluded
    /\ gapOpen' = TRUE /\ masked' = masked \cup {a.rec}
    /\ IF gapOpen
       THEN UNCHANGED <<sq, actions, lost, rows>>
       ELSE /\ sq' = Stamped(sq, a.at)
            /\ PushAction(Row(sq, [a EXCEPT !.kind = "gap", !.app = NoApp], FALSE))
    /\ UNCHANGED <<policy, batch, recording, paused, openness>>

StoreAction(a) ==
    /\ ~ActionDropped(a) /\ a.app \notin Excluded
    /\ gapOpen' = FALSE
    /\ sq' = Stamped(sq, a.at)
    /\ PushAction(Row(sq, a, FALSE))
    /\ UNCHANGED <<policy, batch, recording, paused, masked, openness>>

Queue(c) ==
    IF c.kind = "action"
    THEN DropAction(c) \/ MarkGap(c) \/ StoreAction(c)
    ELSE QueueCaptured(c)

(* The writer takes inputs in its loop, in a command's drain and in the    *)
(* drain before it stops.                                                  *)
TakeInput ==
    /\ pc \in {"loop", "drain", "shutdown"} /\ rx # <<>>
    /\ rx' = Tail(rx) /\ Queue(Head(rx))
    /\ UNCHANGED <<clocks, producer, fwd, cmds, pc, cmd, todo, erasure, catalog, used>>

(* The flush ticker. *)
FlushTick ==
    /\ pc = "loop" /\ batch \cup actions # {}
    /\ FlushAll
    /\ UNCHANGED <<clocks, producer, fwd, rx, cmds, pc, cmd, todo, sq, policy,
                   record, erasure, openness, catalog, used>>

(* The writer heartbeat measures the drift of the timebase. *)
Heartbeat ==
    /\ pc = "loop" /\ sq' = Resynced(sq, now, Wall, Threshold) /\ sq' # sq
    /\ UNCHANGED <<clocks, producer, fwd, rx, cmds, pc, cmd, todo, policy, pending,
                   record, erasure, openness, catalog, rows, used>>
-----------------------------------------------------------------------------
(***************************************************************************)
(* Commands.  Forget and stop sweep the input first, erase and archive     *)
(* wait until it is quiet: each takes effect in the step that finds the    *)
(* input empty.                                                            *)
(***************************************************************************)
Next1(op) == pc = "loop" /\ cmds # <<>> /\ Head(cmds).op = op /\ cmds' = Tail(cmds)

(* start_recording; the row needs its session, whose absence the foreign   *)
(* key refuses.                                                            *)
StartRecording ==
    /\ Next1("start")
    /\ IF sessions > 0 /\ sq.session <= sessions
       THEN /\ recs' = recs + 1 /\ openRecs' = openRecs \cup {recs + 1}
            /\ recording' = recs + 1 /\ paused' = 0
       ELSE UNCHANGED <<recs, openRecs, recording, paused>>
    /\ UNCHANGED <<clocks, producer, fwd, rx, pc, cmd, todo, sq, policy, pending,
                   gapOpen, masked, erasure, openness, sessions, ended, rows, used>>

PauseRecording ==
    /\ Next1("pause")
    /\ paused' = IF Head(cmds).rec \in 1 .. recs THEN Head(cmds).rec ELSE paused
    /\ UNCHANGED <<clocks, producer, fwd, rx, pc, cmd, todo, sq, policy, pending,
                   recording, gapOpen, masked, erasure, openness, catalog, rows, used>>

ResumeRecording ==
    /\ Next1("resume")
    /\ paused' = IF paused = Head(cmds).rec THEN 0 ELSE paused
    /\ UNCHANGED <<clocks, producer, fwd, rx, pc, cmd, todo, sq, policy, pending,
                   recording, gapOpen, masked, erasure, openness, catalog, rows, used>>

(* The writer's own record state is the authority that refuses an erase. *)
RefusePrivacy ==
    /\ Next1("erase") \/ Next1("archive")
    /\ recording # 0
    /\ UNCHANGED <<clocks, producer, fwd, rx, pc, cmd, todo, sq, policy, pending,
                   record, erasure, openness, catalog, rows, used>>

BeginDrain ==
    /\ \/ Next1("forget") \/ Next1("stop")
       \/ (Next1("erase") \/ Next1("archive")) /\ recording = 0
    /\ pc' = "drain" /\ cmd' = Head(cmds)
    /\ UNCHANGED <<clocks, producer, fwd, rx, todo, sq, policy, pending, record,
                   erasure, openness, catalog, rows, used>>

Drained(op) == pc = "drain" /\ cmd.op = op /\ rx = <<>>

(* Mutant: the reply is never sent.                                        *)
DoneUnanswered == pc' = "loop" /\ UNCHANGED cmd

Done == pc' = "loop" /\ cmd' = NoCmd

FinishForget ==
    /\ Drained("forget") /\ Done
    /\ latch' = "unknown"
    /\ ClearOpenFocus
    /\ LET last == ~gate /\ ~flushing /\ \A i \in 1 .. Len(cmds) : cmds[i].op # "forget"
       IN  blind' = last /\ focus' = IF last THEN NoApp ELSE focus
    /\ UNCHANGED <<clocks, since, gate, active, suspended, worker, cutoff, flushing, fwd, rx,
                   cmds, todo, sq, reasons, pending, record, erasure, catalog, rows, used>>

(* Mutant: the recording closes over the actions still pending.            *)
StopUnflushed ==
    /\ Drained("stop") /\ Done
    /\ openRecs' = openRecs \ {cmd.rec}
    /\ recording' = IF recording = cmd.rec THEN 0 ELSE recording
    /\ paused' = IF paused = cmd.rec THEN 0 ELSE paused
    /\ UNCHANGED <<clocks, producer, fwd, rx, cmds, todo, sq, policy, pending, rows,
                   gapOpen, masked, erasure, openness, sessions, ended, recs, used>>

(* stop_recording: everything the drain found is committed before the      *)
(* recording closes; a close that fails leaves the writer's state alone.   *)
FinishStop ==
    /\ Drained("stop") /\ Done
    /\ FlushAll
    /\ \E ok \in Outcomes("close") :
          IF ok
          THEN /\ openRecs' = openRecs \ {cmd.rec}
               /\ recording' = IF recording = cmd.rec THEN 0 ELSE recording
               /\ paused' = IF paused = cmd.rec THEN 0 ELSE paused
          ELSE UNCHANGED <<openRecs, recording, paused>>
    /\ UNCHANGED <<clocks, producer, fwd, rx, cmds, todo, sq, policy, gapOpen, masked,
                   erasure, openness, sessions, ended, recs, used>>

(* Secure erase and archive/reset up to the committed delete.  A step that *)
(* fails leaves the database as far as it came and answers the tray.       *)
Reset ==
    /\ Drained("erase") \/ Drained("archive")
    /\ \E closed \in Outcomes("close"), deleted \in Outcomes("delete") :
          \/ /\ ~closed
             /\ FlushAll /\ Done
             /\ UNCHANGED <<recording, paused, masked, catalog, focusRow>>
          \/ /\ closed /\ ~deleted
             /\ FlushAll /\ Done
             /\ recording' = 0 /\ paused' = 0 /\ openRecs' = {}
             /\ UNCHANGED <<masked, sessions, ended, recs, focusRow>>
          \/ /\ closed /\ deleted
             /\ rows' = {} /\ sessions' = 0 /\ ended' = {}
             /\ recs' = 0 /\ openRecs' = {} /\ focusRow' = NoFocusRow
             /\ recording' = 0 /\ paused' = 0
             /\ batch' = {} /\ actions' = {} /\ lost' = {} /\ masked' = {}
             /\ pc' = "replace" /\ UNCHANGED cmd
    /\ UNCHANGED <<clocks, producer, fwd, rx, cmds, todo, sq, policy, gapOpen,
                   erasure, segment, rowWritten, used>>

(* Mutant: the fresh session starts without the contexts in force.         *)
ReemitNone == {}

ToReemit == IF Suppress THEN reasons ELSE {}

(* create_replacement_session, and the erase boundary it completes at.     *)
Replace ==
    /\ pc = "replace"
    /\ sessions' = 1
    /\ sq' = NewSequencer(1, now, Wall)
    /\ boundary' = IF cmd.op = "erase" THEN Wall ELSE NoTs
    /\ erasedAt' = IF cmd.op = "erase" THEN now ELSE NoTs
    /\ segment' = NoSegment /\ rowWritten' = FALSE
    /\ pc' = "reemit" /\ cmd' = [cmd EXCEPT !.at = now]
    /\ todo' = ToReemit
    /\ UNCHANGED <<clocks, producer, fwd, rx, cmds, policy, pending, record,
                   focusRow, ended, recs, openRecs, rows, used>>

ReplaceFails ==
    /\ pc = "replace" /\ "session" \in Faults
    /\ Done
    /\ UNCHANGED <<clocks, producer, fwd, rx, cmds, todo, sq, policy, pending,
                   record, erasure, openness, catalog, rows, used>>

(* reemit_active_sensitive_contexts puts the contexts still in force at    *)
(* the head of the fresh session.                                          *)
Reemit ==
    /\ pc = "reemit"
    /\ \/ /\ todo = {} /\ Done
          /\ UNCHANGED <<todo, sq, policy, pending, record, openness, rows>>
       \/ \E r \in todo :
             /\ QueueCaptured([Capture("entered", NoApp) EXCEPT
                                  !.reason = r, !.at = cmd.at, !.dark = FALSE])
             /\ todo' = todo \ {r}
             /\ UNCHANGED <<pc, cmd>>
    /\ UNCHANGED <<clocks, producer, fwd, rx, cmds, erasure, catalog, used>>

(* The clean end: batches, the open-focus row, recordings, the session.    *)
Stop ==
    /\ pc = "shutdown" /\ rx = <<>> /\ pc' = "stopped"
    /\ FlushAll
    /\ ClearOpenFocus
    /\ \E closed, finished \in Outcomes("close") :
          /\ openRecs' = IF closed THEN {} ELSE openRecs
          /\ ended' = IF closed /\ finished THEN ended \cup {sq.session} ELSE ended
    /\ UNCHANGED <<clocks, producer, fwd, rx, cmds, cmd, todo, sq, policy, record,
                   erasure, sessions, recs, used>>

(* GilbrethStore::open.  A row left by a session that did not end becomes  *)
(* the self-close row of its segment, numbered after what was stored.      *)
Recovered(n) ==
    [sess |-> focusRow.sess, seq |-> n, ts |-> focusRow.high, sens |-> FALSE,
     cap |-> [kind |-> "focus", app |-> focusRow.app, prev |-> focusRow.app,
              dur |-> focusRow.high - focusRow.start, reason |-> NoReason,
              rec |-> 0, at |-> focusRow.high, dark |-> FALSE, hot |-> FALSE]]

Repair ==
    IF focusRow # NoFocusRow /\ focusRow.sess \in (1 .. sessions) \ ended
    THEN \E n \in {1} \cup {r.seq + 1 : r \in RowsOf(focusRow.sess)} :
            /\ \A r \in RowsOf(focusRow.sess) : r.seq < n
            /\ rows' = rows \cup {Recovered(n)}
    ELSE rows' = rows

(* Mutant: the next start goes on with the session it found.               *)
StartReopens ==
    /\ ~Running /\ pc' = "loop"
    /\ FreshMemory
    /\ Repair /\ focusRow' = NoFocusRow
    /\ ended' = 1 .. sessions /\ UNCHANGED sessions
    /\ sq' = NewSequencer(sessions, now, Wall)
    /\ openRecs' = {}
    /\ used.run < MaxRuns /\ used' = [used EXCEPT !.run = @ + 1]
    /\ UNCHANGED <<clocks, recs>>

Start ==
    /\ ~Running /\ pc' = "loop"
    /\ FreshMemory
    /\ Repair /\ focusRow' = NoFocusRow
    /\ ended' = 1 .. sessions /\ sessions' = sessions + 1
    /\ sq' = NewSequencer(sessions + 1, now, Wall)
    /\ openRecs' = {}
    /\ used.run < MaxRuns /\ used' = [used EXCEPT !.run = @ + 1]
    /\ UNCHANGED <<clocks, recs>>
-----------------------------------------------------------------------------
Next ==
    \/ \E app \in App : FocusTo(app)
    \/ FocusClosed \/ PlainCapture \/ CutCapture
    \/ \E r \in Reason : SensitiveBoundary(r)
    \/ ResumeCapture \/ Forward
    \/ \E app \in App \cup {NoApp} : ActionCaptured(app)
    \/ Tick \/ WallStep \/ CloseGate \/ SendForget \/ OpenGate
    \/ RecordCommand \/ PanicArm \/ PanicStop \/ WorkerStarts \/ WorkerStops \/ PrivacyCommand
    \/ Shutdown \/ Crash
    \/ TakeInput \/ FlushTick \/ Heartbeat \/ BeatOpenFocus
    \/ StartRecording \/ PauseRecording \/ ResumeRecording
    \/ RefusePrivacy \/ BeginDrain
    \/ FinishForget \/ FinishStop \/ Reset \/ Replace \/ ReplaceFails \/ Reemit
    \/ Stop \/ Start

Spec == Init /\ [][Next]_vars

(* The writer's select picks among its ready arms at random, so that each  *)
(* of them is taken in the end; the forwarder and the worker of a privacy  *)
(* operation are loops of their own threads.  The tickers, the tray and    *)
(* the machine owe nothing.                                                *)
Served ==
    \/ StartRecording \/ PauseRecording \/ ResumeRecording \/ RefusePrivacy
    \/ BeginDrain \/ FinishForget \/ FinishStop
    \/ Reset \/ Replace \/ ReplaceFails \/ Reemit

FairSpec ==
    /\ Spec
    /\ WF_vars(TakeInput) /\ WF_vars(Served) /\ WF_vars(Forward)
    /\ WF_vars(ResumeCapture)
-----------------------------------------------------------------------------
(***************************************************************************)
(* Properties.                                                             *)
(***************************************************************************)
Held == rows \cup batch \cup actions

(* The exclusion boundary: nothing the writer keeps or stores names an     *)
(* excluded app, as a window, as the window left behind or as the exe of   *)
(* an action; and no row without an app is kept that was captured while an *)
(* excluded app had the focus or while nothing attributed it, whatever     *)
(* commands, erases and toggles came between its capture and its turn.     *)
ExclusionBoundary ==
    \A r \in Held :
        /\ r.cap.app \notin Excluded /\ r.cap.prev \notin Excluded
        /\ Unattributed(r.cap) => ~r.cap.dark

(* Suppression holds from the instant a context is entered to the instant  *)
(* it is exited, for every row whenever the writer comes to it: across a   *)
(* secure erase, an archive/reset, rows the exclusion boundary dropped and *)
(* boundaries that fell into a suspension.                                 *)
HotRowsRedacted ==
    Suppress => \A r \in Held :
        r.cap.hot /\ r.cap.kind \in Redactable => r.sens

(* One number, one row: below sq.next every number of the live session is  *)
(* stored, pending, or counted as skipped, and never two of these, over    *)
(* events and actions together.  An excluded row leaves no hole.           *)
SeqsAccounted ==
    Running /\ sq.session \in 1 .. sessions =>
        LET stored == Seqs(RowsOf(sq.session))
        IN  /\ 1 .. sq.next - 1 = stored \cup Seqs(batch) \cup Seqs(actions) \cup lost
            /\ stored \cap (Seqs(batch) \cup Seqs(actions) \cup lost) = {}
            /\ Seqs(batch) \cap Seqs(actions) = {}
            /\ lost \cap Seqs(batch \cup actions) = {}

(* In the session under way timestamps follow the numbers, whatever the    *)
(* wall clock did and however late a capture arrived.  (A session that     *)
(* crashed may end with a recovered row of an earlier time.)               *)
TimestampsFollowSeqs ==
    \A r, s \in Held :
        r.sess = sq.session /\ s.sess = sq.session /\ r.seq < s.seq => r.ts <= s.ts

(* What was captured before a secure erase completed is not in the         *)
(* database it left, however late it reaches the writer.                   *)
ErasedStaysErased ==
    erasedAt # NoTs => \A r \in Held : r.cap.at >= erasedAt

(* The erase gate drops nothing that was captured after the erase.         *)
NewRowsPassGate ==
    \A i \in DOMAIN rx : rx[i].kind # "action" /\ Stale(rx[i]) => rx[i].at < erasedAt

(* The replacement session says which protected contexts are in force: by  *)
(* the time it takes its first capture each has its entered row.           *)
ContextsReemitted ==
    pc = "reemit" /\ todo = {} /\ Suppress =>
        \A r \in reasons : \E e \in Held : e.cap.kind = "entered" /\ e.cap.reason = r

(* No action captured after the panic key is kept, though the worker       *)
(* is stopped after the key and its stop reaches the writer behind what    *)
(* it sent meanwhile.                                                      *)
NoActionPastPanic ==
    \A r \in Held : r.cap.kind \in {"action", "gap"} => ~r.cap.dark

(* No stamped action waits for a recording that is closed already: insert  *)
(* would skip it silently.                                                 *)
PendingActionsOpen == \A r \in actions : r.cap.rec \in openRecs

(* One marker per run of excluded actions: two markers never follow each   *)
(* other directly.                                                         *)
GapMarkersApart ==
    \A r, s \in Held :
        r.cap.kind = "gap" /\ s.cap.kind = "gap" /\ r.sess = s.sess => s.seq # r.seq + 1

(* A recording in which an excluded app acted has a marker that says so.   *)
MaskedRecordingsMarked ==
    \A n \in masked : \E r \in Held : r.cap.kind = "gap" /\ r.cap.rec = n

(* The dwell of a window is counted once: no two rows of a session record  *)
(* overlapping spans of focus, across crash and repair.                    *)
DwellCountedOnce ==
    \A r, s \in rows :
        r.sess = s.sess /\ r.seq < s.seq /\ r.cap.dur > 0 /\ s.cap.dur > 0
            => r.ts <= s.ts - s.cap.dur

(* A clean stop leaves nothing pending, no open recording, and no          *)
(* open-focus row for the next start to mistake for a crash.               *)
CleanStop ==
    pc = "stopped" =>
        /\ batch = {} /\ actions = {} /\ openRecs = {}
        /\ sq.session \in ended \/ sq.session > sessions
        /\ focusRow = NoFocusRow

(* Rows of a session that has ended never change, but for the erase of     *)
(* everything; a crashed session gains at most the row its repair adds.    *)
EndedSessionsFinal ==
    [][sessions' # 0 =>
          \A n \in ended : {r \in rows' : r.sess = n} = RowsOf(n)]_vars

(* Every command is answered, though producers go on sending while it      *)
(* drains the input, and though the writer may refuse it or fail half-way. *)
CommandsServed ==
    \A op \in Commands :
        []<>(~Asked(op) \/ pc \notin {"loop", "drain", "replace", "reemit"})

(* Capture never stays suspended, unless the erase left no session for it. *)
SuspensionEnds == []<>(~suspended \/ sessions = 0 \/ pc \in {"shutdown", "stopped"})
=============================================================================
