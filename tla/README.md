# Gilbreth: a verification development

Gilbreth records what a person does at a computer into a local SQLite database,
and must not record what the person excluded, paused, erased or protected. This
directory holds TLA+ models of the parts of it whose correctness depends on the
order in which threads, processes, commands and failures meet, the TLC
configurations that check them, and proofs about them checked by TLAPS. Every
definition is translated from the source; `PROJECT.json` maps each one to its
lines.

## 1. The system

### Components, their state and their operations

| Component | State | Operations |
|---|---|---|
| **Sequencer and timebase** (`gilbreth-core`) | `session_id`, `next_seq`, base instant and base wall clock, last timestamp | `stamp`, `timestamp_for` (clamped), `project` (unclamped), `resync_if_drifted` |
| **Privacy policy** (`gilbreth-core`) | the latch `current_focus_excluded`, `active_sensitive_reasons` | `apply_exclusion_boundary`, `scrub`, `redact_for_sensitive_context`, `forget_focus_attribution` |
| **Writer** (`gilbreth-store`) | sequencer, policy, event and action batches, record state, erase boundary, open-focus state, counters; it owns the recording connection | inputs (captured rows, actions), tickers (flush, heartbeat), commands (start/pause/resume/stop/extend recording, forget attribution, secure erase, archive/reset), shutdown |
| **Database** (`gilbreth-store`) | `sessions`, `events`, `actions`, `record_sessions`, `record_requests`, `open_focus`, `meta`, `deletion_audit` | the writer's transactions; `open` with the repair of unclean sessions; startup retention; prune and deletes from the dashboard |
| **Record requests** (`gilbreth-store`, `gilbreth-app`) | rows with a status changed by compare-and-swap; mailboxes of one place; the dialogs of the tray | propose, surface, confirm, decline, expire; the same for safety-cap prompts |
| **Archive** (`gilbreth-store`) | staging files, sealed files, portable exports | stage, seal, verify, scrub, publish, delete, replace the session; verify, export, erase archives |
| **Diagnostics counters** (`gilbreth-core`, `gilbreth-store`) | counters of the run; durable totals in `meta` | count a loss, persist at a heartbeat, rebase at an erase |
| **Capture forwarder** (`gilbreth-app`) | the channel between capture and writer | forward, flush |
| **Tray / pump** (`gilbreth-app`) | `capture_paused_by_user`, `privacy_suspension_owned`, the active recording, pending start and stop, the worker or helper, the panic fence | pause toggle, stream toggles, start dialog, start and stop lanes, panic key, erase and archive workers, UI events, liveness polls |
| **CaptureControls** (`gilbreth-core`) | suspension flag, per-stream gates, resume barrier, transition generation, pending reconcile and reseed | suspend, resume handshake, announce a transition, defer, reseed |
| **Windows capture pump** (`gilbreth-capture-windows`) | foreground segment, idle and power state, active contexts, queued boundaries | window and input events, tick, suspend and resume broadcasts, reseed, reconcile |
| **Password-field and secure-desktop monitors** (`gilbreth-capture-windows`) | confirmed state, its own boundary under way | detect, announce, send, take back, retry |
| **Record worker** (`gilbreth-capture-windows`) | target window, coalescer (pending scroll, pending edit, last value of each control) | UI Automation callbacks, follow the window in front, coalesce, flush, tear down |
| **Elevated helper** (its own process, and `gilbreth-app`) | worker, action and control pipes, keep-alive deadline; the bridge thread of the tray | forward an action, keep-alive, stop, summary; poll, join or terminate |
| **Read layer** (`gilbreth-read`) | none of its own | active time, health verdict, aggregations |
| **Dashboard** (`gilbreth-dashboard`) | none of its own | requests; prune, deletes; views |
| **Process tracking, noise filter; macOS and Linux back ends; settings, autostart, hotkey, uninstall, migration** | a process table; hooks; files, registry, schema version | diff of snapshots; the same rows as on Windows; read, write |

### How they interact

```
 capture back end --(capture channel)--> forwarder --(writer input)--> writer --> SQLite
 record worker ------------------------------------(writer input)-->   ^             ^
 elevated helper --(pipe)--> bridge ---------------(writer input)-->   |             |
 tray --(commands, with a reply channel)-------------------------------+    dashboard (own connection)
 writer --(mailboxes, UI events)--> tray
 tray, privacy workers, monitors, capture back end: shared atomics of CaptureControls
```

* Rows take their **instant** where they are captured and their **number,
  timestamp and policy decision** in the writer. Between the two lie two
  channels, or a pipe; any command can overtake a row there, and anything a row
  says of the world (who has the focus, which context is in force, which
  recording is on) may have changed when its turn comes.
* Commands that need what was captured before them drain the writer's input
  first, while the producers go on sending.
* The suspension of capture is one flag with three owners: the user's pause, a
  privacy operation, a recording. Each reads it to decide and sets it later.
* Transitions into and out of protected contexts are announced before their
  boundary rows are sent, by three threads, while a resume is under way.
* The writer answers the tray on a reply channel that may time out or close;
  what it did reaches the tray a second time as a UI event, and the two may
  arrive in any order.
* The dashboard deletes and requests over a connection of its own, at any time.

### What is hard about it

1. *Between capture and stamp.* A row stamped after the focus it was captured
   under has been forgotten; a row captured before an erase reaching the
   database after it; an action captured after the panic key reaching a
   recording that still runs for the writer.
2. *Partial failures.* A batch whose commit fails for good, an erase that
   closed the recordings but could not delete, a replacement session that
   cannot be created, a lost reply.
3. *Time.* The wall clock is set or the machine sleeps; the base moves, and
   with it the meaning of instants captured before.
4. *Crash and restart*, with a segment of focus open.
5. *Shared flags* read, acted on later, and restored by whoever thinks it owns
   them.
6. *Two threads and a handshake.* A context that begins between the check of a
   resume and its opening of the gate; a boundary that could not be sent and
   must be sent again.
7. *Compare-and-swap from three processes*, over ids that an erase restarts.
8. *Two processes that must not outlive each other's work*: the helper and its
   tray, over full pipes, dead peers and timeouts.
9. *Time accounted from both sides*: sleep that is found late, idle, dwell and
   deleted rows must neither be counted twice nor be taken for loss.

`PROJECT.json` lists the hazards with their lines and the properties aimed at
each.

### What makes each component correct

* Sequencer: timestamps follow the numbers whatever the clock does.
* Policy and writer: nothing kept names an excluded app or, lacking
  attribution, may come from one; everything captured in a protected context
  is redacted; one number, one row, and every number is accounted for; what was
  erased stays erased; contexts still in force are said again in the fresh
  session.
* Recordings: no action past the panic key; none lost to a recording closed
  too early; one marker for a run of excluded actions.
* Database: a clean stop leaves nothing to repair; a session that ended never
  changes; focus is counted once over crash and repair.
* Tray: a pause holds until it is lifted; the panic key stops the recording
  whatever lane it is in; the tray knows of the recording the writer has.
* Every command is answered and every suspension ends.
* Sensitive contexts: no ordinary row passes between the beginning of a context
  and its boundary; a resume ends and leaves the gate as it should be.
* Requests: one decision, one recording; no prompt blocks the next for ever.
* Record worker: what the user did is emitted once and in order; nothing after
  the panic key; the recording ends on both sides whatever dies.
* Retention and counters: what was deleted on purpose is told from what was lost.
* Archive: a row is in the database until it is in an archive that opens.
* Readers: each minute is credited once, to the window that had it.

## 2. The modules

| Module | Models | Kind |
|---|---|---|
| `Sequencer` | `SessionTimebase`, `Sequencer` | operators over a record |
| `Policy` | `PrivacyPolicy` as the writer calls it | operators over a capture |
| `Writer` | writer thread, its channels, forwarder, database, crash and restart; EXTENDS the two above | state machine |
| `MCWriter` | sets of clock skews for TLC | instance |
| `CaptureGate` | tray pump, privacy worker, start/stop lanes, panic key, suspension flags | state machine |
| `SensitiveGate` | `CaptureControls` under the threads of the Windows capture: transitions, resume handshake, reconcile | state machine |
| `RecordRequests` | requests, cap prompts, mailboxes, dialogs, and the writer and tray as far as they answer | state machine |
| `RecordWorker` | worker loop and coalescer, elevated helper, pipes and bridge, polls, panic freeze | state machine |
| `MCRecordWorker` | controls, events and bounds of each lane for TLC | instance |
| `Retention` | startup retention, the dashboard's deletes, the audit, the verdict of the read layer | state machine |
| `Archive` | archive and reset, sealed files and their frames, exports, erase of archives | state machine |
| `Ledger` | what archive and reset promises of a row | abstract specification |
| `Presence` | foreground segments, idle, sleep, lock, pause; the active time computed of their rows | state machine |
| `DropCounter` | the durable count of lost captures | state machine |
| `Writer_proofs` | type correctness of `Writer`; the account of the numbers, the order of timestamps, markers, ended sessions; pending actions and open recordings, the panic key; the exclusion boundary and the redaction of protected contexts | proofs |
| `CaptureGate_proofs` | type correctness of `CaptureGate`, its recordings and its pauses | proofs |
| `SensitiveGate_proofs` | all safety properties of `SensitiveGate` | proofs |
| `Channel` | what messages in a channel will have switched on by the time one of them is taken, for the two proofs about a policy behind channels | operators |
| `RecordRequests_proofs` | all safety properties of `RecordRequests` | proofs |
| `RecordWorker_proofs` | both safety properties of `RecordWorker` | proofs |
| `Archive_proofs` | all safety properties of `Archive`, and that it implements `Ledger` | proofs |
| `Retention_proofs` | foreign keys, reported losses, explained gaps, the preview and the window of `Retention` | proofs |
| `Presence_proofs` | that `Presence` credits no unit it should not and misses none it should count, and that the sweep of the readers is exact | proofs |

The modules meet where the code's components do: `Writer` composes sequencer,
policy, batches and database; `RecordWorker` and `RecordRequests` reduce the
writer to what it does with an action or a request, `CaptureGate` to its answers,
and `Presence` and `Retention` to the rows it stores. `Archive` implements
`Ledger`.

Definitions that a comment calls *Mutant* are plausible bugs; no specification
uses them. They are there to show that the property next to them in
`PROJECT.json` notices. `history` marks variables that no guard reads.

### `Writer`: state and actions against the code

| TLA+ | Code |
|---|---|
| `now`, `skew`, `Wall` | `Instant::now()`, `unix_now_ms()`; the wall clock is the monotonic one plus a skew that `WallStep` moves |
| `focus`, `since`, `gate`, `active`, `suspended` | what the capture side holds: the focused window, the Foreground stream gate, the contexts in force, the suspension for a privacy operation |
| `worker`, `cutoff` | the recording for which the record worker captures; the panic fence armed at the keypress |
| `fwd`, `rx`, `cmds` | capture channel with the forwarder's hand, writer input, command channel |
| `pc`, `cmd`, `todo` | the select loop; the command it is executing; contexts still to be re-emitted |
| `sq`, `latch`, `reasons` | the writer's `Sequencer` and `PrivacyPolicy` |
| `batch`, `actions`, `lost` | the two batches; numbers counted by `report.*_skipped` |
| `recording`, `paused`, `gapOpen` | `WriterRecordState` |
| `boundary`, `segment`, `rowWritten` | `erase_completion_boundary_ms`, `OpenFocusState` |
| `sessions`, `ended`, `rows`, `recs`, `openRecs`, `focusRow` | the tables |
| `blind`, `erasedAt`, `masked`, and the fields `dark` and `hot` of a capture | history, for the properties only |
| `TakeInput` = `DropStale`, `DropExcluded`, `StoreCaptured`, `DropAction`, `MarkGap`, `StoreAction` | `queue_captured`, `queue_action` |
| `FlushTick`, `Heartbeat`, `BeatOpenFocus` | the tickers |
| `StartRecording` ... `RefusePrivacy`, `BeginDrain`, `FinishForget`, `FinishStop`, `Reset`, `Replace`, `ReplaceFails`, `Reemit` | the command handlers; one that drains takes many steps, and producers go on between them |
| `Shutdown`, `Stop`, `Crash`, `Start` | the stop token, the final drain and flush, the death of the process, `GilbrethStore::open` with its repair |

A row in the model is the payload class, its app, the dwell, the reason, the
recording and the instant: what the policy, the sequencer and the gates tell
apart. Titles, keys, mouse positions and identities are abstracted. A full
channel loses a capture in the code; here such a capture does not happen. The
exception is what a lost `FocusChanged` does to the latch, see section 6.

### `CaptureGate`

`suspended`, `paused` (`capture_paused_by_user`) and `owned`
(`privacy_suspension_owned`) are atomics; each step reads or writes one of them
where another thread can come between. `pump` is the place in
`toggle_capture_pause`, `priv` in the privacy worker, `rec` in the thread of the
record dialog; `events` are the UI events under way, `stops` the stop lanes.
The writer is reduced to its answers and to `open`, the recording it holds.
Since the dialog thread and the pump agree on recordings only through events,
`open` and the tray's `active` differ in between.

### `SensitiveGate`

| TLA+ | Code |
|---|---|
| `suspended`, `barrier`, `guard`, `generation`, `unreconciled`, `reseed` | the atomics and the two mutexes of `CaptureControls` |
| `active`, `queue`, `pump` | the pump's `active_sensitive_reasons`, the boundaries that found the channel full, its steps |
| `confirmed`, `monitor` | the password monitor: its state, and announce, send, take-back |
| `worker`, `requests` | `resume_capture_after_quiet` on a worker thread, and the reconcile it asks the pump for |
| `hand`, `chan`, `policy` | a row checked and not yet sent, per producer; the way to the writer; the writer's contexts |

`chan` stands for capture channel, forwarder and writer input together, which
keep the order. The field `hot` of a row holds the contexts in force from its
capture to its send. A resume on the pump thread is the case in which the pump
does nothing else meanwhile.

### `RecordRequests`

`reqs` and `recs` are the tables, with the ids that an erase restarts;
`requestSlot` and `capSlot` the mailboxes of one place; `dialog`, `capDialog`,
`lane`, `stops` the threads of the tray and `prompting`, `acting` their flags;
`memory` is the writer's `WriterRecordState`. `Poll` expires what is overdue and
puts the oldest request, and one recording past its cap, into the mailboxes.
A start takes two transactions and so two steps, with a crash possible between:
`ConfirmStart` confirms the request if it is still requested, `OpenRecording`
opens the recording and marks the request started, or `FailRecording` marks it
failed. `Decline` is a compare-and-swap as well. The places the tray's threads
are in are the records in `dialog`, `capDialog`, `lane` and `stops`; `Command`
and `Event` are what may be under way between tray and writer. A crash keeps the tables, and
`Reconciled` is what the next open makes of a request left confirmed.

### `RecordWorker`

| TLA+ | Code |
|---|---|
| `raw`, `target`, `scroll`, `edit`, `last`, `hand` | the callback queue, the window subscribed to, `ActionCoalescer`, what it returned and is still to be sent |
| `HandleAct`, `HandleScroll`, `HandleEdit`, `HandleCommit` | `ActionCoalescer::handle` |
| `TakeScoped`, `TakeFocus`, `SkipFocus`, `FlushDue`, `FlushAll`, `EndWorker` | `run_record_routine_worker` |
| `helper`, `writing`, `pipe`, `control`, `bridge`, `inbox` | the main loop of the helper, the pipes, `bridge_helper_actions`, the writer's input |
| `ToWire`, `FromWire` | the conversion of an instant at each end of the pipe, over a wall clock `now + skew` |
| `tray`, `asked`, `cutoff` | `stop_recording_with_reason`, the `Stopped` event, `PanicActionCutoff` |

One action goes through the model as the set of places, in the list of what the
coalescer took, that it stands for, so that merging, dropping and reordering can
be told from loss.

### `Retention`, `Archive`, `Presence`, `DropCounter`

* `Retention`: `Start`, the prune in one transaction and the batches of the mouse
  tier are steps of their own, since a crash or the dashboard may come between.
  `lost`, `deleted` and `heirs` are history; the verdict (`Flagged`, from `Missing`,
  `Spans` and `Explained`) sees the tables only.
* `Archive`: `phase` is the step `archive_and_reset` has reached; each step may
  fail as the code lets it, and a crash may follow any. A frame opens under the
  key, the place, the end mark and the header it was sealed with: the cipher is
  that comparison. Verification reads the sealed file and nothing else. `held`
  maps the names in the archive directory to their files; `NoneIsNoFile` says
  that the value for "no file" is no file.
* `Presence`: one unit of time is 30 seconds, which is the threshold of a missed
  power boundary, the cap of the dwell across it, and the beat of the open-focus
  row. `past` is the truth of each unit; the readers' sweep runs over the rows.
* `DropCounter`: the counter of a run, the heartbeat's base and offset, and the
  total in `meta`.

## 3. What the runs check

Every run is small in the number of things that happen and complete in their
order. Constants named `Max...` bound counters, `...Bound` the length of
channels; a set `Faults` names the failures that may happen and `Ops` the
occasions. There is no other bound. Since things stop at these bounds, deadlock
is not checked.

### Runs that pass

| Run | Question | Bounds, and why they are enough |
|---|---|---|
| `writer_policy` | Is what is kept allowed (`ExclusionBoundary`), redacted where it must be (`HotRowsRedacted`), and numbered once (`SeqsAccounted`)? | An allowed and an excluded app, one context, attributed and unattributed kinds (without `window`, which is filtered and redacted as `input` is and comes from where `process` does), three captures, two of the commands forget and erase, a toggle of the stream, commits that fail. A leak needs a focus, a row that relies on it and one event between capture and turn: three captures and a command. Batches of two make full and partial flushes happen. |
| `writer_clock` | Do timestamps follow numbers (`TimestampsFollowSeqs`) when the clock is set back, does an erase last (`ErasedStaysErased`), does the fresh session name its contexts (`ContextsReemitted`)? | Two ticks, the clock two units back, threshold 0 so that every drift resynchronises, three captures, one erase. A violation needs one stamp before and one after a move of the base. `TimestampsFollowSeqs` speaks of the session under way: the row the repair adds to a crashed session takes its time from the open-focus row, which may lie before the last stored row of that session. |
| `writer_recording` | Do stops commit what they must (`PendingActionsOpen`), does the panic key cut (`NoActionPastPanic`), are markers one per run (`GapMarkersApart`), does a crash and a restart leave ended sessions alone (`EndedSessionsFinal`)? | Three actions of an allowed and an excluded app, three commands, failing commits and closes, one restart. |
| `writer_served` | Is every command answered (`CommandsServed`), does every suspension end (`SuspensionEnds`)? | `FairSpec`; all five commands that drain or start, two at a time, over rows, focus changes and boundaries, with each failure of erase and archive. |
| `gate` | Does the panic key end every recording (`PanicStops`), does the tray know it (`TrayKnowsRecording`), does a pause hold (`PauseHolds`), do the pause rows of the session tell the truth (`PauseRecorded`)? | Four toggles, a privacy operation, three recordings whose events overlap, sensitive transitions; failing starts, workers, replies, replacement sessions. The last two properties speak of behaviours without a privacy operation and without a failed start, the first two of those in which no failed start could be a second one: without this they are false, see below. |
| `sensitive` | Is every ordinary row of a protected context stored suppressed (`ProtectedRowsSuppressed`), does the policy agree with the contexts in force whenever all is quiet (`PolicyAgrees`), does every resume end (`ResumeEnds`) and leave no barrier behind (`GateReopens`)? | One context of the pump and the password field, three transitions, two suspensions by a pause or a recording, one resume by a worker, a row; a channel of two that fills up, drains that time out, boundaries that must be taken back, replies that come late. A race needs a transition between two steps of the resume and one more to undo it. `PolicyAgrees` says nothing between the restore after a recording and the next resume. |
| `requests` | Does a request start at most one recording (`StartedOnce`), only while confirmed (`ConfirmedInStart`); is one prompt up at a time (`OnePrompt`); does a cap prompt stop only its own recording, as long as no erase restarts the ids (`CapStopsOwn`); is a decision final (`DecisionsFinal`); is a request surfaced (`RequestsSurface`)? | Two requests or menu starts, one cap window, one of a privacy operation, a crash, a pause, a resume or a stop that fails, and every failing update. Interference needs two requests, or one and a menu start. |
| `record_worker` | Does the coalescer lose, repeat and reorder nothing (`Faithful`), is nothing stored that was observed after the panic key (`PanicFence`), does every recording come to its end in the tray and in the helper (`RecordingEnds`)? | Three events in the tray, actions on two values and edits, with a change of the window in front; two in the helper, actions and scrolls, one tick, one failure. Three events make a value, another value and the first again, or a pending edit with something before and after it; two fill the pipe and the helper's hand at once. The dedup window is the same instant, so that the tick lies beyond it. |
| `retention` | Is what is left whole (`Intact`), is a recorded deletion never reported as loss (`NoFalseAlarm`), is a loss reported (`LossShown`), does the preview tell what the prune takes (`PreviewExact`), does a prune spare what is recent (`RecentKept`)? | Three rows, two starts, a recording, a lost number, a clock that is set once, one delete in the dashboard, crashes between all batches. Explaining a hole wrongly needs a deletion in one session and a loss in another with its id. `NoFalseAlarm` assumes that the clock was not set; `RecentKept` that the dashboard did not delete meanwhile and that an event is left to go by. |
| `archive` | Is an archive that opens the whole of what was archived (`WhatOpensIsWhole`), is plaintext left behind reported (`PlaintextReported`), is a row in the database until it is in an archive (`ImplementsLedger`)? | Three rows, three operations, one damaged file, every step failing, crashes between all. Cutting, moving or swapping frames needs two files of two frames. |
| `presence` | Is no minute credited that was not spent in front of the window, nor twice (`CreditedOnce`), is every minute that was (`EveryMinuteCounted`), is the sweep the reference sum (`SweepExact`)? | Two windows, one switch, three units of time, two of lock, suspend, missed sleep, pause, recording, stop and crash; idle after two units. A double count needs two inactive spans that meet, or one and a dwell. `CreditedOnce` speaks of the states in which the pump has done what is due, and exempts sessions in which there was a recording. |

`Interchangeable` in `presence` permutes the two windows, which only equality
tells apart.

### The run that finds a disagreement

`drops_archive` (`DropCounter`, `GrowsByLoss`): `archive_and_reset` empties `meta`
without rebasing the heartbeat's counter, as the secure erase does. The fresh
database reads no loss until the next captured row is lost; then the whole total
of the archived database comes back. `PROJECT.json` quotes the comments and the
test it contradicts.

### Further configurations

Each of these ends in a counterexample that shows a limit of the properties
above; run it with `tlc -config <cfg> <module>`.

| Configuration (module) | Property | What happens |
|---|---|---|
| `writer_erase_resync` (`MCWriter`) | `ErasedStaysErased` | a capture taken before an erase, still in the forwarder, is projected after the clock moved forward and the base was resynchronised; its projected time passes the boundary and it enters the erased database (against `docs/ARCHITECTURE.md:438`) |
| `writer_erase_backwards` (`MCWriter`) | `NewRowsPassGate` | the clock goes back after an erase: captures taken after it fall below the boundary and are dropped |
| `writer_reemit` (`MCWriter`) | `ContextsReemitted` | with an excluded app configured, the re-emitted rows of a fresh session are dropped by the exclusion boundary while the latch is not "allowed"; redaction still holds |
| `writer_erase_latch` (`MCWriter`) | `ExclusionBoundary` | a change to an excluded window, taken before an erase and forwarded after it, is dropped by the erase gate before the policy sees it: an unattributed key of the next instant is stored (see section 5) |
| `writer_masked` (`MCWriter`) | `MaskedRecordingsMarked` | the open-run flag survives from one recording to the next, whose first excluded action then leaves no marker |
| `gate_pause_lost` (`CaptureGate`) | `PauseHoldsAlways` | the privacy worker has read "not paused" and is resuming; the user pauses; the worker then lifts the suspension, and capture runs while the tray says paused |
| `gate_start_fails` (`CaptureGate`) | `PauseHoldsAlways` | a start refused by the writer lifts the suspension although the user has paused meanwhile |
| `gate_resume_races_record` (`CaptureGate`) | `RecordExclusive` | a recording is confirmed while a resume is completing: it finds capture suspended, takes no suspension of its own, and ambient capture runs beside it; a sensitive transition under way does the same |
| `gate_restart` (`CaptureGate`) | `RestartRequired` | after a failed replacement session Pause and Resume lift the suspension, without a session |
| `gate_wipe` (`CaptureGate`) | `WipesSuspended` | a resume that began before a privacy operation took ownership opens capture during the wipe |
| `gate_report_open` (`CaptureGate`) | `SuspensionOwned` | a resume during the modal report of a privacy operation clears the pause but not the suspension |
| `gate_stop_fails` (`CaptureGate`) | `TrayKnowsRecording` | a stop the writer could not carry out is forgotten by the tray |
| `sensitive_record` (`SensitiveGate`) | `RestoredRowsSuppressed` | the end of a recording reopens capture before the pump reconciles: a row of a context that began meanwhile is stored unredacted (against the comment at `gilbreth-capture-windows/src/lib.rs:2233` and `docs/ARCHITECTURE.md:252`) |
| `requests_erased` (`RecordRequests`) | `StartedAsAsked` | a request surfaced before an erase is still in the mailbox after it; ids begin again, and its dialog confirms another request (against `gilbreth-store/src/lib.rs:2856` and `docs/ARCHITECTURE.md:437`) |
| `retention_residue` (`Retention`) | `ResidueNeverExplains` | the session begins, by its timebase, before the prune of the same start recorded its deletions; if the prune took the newest session its id is used again, and those records explain gaps of the fresh session (against `schema/README.md:53` and `gilbreth-read/src/lib.rs:9536`) |
| `presence_recording` (`Presence`) | `NotSpentRecording` | the writer goes on beating the open-focus row through a recording, and the readers credit it (against `gilbreth-store/src/lib.rs:2620`) |
| `presence_popup` (`Presence`) | `EmptyDeskNotActive` | a window that comes to the front at an empty desk is credited until idle is found (against `gilbreth-read/src/lib.rs:1107`) |
| `record_app` (`MCRecordWorker`) | `NamesItsApp` | an event of the previous window, handled after the target changed, whose process path cannot be read takes the application of the new target |
| `record_tail` (`MCRecordWorker`) | `TailStored` | an ordinary stop closes the recording before the worker flushes its pending edit or scroll, and the helper exits without forwarding it: the last edit before a stop is not stored, although the coalescer commits it (`coalescer_commits_edit_on_focus_loss_and_stop`) |
| `record_last` (`MCRecordWorker`) | `LastUsedLast` | a value set again within the dedup window after another control was used is dropped: the order of the last two is lost |
| `record_clock` (`MCRecordWorker`) | `PanicFenceAnyClock` | the wall clock is set between the helper's and the tray's conversion: an action observed after the panic key takes an instant before it |
| `record_backlog` (`MCRecordWorker`) | `RecordingEnds` | the tray has died and the helper's channel is full: `capture.stop` joins a worker that waits for room nobody makes |

`writer_openfocus` (`MCWriter`; `DwellCountedOnce`, `CleanStop`,
`EndedSessionsFinal` over three captures, two ticks and two restarts) passes and is kept beside
the runs.

## 4. Fairness

Four runs use `FairSpec`. Faults, the user, the clock and crashes owe nothing in
any of them.

* `writer_served`: weak fairness of `TakeInput` and of `Served` stands for the
  select loop, which picks at random among its ready arms; of `Forward` for the
  forwarder, a thread of its own in a loop; of `ResumeCapture` for the worker
  thread of a privacy operation. Captures are bounded, so that a producer which
  never leaves the input empty for the quiet period of a drain is not covered.
* `sensitive`: weak fairness of the pump, the monitor, the resume worker, of the
  writer taking a row, and of the notification thread sending the row it holds:
  five threads, each in a loop or in a call that returns. Transitions are
  bounded: a resume whose check is overtaken again and again is not covered,
  and the code bounds its retries.
* `requests`: weak fairness of the writer's poll and command arms, of the pump
  taking from the mailboxes, and of each thread that has been started, with the
  user answering the dialog that is up. Without the last nothing behind an open
  dialog need ever be surfaced.
* `record_worker`: weak fairness of worker, helper, bridge and writer as threads
  and of the tray's loop: its polls, `Stopped`, the join and the termination of a
  helper that does not exit, which is a timeout of the code. `HelperStops` is
  strongly fair: the main loop of the helper selects at random between a stop
  and the next action, which may be ready again and again. A loop of the tray
  that stands still (`Stall`, a modal dialog) turns again.

## 5. What is proved

TLAPS checks the following for every value of the constants: any number of
captures, commands, toggles, privacy operations, recordings and restarts, any
batch size and clock, and, except where stated, every set `Faults` of things
that may fail and `Ops` of things that may happen.

### The capture gate

* `CaptureGate_proofs!TypeCorrect`: `Spec => []TypeOK`. The invariant is
  inductive as it stands. It is proved in two halves, `Flags` (the booleans and
  the program counters) and `Values` (ids, events, stops), because the provers
  decide the two with different means; `stopping \in {0, active}` is the part
  with content.
* `PanicStopsRecording`: `Spec => []PanicStops` and `TrayAgrees`:
  `Spec => []TrayKnowsRecording`, both under the assumption `Delivered`: starts
  and stops are carried out and the pipeline can be flushed. Workers, replies and
  replacement sessions may still fail. Without it both claims are false
  (`gate_stop_fails.cfg`).
* `PauseIsHeld`: `Spec => []PauseHolds` and `PauseIsRecorded`:
  `Spec => []PauseRecorded`, the second under the assumption that the pipeline
  can be flushed.

The two properties of recordings are not inductive: they speak of quiet states,
and a quiet state is reached through many that are not. `RecordingInv` is the
strengthening. It says where a recording is between the writer and the tray: the
one the writer holds open is the newest there is (`Newest`) and is active in the tray, about to be
closed, or in an event the pump has yet to handle (`OpenKnown`); one reported as
stopped is not open (`ClosedIsOver`); a pending stop is under way
(`StopUnderWay`); starts become known in the order of their ids (`InOrder`,
`StartKnown`), so that a `Started` handled late is never mistaken for an older
recording; after the panic key the tray's recording has its stop (`StopAsked`),
from the moment the pump leaves the step that suspends. `RecordingStep` shows
that every action preserves it; `QuietAgrees` that in a quiet state, where no
event and no stop is left, it implies the two properties.

The properties of pauses end where a privacy operation begins or a start fails,
after which they are false (section 3). Until then no privacy worker is at
work and none owns the suspension (`NoPrivacy`), and a paused tray is suspended
unless the pump is at the step that will suspend it (`Held`). The rows of
pauses alternate (`Alternate`), and their number is odd exactly while the pump
has recorded a pause and not yet its resume (`Due`).

### The writer

* `Writer_proofs!WriterTypeCorrect`: `Spec => []TypeOK`, inductive as it stands,
  with a lemma for each group of variables an operation of the code changes. Two
  of its parts go beyond types: after every step a batch is smaller than
  `BatchSize`, since the push that fills it flushes it (`EventPushed`,
  `ActionPushed`); and a capture in a channel, a batch or a table names a
  recording exactly when it is an action or a marker.
* `Writer_proofs!ActionsWaitForOpenRecordings`:
  `Spec => []PendingActionsOpen`. The invariant `OpenInv` adds that the recording
  of the writer's state is open while the process runs (`RecordingOpen`), so that
  an action numbered for it may wait, and that a process which ended has nothing
  pending (`NothingLeft`), since the next one closes every recording it finds.
  The steps with content are the stop, which flushes before it closes and, if the
  close fails, leaves the recording in the state; and erase, archive and
  shutdown, which flush all batches first.
* `Writer_proofs!EveryNumberAccounted` (`Spec => []SeqsAccounted`) and
  `TimestampsInOrder` (`Spec => []TimestampsFollowSeqs`), both from `NumbersInv`:
  the stored, pending and lost numbers are disjoint and together
  `1 .. next - 1` (`Accounted`); every row is placed below the next number, in a
  session there is, and pending rows are of the session under way and have
  numbers of their own (`RowsPlaced`); between the delete of an erase and the new
  session, and after the end of a process, nothing is left that the new numbers
  could meet (`RowsGone`); and no row is later than the last timestamp given out
  (`LastIsLatest`), which the clamp keeps although the base moves. A push, a
  flush and a failed flush are then one lemma about moving rows between the
  parts of the account (`AccountMoved`).
* `Writer_proofs!MarkersApart` (`Spec => []GapMarkersApart`): if the last
  number given out is a marker's, its run of excluded actions is still open
  (`LastMarkerOpen`), so that the next marker waits for something numbered in
  between. `EndedSessionsStay` (`Spec => EndedSessionsFinal`): the session the
  writer numbers for has not ended (`LiveSession`), pending rows are of that
  session, and a start repairs only a session that did not end.
* `Writer_proofs!NothingPastThePanicKey`: `Spec => []NoActionPastPanic`.
  An action taken after the key meets, wherever it is on its way, the fence or a
  writer that does not record what it was taken for (`PastOnTheirWay`). A worker
  that captures while the fence is up for another recording never captures for
  that one again (`Fenced`). Since erase and archive restart the ids of the
  recordings, the order of the commands matters, too (`InLine`).
* `Writer_proofs!NothingExcludedKept`:
  `Spec /\ []NoBoundaryStale => []ExclusionBoundary`, and `ProtectedRowsRedacted`:
  `Spec /\ []NoBoundaryStale => []HotRowsRedacted`. Both are about what the policy
  will say by the time a capture has its turn, with two channels in front of it.
  `Lit(s, i, before, On, Off)` says that something is on at place `i` of a
  channel: it was on before or a capture ahead turned it on, and none since
  turned it off. A capture that must be hidden stands where the latch will hide it
  (`DimFollow`), one that must be redacted where a context will be in force
  (`HotFollow`); and the next capture the gate lets in will, too (`NextIsDim`,
  `NextIsHot`). Five lemmas say what becomes of `Lit` when a channel is appended
  to, taken from or joined with another; a forward, an input of the writer, a
  reconcile after a suspension are then applications of them. `KeptInv` carries this to the rows, the open
  segment and the evidence of it from which a start makes a row.

* `Writer_proofs!EraseLasts`:
  `Spec /\ [][erasedAt # NoTs => skew' <= skew]_skew => []ErasedStaysErased`, and
  `GateDropsOnlyTheErased`, the same with `>=`, for `NewRowsPassGate`: an erase
  lasts unless the wall clock is set forward after it, and drops nothing newer
  unless it is set back. The gate holds a reading of the wall clock, the boundary,
  against the projection of a capture on a timebase that a resynchronisation
  moves. What counts is `Offset(sq)`, how far the timebase is from the monotonic
  clock. No capture is of the future, so the last timestamp given out is never
  beyond the present of the timebase (`TimeInv`), and a resynchronisation ends
  between where the timebase was and where the wall clock is (`MovedTo`). After an
  erase the offset therefore stays at or below the one of the boundary
  (`GateBelow`), or at or above (`GateAbove`). Actions do not pass the gate: none
  is on its way when the erase completes (`LateInv`), because the tray captures
  none while a privacy command drains (`InLine`). `writer_erase_resync.cfg` and
  `writer_erase_backwards.cfg` show that neither condition can be left out.
* `Writer_proofs!ContextsTold`: without failing commits, and as long as the policy
  finds no excluded or unknown focus while it re-emits,
  `Spec => []ContextsReemitted`. In the fresh session nothing but the contexts is
  taken until all are told (`ChangesReemit`), none of them is stale, and a batch
  they fill is inserted whole (`ReemitInv`). `ContextsToldWithoutExclusions` needs
  the second condition only of the constants, `Excluded = {}`;
  `writer_reemit.cfg` shows what happens where it does not hold.

The hypothesis `NoBoundaryStale` says that the erase gate drops no row from
which the policy learns, a focus row or a boundary. It cannot be left out. The
gate drops a capture before the policy sees it (`queue_captured`,
`gilbreth-store/src/lib.rs:2310`): if a change to an excluded window was taken in
the last moment before an erase and is forwarded after it, the latch stays on
"allowed", and a key without attribution, taken in the instant of the boundary or
projected past it by a moved base, is stored. TLC shows it for
`ExclusionBoundary` with one tick and one erase (`writer_erase_latch.cfg`).
`PrivateWithoutErase` proves both properties without a hypothesis for every
instance without a secure erase, archive/reset included; `writer_policy` checks
them with erases at a single instant.

### Sensitive contexts

* `SensitiveGate_proofs!GateTypeCorrect` (`[]TypeOK`),
  `ProtectedRowsAreSuppressed` (`[]ProtectedRowsSuppressed`) and
  `PolicyAgreesWhenOpen` (`[]PolicyAgrees`), without a condition. The invariant
  `GateInv` has to say what the policy will have been told: `Said(c, P, v, r)` that
  a policy `P`, once it has taken what is in `c`, has the reason `r` as `v` says,
  and `Agrees` that after channel and queue it has the contexts `Known`, those
  in force but for a change whose boundary has not been put to send.
* When that must hold is the point of the handshake. It holds while capture is
  open (or would be, but for a transition), and from the moment a resume has an
  answer that no transition has overtaken (`Trusted`, `PolicyFollows`): then the
  generation is the one of the answer, or the worker already holds the guard.
  `Quiet` says that behind such an answer no transition is past its
  announcement and no boundary waits; `Guarded` who holds the guard; `Resuming`
  that a resume goes on in a pause, so that no suspension ends under it but its
  own. While a reconciliation is being sent for a resume, the policy agrees after
  its remaining rows.
* `Boundaries` ties a boundary to the change it announces, `WithinCapacity` bounds the
  channel, so that what does not fit stays queued in order. `HandsCurrent` and
  `HandsFollow` then follow a row from the check without a lock to the send:
  its contexts are still in force, told, and not taken back by what waits.
  `RowsFollow` follows it through the channel.
* `PolicyStep` is the long one, an argument for each action; the send of a
  boundary from the pump, from the queue and from the monitor, and the take-back
  at a full channel, are its cases with content.

### Archive and requests

* `Archive_proofs!TypeCorrect`, `SealedIsWhole` (`[]WhatOpensIsWhole`),
  `PlaintextIsReported` (`[]PlaintextReported`) and `ArchiveImplementsLedger`
  (`Spec => Ledger!Spec` under the mapping of `Archive`). The invariant says
  that every file consists of authentic frames under a header whose key was
  drawn, whatever was done to it (`FilesAuthentic`), and opens unless it was
  damaged (`UnhurtOpens`); that the file under way is one of this run and, once
  verified, opens (`PendingDrawn`); and that when the delete is due an archive of
  the rows is published (`DeletesCopied`). A file that opens under a drawn key has
  all frames of one archive in order (`OpensWhole`).
* `RecordRequests_proofs!TypeCorrect`, `PromptsAlone` (`[]OnePrompt`),
  `RequestsStartedOnce`, `ConfirmedWhileStarting`, `CapsStopTheirOwn` and
  `DecidedOnce` (`DecisionsFinal`). `Prompt` says to whom the one start
  and the one erase under way belong; `ReqInv` ties a request to the recording
  that names it and the writer's start to the request it has confirmed; `CapInv`
  says that wherever a stop for the safety cap is on its way, its recording has
  reached the cap, until an erase restarts the ids.

### Retention

* `Retention_proofs!KeysStayIntact` (`[]Intact`), `LossIsReported`
  (`[]LossShown`), `NoAlarmIsFalse` (`[]NoFalseAlarm`), `PreviewIsExact`
  (`[]PreviewExact`) and `RecentIsKept` (`RecentKept`), from `RetentionInvariant`. `Shaped` adds to types that actions
  are the rows with a recording, that there is a last row and a last session, and
  that a session is written exactly while the application is on; so no session is
  open in the writer when a start repairs and closes what it finds.
* `Intact` makes the prune simple: since an action with a young row keeps its
  recording, the statement that deletes orphaned actions finds none
  (`OnlyTheOld`), and what goes are the rows before the cutoff. The
  preview, which has no such statement, counts the same.
* For `LossShown`: a lost number belongs to a session there is and no row bears
  it, except that a repair after a crash may give the next number after the last
  stored row, which may be a lost one, to the last row of a session that is
  over (`LostIsLost`). The numbers of the live session are behind the sequencer (`Behind`).
  And a session nothing was deleted from, which did not begin with audit rows of
  its own start, has no audit row of its time (`Unaudited`), so nothing explains
  the hole.
* For `NoFalseAlarm`, the converse: there is an injection of the holes of a
  session that are not losses into the rows of the audit rows, and an audit row
  that answers for a hole spans it and is of the time of the session
  (`Answered`). A deletion extends the injection by its own audit row, which
  counts as many rows as it took (`AnsweredStep`, `Deletions`); an audit row is
  of a time no later than the deletion, and none of a start is older than the
  session it finds (`Timely`, `Audited`). That the sum of the audited rows is the
  number of these rows one by one (`SumOfRows`) is an induction over a finite
  set; it is made by a least counterexample among the parts of the set
  (`LeastPart`), which needs no operator parameter.
* For `RecentKept`: during a start there is an event no older than the reading it
  reckons from (`Clamped`), which it never deletes itself; only the dashboard
  can.

Greatest and least elements of sets of integers (`MaxIs`, `MinIs`) come from the
well-foundedness of the naturals, since the sets of rows are not assumed finite.

### Presence

* `Presence_proofs!CreditedCorrect`: `Spec => []CreditedOnce`, for any number of
  applications, occasions and units of time, and any idle threshold. The readers
  compute spans of rows; the truth is kept per unit of time (`past`). So all of
  the argument is about single units: a unit of a dwell belongs to one dwell, and
  a unit nobody was there is in a span that takes it away.
* The first half is `Facing`, `Current` and `Stored`: while the pump has a segment
  open, its application has been in front since it began, except for what a
  sleep or a pause takes away; what is stored of a session lies apart, ends
  before the open segment begins, and names who was in front; the open-focus row is
  a beginning of the open segment.
* The second half is that what must not be counted will be taken away: a unit
  asleep or paused is in a span of the session that is closed, or in one whose
  first row is stored and whose end is still to come and cannot come too early
  (`Ticks`, `Paused`, `Covered`). A sleep nobody announced has no such row until
  the first tick after it; until then nothing is settled, and the recovered row
  reaches back over all of it. For idle time: the flag of the pump follows the
  last input at every tick (`Flag`, `Overdue`), an idle row reaches back to the
  input before it (`IdleRow`, `IdleFresh`), and a unit that is surely idle lies
  between such a row and the next active row (`Idled`).
* `EveryMinuteCorrect`: `Spec => []EveryMinuteCounted`, from a second invariant
  for sessions of plain use (`PlainInv`): every unit in front of a window is in a
  dwell or in the open segment (`Following`, `Undisturbed`, `Complete`), no
  span takes away a unit the user was there (`Unspoiled`), between a
  suspend row and its resume the machine was asleep (`SleepTimes`, `Slept`), and an
  idle row with its active row covers only time without input
  (`IdleTimes`, `Vacant`).
* `SweepCorrect`: `Spec => []SweepExact`. The merged spans of a session lie apart
  and hold what is away (`MergedIs`); once the dwells of a set are swept, the spans
  left behind are those that end before the last of them begins (`CursorIs`), so a
  cursor that never goes back passes over nothing a later dwell meets; and since the
  spans are apart, the overlaps add up to the number of units (`OverlapsAdd`).
  The sweep and its sum are folds. A closed form satisfies the recursion of
  each, and a least set on which they differ (`LeastPart`) cannot exist
  (`SweepIs`).
* The proof of `CreditedOnce` found two limits of it that the bounds of the run hide: a
  user who returns at the lock screen and lets the machine sleep again before the
  next tick is not seen to return (so `SurelyIdle` wants a
  machine that stayed awake at the return), and
  while something is due the rows are not yet what they will be (`Settled`).

### The record worker

* `RecordWorker_proofs!CoalescerIsFaithful`: `Spec => []Faithful`. The coalescer
  does one of four things with an input (`HandleIs`): the input joins what is
  pending (`Joins`), or what is pending is flushed and the input kept, dropped or
  emitted (`Keeps`, `Drops`, `Emits`). `Coalesced` therefore says that at most
  one action is pending, although scroll and edit have a field each, and that
  its places lie behind all that was emitted (`Sorted`). For the repeats it
  adds `LastKnown`: the value in `last` is the one of an action that was emitted
  at that instant, and no other value of the control was taken since.
* `PanicFenceUnderASteadyClock`: `Spec /\ [](skew = 0) => []PanicFence`. No
  instant on any lane is in the future and an action keeps its own through both
  conversions (`Timed`); the fence stays at the instant of the key until the
  recording is closed, and what was stored before is older (`Fenced`). A late
  action from worker, channel, pipe or bridge then meets the fence or a closed
  recording. `record_clock.cfg` shows that the condition is needed for the helper;
  `PanicFenceInTheTray` that it is not for a worker in the tray, and
  `PanicFenceWithoutClockSteps` that every instance without the fault `"clock"`
  meets it. In `record_worker` the clock is set once at most, and
  `PanicFence` speaks of the states before.

### What the proofs rest on

The assumptions that the modules state of their constants (`GateAssumption`;
`PolicyAssumption`, `NoTsAssumption`, `WriterAssumption`; `GateConstants`, among
them that there are finitely many contexts; `ArchiveConstants` and
`NoneIsNoFile`; `RequestConstants`; `RetentionConstants`; `PresenceConstants`;
`WorkerConstants`; and `AbsentValues` in two modules, that no segment and no
value is told from one), and the conditions named above: `Delivered` or a working flush in
three theorems on `CaptureGate`; on `Writer`, `NoBoundaryStale` in two, a wall
clock that after an erase is set in one direction only in two, and commits that
succeed with a focus that is not hidden in two; an unset wall clock in two on
`RecordWorker`.

Every invariant of a run that passes is stated by a theorem. Only model-checked
are the liveness properties (`CommandsServed`, `SuspensionEnds`, `ResumeEnds`,
`GateReopens`, `RequestsSurface`, `RecordingEnds`), since the prover decides
neither fairness nor ENABLED, and `DropCounter`, whose property is violated. What
needs induction over data (a sum over audit rows, the batches noted into the open
segment, the sweep) cannot use the library's induction theorems, which take an
operator; it is made by a least counterexample among the subsets of a finite set.

## 6. What is not modelled, and the limits of what is

General:

* Power loss: the database runs with `synchronous=NORMAL`, where a power cut may
  undo the last commits. A crash is the death of the process only.
* Saturation of 64-bit timestamps and counters.
* Titles, keys, positions, selector paths and identities: the policy's decisions
  about one row's text are functions of that row.

By module:

* `Writer`: a `FocusChanged` lost at a full channel leaves the latch on the
  previous window; the model has no such loss. The `UNIQUE` constraint on
  sequence numbers is left out; `SeqsAccounted` shows that the writer does not run
  into it. When the delete of the open-focus row fails (fault `"focus"`),
  `CleanStop` and `DwellCountedOnce` do not hold of the next steps. `ExtendCap`
  changes no row and is left out.
* `CaptureGate`: the recording's pause and resume lanes appear by their failures;
  their effects are in `Writer`. The handshake of a resume is one step here; its
  steps are in `SensitiveGate`.
* `RecordRequests`: a prune that expires a request between its confirmation and
  the opening of its recording; the non-Windows path, which declines at once.
* `RecordWorker`: the start of worker and helper, the signature check, trust in an
  element and its selector; pauses; the truncation of a wire instant to
  milliseconds, which may move it by two; the bound on the wait for the bridge
  and the length of the keep-alive, which only decide how long a step takes. An
  event that is rejected is one that was not reported.
* `Retention`: deletion by selector and the scrub of titles.
* `Archive`: the plaintext export, key files and their protection, the
  already-exists check, a pending file replaced as a whole between its steps,
  truncation of the log and vacuum of the emptied database,
  receipts.
* `Presence`: input at the lock screen of a machine that sleeps before the next
  tick is seen by nobody; the user does nothing before the first tick after a sleep the pump
  was not told of, and before a reseed that is due; window titles; the way of a
  row through the channels (`Writer`).
* `DropCounter`: the counter of stale rows has the same life line for line; the
  other counters are plain sums.

Components with status `not_modelled`:

* *Schema migration*: SQL statements run once at open, in order.
* *Process tracking, noise filter, power state of `gilbreth-core`*: a diff of two
  snapshots in one thread, a filter of one row, and the twin of what `Presence`
  models on Windows.
* *macOS and Linux back ends*: they feed the same controls; Record Routine is
  Windows only, and the races of `SensitiveGate` are those of the Windows threads.
* *Settings, autostart, hotkey, uninstall*: file and registry I/O. That tray and
  dashboard both rewrite `config.toml` is listed as a hazard.
* Most of the read layer and of the dashboard: single queries and their display.

## 7. Plan

The components whose correctness depends on order and failure are modelled.
What they promise about safety is proved, but for `DropCounter`: there the durable
count between two erases (`LossStaysTold`, of instances without an archive) is
the next theorem to state.

A module for the process table (ids used again between two snapshots) is the
next to write if that component changes.
