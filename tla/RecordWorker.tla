------------------------------ MODULE RecordWorker ------------------------------
(***************************************************************************)
(* One recording of Record Routine, from the UI Automation callbacks to    *)
(* the rows the writer stores: the worker thread that follows the window   *)
(* in front and coalesces what it hears, the lane its actions take (the    *)
(* writer's input when the worker runs in the tray, a pipe and a bridge    *)
(* thread when it runs in the elevated helper process), and the ways it    *)
(* ends: a stop, the panic key, a worker that dies, a helper that is not   *)
(* answered any more.                                                      *)
(*                                                                         *)
(* The recording is under way in the initial state.  Its pause, the policy *)
(* and the batches of the writer are in module Writer, the start and the   *)
(* lanes of the tray in CaptureGate; here the writer takes an action or    *)
(* drops it, and closes the recording when its input is empty.             *)
(***************************************************************************)
EXTENDS Integers, Sequences, SequencesExt, FiniteSetsExt

CONSTANTS
    App,            \* applications with a window
    Self,           \* the tray's own windows
    Control,        \* controls that raise events (target_key)
    AppOf,          \* the application of each control
    Lanes,          \* where the worker runs: "tray", "helper"
    Inputs,         \* what the callbacks of a lane may report
    Faults,         \* what may fail: see WorkerConstants
    Skews,          \* what the wall clock may be off by
    DedupWindow,    \* dedup_window_ms
    ScrollQuiet,    \* scroll_quiet_ms
    NoAction,       \* no action: none held, none pending, a run summary
    Never,          \* the panic key was not pressed
    QueueBound,     \* queue_capacity of the callbacks
    ChannelBound,   \* capacity of the channel behind the worker
    PipeBound,      \* capacity of the action pipe
    MaxEvents,      \* bound on the events, by lane
    MaxSwitches,    \* bound on changes of the window in front, by lane
    MaxUpsets,      \* bound on what fails
    MaxNow          \* bound on time

Scoped == {"act", "scroll", "commit"}  \* heard from the window subscribed to
Global == {"edit", "focus"}            \* focus changes, with or without text

ASSUME WorkerConstants ==
    /\ Self \notin App
    /\ AppOf \in [Control -> App]
    /\ Lanes \subseteq {"tray", "helper"} /\ Lanes # {}
    /\ \A l \in Lanes :
          /\ Inputs[l] \subseteq [kind : Scoped \cup Global, el : Control, val : {1, 2}]
          /\ MaxEvents[l] \in Nat /\ MaxSwitches[l] \in Nat
    /\ Faults \subseteq {"subscribe", "exe", "worker", "helper", "control", "app",
                         "stall", "bridge", "clock"}
    /\ Skews \subseteq Int /\ 0 \in Skews
    /\ {DedupWindow, ScrollQuiet, MaxUpsets, MaxNow} \subseteq Nat
    /\ {QueueBound, ChannelBound, PipeBound} \subseteq Nat \ {0}

Actions == [kind : {"act", "scroll", "edit"}, el : Control, val : {1, 2}, exe : App,
            at : Int, places : SUBSET (Nat \ {0})]
Packets == [act : Actions, wire : Int]

ASSUME AbsentValues ==
    NoAction \notin Actions /\ NoAction \notin Packets /\ Never \notin Int

VARIABLES
    now,        \* Instant::now()
    skew,       \* unix_now_ms() less now
    front,      \* GetForegroundWindow
    raw,        \* raw_rx: what the callbacks enqueued
    target,     \* the application of the window subscribed to
    worker,     \* the worker thread: "runs", "flushed", "ended"
    scroll,     \* pending_scroll
    edit,       \* pending_edit
    last,       \* last_by_target_action: the last value emitted, and when
    hand,       \* what handle or flush returned and is still to be sent
    out,        \* the channel behind the worker
    lane,       \* where the worker runs
    helper,     \* the main loop of the helper: "runs", "stops", "fails", "gone"
    writing,    \* the action it is writing to the pipe
    pipe,       \* the action pipe
    bridge,     \* the bridge thread of the tray: "reads", "done"
    inbox,      \* what the bridge sent to the writer
    control,    \* the control pipe: "refused", "connected", "told" to stop
    tray,       \* the tray: "records", "asked", "freezes", "joins", "done"
    pumping,    \* the tray's loop turns, and keep-alives are written
    alive,      \* the tray's process lives
    asked,      \* StopRecording was sent to the writer
    cutoff,     \* panic_action_cutoff
    open,       \* the writer has the recording open
    stored,     \* the actions the writer took
    taken,      \* the inputs of the coalescer so far (history)
    repeats,    \* those it dropped as duplicates, by place (history)
    emitted,    \* the actions it emitted (history)
    pressed,    \* when the panic key was pressed (history)
    events, switches, upsets  \* bounded by MaxEvents, MaxSwitches, MaxUpsets

clock == <<now, skew, front, switches>>
outside == <<clock, upsets>>
coalescer == <<scroll, edit, last, taken, repeats, emitted>>
thread == <<raw, target, worker, hand, coalescer, events>>
far == <<helper, writing, pipe, bridge, inbox>>
near == <<control, tray, pumping, alive, asked, cutoff, pressed>>
store == <<open, stored>>
vars == <<outside, thread, out, lane, far, near, store>>

-----------------------------------------------------------------------------
(* The coalescer: each operator gives what is emitted, in order, and the    *)
(* pending state after it.  An action carries the places, in taken, of the  *)
(* inputs it stands for.                                                    *)

Action(kind, el, val, exe, at, places) ==
    [kind |-> kind, el |-> el, val |-> val, exe |-> exe, at |-> at, places |-> places]

(* flush_pending_scroll, and flush_edit, which dates the edit when it is    *)
(* committed.                                                               *)
ScrollFlushed == IF scroll = NoAction THEN <<>> ELSE <<scroll>>
EditFlushed(at) == IF edit = NoAction THEN <<>> ELSE <<[edit EXCEPT !.at = at]>>
Flushed(at) == ScrollFlushed \o EditFlushed(at)

(* is_duplicate *)
Repeats(in) ==
    /\ last[in.el].val = in.val
    /\ in.at - last[in.el].at <= DedupWindow

Emit(actions) == hand' = actions /\ emitted' = emitted \o actions

Place == Len(taken) + 1

(* handle_non_scroll *)
HandleAct(in) ==
    LET act == Action("act", in.el, in.val, in.exe, in.at, {Place}) IN
    /\ scroll' = NoAction /\ edit' = NoAction
    /\ IF Repeats(in)
       THEN /\ Emit(Flushed(in.at))
            /\ repeats' = repeats \cup {Place}
            /\ UNCHANGED last
       ELSE /\ Emit(Append(Flushed(in.at), act))
            /\ last' = [last EXCEPT ![in.el] = [val |-> in.val, at |-> in.at]]
            /\ UNCHANGED repeats

(* handle_scroll: a scroll of the same control in the same direction joins  *)
(* the one that is pending.                                                 *)
HandleScroll(in) ==
    LET joins == scroll # NoAction /\ scroll.el = in.el /\ scroll.val = in.val
        before == IF joins THEN scroll.places ELSE {}
    IN
    /\ Emit(EditFlushed(in.at) \o IF joins THEN <<>> ELSE ScrollFlushed)
    /\ edit' = NoAction
    /\ scroll' = Action("scroll", in.el, in.val, IF joins THEN scroll.exe ELSE in.exe,
                        in.at, before \cup {Place})
    /\ UNCHANGED <<last, repeats>>

\* Mutant: the marker of another field takes the place of the pending one.
HandleEditReplacing(in) ==
    /\ Emit(ScrollFlushed)
    /\ scroll' = NoAction
    /\ edit' = Action("edit", in.el, in.val, in.exe, in.at, {Place})
    /\ UNCHANGED <<last, repeats>>

(* EditMarker: a marker of the field under edit joins it.                   *)
HandleEdit(in) ==
    LET joins == edit # NoAction /\ edit.el = in.el IN
    /\ Emit(IF joins THEN ScrollFlushed ELSE Flushed(in.at))
    /\ scroll' = NoAction
    /\ edit' = IF joins THEN [edit EXCEPT !.at = in.at, !.places = @ \cup {Place}]
                        ELSE Action("edit", in.el, in.val, in.exe, in.at, {Place})
    /\ UNCHANGED <<last, repeats>>

(* CommitEdit, FocusChanged *)
HandleCommit(in) ==
    /\ Emit(Flushed(in.at))
    /\ scroll' = NoAction /\ edit' = NoAction
    /\ UNCHANGED <<last, repeats>>

Handle(in) ==
    /\ taken' = Append(taken, in)
    /\ CASE in.kind = "act" -> HandleAct(in)
         [] in.kind = "scroll" -> HandleScroll(in)
         [] in.kind = "edit" -> HandleEdit(in)
         [] OTHER -> HandleCommit(in)

-----------------------------------------------------------------------------
(* The callbacks and the worker thread. *)

(* RecordRoutineEventHandler::enqueue: a full queue drops the event.  The   *)
(* focus is heard of everywhere, the rest from the window subscribed to;    *)
(* what comes after unsubscribe is only drained.                            *)
Callback ==
    \E in \in Inputs[lane] :
      /\ worker = "runs" /\ events < MaxEvents[lane]
      /\ in.kind \in Scoped => AppOf[in.el] = target
      /\ events' = events + 1
      /\ raw' = IF Len(raw) < QueueBound
                THEN Append(raw, [kind |-> in.kind, el |-> in.el, val |-> in.val, at |-> now])
                ELSE raw
      /\ UNCHANGED <<target, worker, hand, coalescer, outside, out, lane, far, near, store>>

(* The stop token: set by RecordRoutineHandle::stop, which the tray calls   *)
(* for its own worker and the main loop of the helper for its.              *)
StopAsked == IF lane = "tray" THEN tray \in {"freezes", "joins"}
                              ELSE helper \in {"stops", "fails"}

Takes == worker = "runs" /\ ~StopAsked /\ hand = <<>> /\ raw # <<>>

(* capture_element: the application is the process of the element, or, when *)
(* its path cannot be read, that of the target.                             *)
Exes(el, tgt) == {AppOf[el]} \cup IF "exe" \in Faults THEN {tgt} ELSE {}

(* process_raw_event: what the coalescer makes of an event for the target   *)
(* tgt.  A focus event from another window stands for the element that has  *)
(* the focus in the target.                                                 *)
Understood(ev, tgt) ==
    IF ev.kind \in Scoped \/ AppOf[ev.el] = tgt
    THEN {[kind |-> ev.kind, el |-> ev.el, val |-> ev.val, at |-> ev.at, exe |-> exe] :
             exe \in Exes(ev.el, tgt)}
    ELSE {[kind |-> kind, el |-> el, val |-> ev.val, at |-> ev.at, exe |-> exe] :
             kind \in Global, el \in {c \in Control : AppOf[c] = tgt}, exe \in Exes(ev.el, tgt)}

TakeScoped ==
    /\ Takes /\ Head(raw).kind \in Scoped
    /\ \E in \in Understood(Head(raw), target) : Handle(in)
    /\ raw' = Tail(raw)
    /\ UNCHANGED <<target, worker, events, outside, out, lane, far, near, store>>

(* A focus event makes the worker follow the window in front, also when its *)
(* element is rejected.  Another rejected event is one never reported.      *)
TakeFocus ==
    /\ Takes /\ Head(raw).kind \in Global /\ front # Self
    /\ target' = front
    /\ \/ \E in \in Understood(Head(raw), front) : Handle(in)
       \/ front # target /\ UNCHANGED <<coalescer, hand>>
    /\ raw' = Tail(raw)
    /\ UNCHANGED <<worker, events, outside, out, lane, far, near, store>>

(* ... but it skips the event when its own window is in front, or when the  *)
(* subscription fails.                                                      *)
SkipFocus ==
    /\ Takes /\ Head(raw).kind \in Global
    /\ front = Self \/ ("subscribe" \in Faults /\ front # target)
    /\ raw' = Tail(raw)
    /\ UNCHANGED <<target, worker, hand, coalescer, events, outside, out, lane, far, near, store>>

(* flush_due, at a poll that heard nothing *)
FlushDue ==
    /\ worker = "runs" /\ ~StopAsked /\ hand = <<>> /\ raw = <<>>
    /\ scroll # NoAction /\ now - scroll.at >= ScrollQuiet
    /\ Emit(<<scroll>>)
    /\ scroll' = NoAction
    /\ UNCHANGED <<raw, target, worker, edit, last, taken, repeats, events>>
    /\ UNCHANGED <<outside, out, lane, far, near, store>>

(* flush_all after the loop, unsubscribe, and drain_for_teardown, which     *)
(* throws away what the callbacks still enqueued.                           *)
FlushAll ==
    /\ worker = "runs" /\ StopAsked /\ hand = <<>>
    /\ Emit(Flushed(now))
    /\ scroll' = NoAction /\ edit' = NoAction
    /\ worker' = "flushed" /\ raw' = <<>>
    /\ UNCHANGED <<target, last, taken, repeats, events>>
    /\ UNCHANGED <<outside, out, lane, far, near, store>>

(* send_coalesced_action blocks while the channel is full. *)
SendAction ==
    /\ worker # "ended" /\ hand # <<>> /\ Len(out) < ChannelBound
    /\ out' = Append(out, Head(hand))
    /\ hand' = Tail(hand)
    /\ UNCHANGED <<raw, target, worker, coalescer, events, outside, lane, far, near, store>>

EndWorker ==
    /\ worker = "flushed" /\ hand = <<>>
    /\ worker' = "ended"
    /\ UNCHANGED <<raw, target, hand, coalescer, events, outside, out, lane, far, near, store>>

(* What fails: the loop of the tray may also stand still a while.           *)
Fails(fault) == fault \in Faults /\ upsets < MaxUpsets /\ upsets' = upsets + 1

(* A panic of the worker thread loses what it held. *)
KillWorker == worker' = "ended" /\ raw' = <<>> /\ hand' = <<>>

WorkerPanics ==
    /\ Fails("worker") /\ worker # "ended"
    /\ KillWorker
    /\ UNCHANGED <<target, coalescer, events, clock, out, lane, far, near, store>>

-----------------------------------------------------------------------------
(* The helper process: its main loop takes one of what is ready.            *)

(* instant_to_unix_ms where the action leaves the helper, unix_ms_to_instant*)
(* where it enters the tray: an instant is not in the future.               *)
ToWire(act) == [act EXCEPT !.at = @ + skew]
FromWire(at) == LET lag == now + skew - at IN IF lag < 0 THEN now ELSE now - lag

HelperReady == lane = "helper" /\ helper = "runs" /\ writing = NoAction

(* The true instant stays with the action, for the properties only. *)
HelperTake ==
    /\ HelperReady /\ out # <<>>
    /\ writing' = [act |-> Head(out), wire |-> ToWire(Head(out)).at]
    /\ out' = Tail(out)
    /\ UNCHANGED <<outside, thread, lane, helper, pipe, bridge, inbox, near, store>>

PipeBroken == ~alive \/ bridge = "done"

HelperWrite ==
    /\ helper = "runs" /\ writing # NoAction /\ ~PipeBroken /\ Len(pipe) < PipeBound
    /\ pipe' = Append(pipe, writing)
    /\ writing' = NoAction
    /\ UNCHANGED <<outside, thread, out, lane, helper, bridge, inbox, near, store>>

(* A failed write leaves run, which drops the capture handle and so stops   *)
(* the worker, and writes no summary.                                       *)
HelperWriteFails ==
    /\ helper = "runs" /\ writing # NoAction /\ PipeBroken
    /\ helper' = "fails" /\ writing' = NoAction
    /\ UNCHANGED <<outside, thread, out, lane, pipe, bridge, inbox, near, store>>

\* Mutant: the helper does not notice that the control pipe closed.
HelperStopsTold ==
    /\ HelperReady
    /\ control = "told" \/ (worker = "ended" /\ out = <<>>)
    /\ helper' = "stops"
    /\ UNCHANGED <<outside, thread, out, lane, writing, pipe, bridge, inbox, near, store>>

(* A Stop, a control pipe that closed, no keep-alive for                    *)
(* parent_liveness_timeout, or a worker that is gone: capture.stop, and     *)
(* nothing is forwarded any more.  A tray whose loop turns writes           *)
(* keep-alives three times as often as the timeout asks for.                *)
HelperStops ==
    /\ HelperReady
    /\ \/ control = "told"
       \/ ~alive
       \/ ~pumping
       \/ worker = "ended" /\ out = <<>>
    /\ helper' = "stops"
    /\ UNCHANGED <<outside, thread, out, lane, writing, pipe, bridge, inbox, near, store>>

(* capture.stop has joined the worker: the summary, and the process exits   *)
(* with what its channel still held.                                        *)
HelperExits ==
    /\ helper \in {"stops", "fails"} /\ worker = "ended"
    /\ IF helper = "stops" /\ ~PipeBroken
       THEN Len(pipe) < PipeBound /\ pipe' = Append(pipe, NoAction)
       ELSE UNCHANGED pipe
    /\ helper' = "gone" /\ out' = <<>>
    /\ UNCHANGED <<outside, thread, lane, writing, bridge, inbox, near, store>>

(* The process dies, or is terminated. *)
KillHelper ==
    /\ helper' = "gone" /\ writing' = NoAction /\ out' = <<>>
    /\ KillWorker
    /\ UNCHANGED <<target, coalescer, events>>

HelperDies ==
    /\ Fails("helper") /\ lane = "helper" /\ helper # "gone"
    /\ KillHelper
    /\ UNCHANGED <<clock, lane, pipe, bridge, inbox, near, store>>

(* bridge_helper_actions; the run summary is a message without an action. *)
BridgeReads ==
    /\ alive /\ bridge = "reads" /\ pipe # <<>> /\ Len(inbox) < ChannelBound
    /\ pipe' = Tail(pipe)
    /\ IF Head(pipe) = NoAction
       THEN bridge' = "done" /\ UNCHANGED inbox
       ELSE /\ inbox' = Append(inbox, [act |-> Head(pipe).act, at |-> FromWire(Head(pipe).wire)])
            /\ UNCHANGED bridge
    /\ UNCHANGED <<outside, thread, out, lane, helper, writing, near, store>>

(* The pipe ends without a summary, or the bridge fails on a message. *)
BridgeEnds ==
    /\ alive /\ bridge = "reads" /\ lane = "helper"
    /\ (pipe = <<>> /\ helper = "gone" /\ UNCHANGED upsets) \/ Fails("bridge")
    /\ bridge' = "done" /\ pipe' = <<>>
    /\ UNCHANGED <<clock, thread, out, lane, helper, writing, inbox, near, store>>

-----------------------------------------------------------------------------
(* The writer: queue_action, and the close after its input was drained.     *)

Rejects(at) == cutoff # Never /\ at >= cutoff

Queue(act, at) ==
    stored' = IF open /\ ~Rejects(at) THEN Append(stored, act) ELSE stored

WriterTakes ==
    /\ alive
    /\ \/ /\ lane = "tray" /\ out # <<>>
          /\ Queue(Head(out), Head(out).at)
          /\ out' = Tail(out) /\ UNCHANGED inbox
       \/ /\ inbox # <<>>
          /\ Queue(Head(inbox).act, Head(inbox).at)
          /\ inbox' = Tail(inbox) /\ UNCHANGED out
    /\ UNCHANGED <<open, outside, thread, lane, helper, writing, pipe, bridge, near>>

WriterCloses ==
    /\ alive /\ open /\ asked
    /\ inbox = <<>> /\ (lane = "tray" => out = <<>>)
    /\ open' = FALSE
    /\ UNCHANGED <<stored, outside, thread, out, lane, far, near>>

-----------------------------------------------------------------------------
(* The tray: its loop handles one thing at a time. *)

Turns == alive /\ pumping

(* stop_recording_with_reason: for an ordinary stop the writer is asked and *)
(* the worker goes on; for the panic key the fence is armed and the worker  *)
(* stopped before the writer is asked.                                      *)
AskStop ==
    /\ Turns /\ tray = "records"
    /\ tray' = "asked" /\ asked' = TRUE
    /\ UNCHANGED <<control, pumping, alive, cutoff, pressed>>
    /\ UNCHANGED <<outside, thread, out, lane, far, store>>

(* handle_elevated_record_worker_liveness, handle_record_worker_liveness:   *)
(* what the polls find is stopped as by AskStop.                            *)
PollsFind == IF lane = "helper" THEN bridge = "done" \/ control = "refused"
                                ELSE worker = "ended"
Poll == PollsFind /\ AskStop

(* stop of the helper handle: the Stop goes out when the control pipe has   *)
(* connected and was not refused.                                           *)
Tell == control' = IF lane = "helper" /\ control = "connected" THEN "told" ELSE control

Panic ==
    /\ Turns /\ tray \in {"records", "asked"} /\ pressed = Never
    /\ pressed' = now /\ cutoff' = now
    /\ tray' = "freezes" /\ Tell
    /\ UNCHANGED <<pumping, alive, asked, outside, thread, out, lane, far, store>>

(* wait_or_terminate: the helper that does not exit in time is terminated.  *)
Terminate ==
    /\ alive /\ lane = "helper" /\ tray \in {"freezes", "joins"} /\ helper # "gone"
    /\ KillHelper
    /\ UNCHANGED <<outside, lane, pipe, bridge, inbox, near, store>>

(* stop returns when the thread has ended; of the helper, when the process  *)
(* has and the bridge has drained, or was waited for long enough.           *)
Stopped == IF lane = "helper" THEN helper = "gone" ELSE worker = "ended"

\* Mutant: the fence is lifted as soon as the worker has stopped.
FrozenLifts ==
    /\ alive /\ tray = "freezes" /\ Stopped
    /\ tray' = "asked" /\ asked' = TRUE /\ cutoff' = Never
    /\ UNCHANGED <<control, pumping, alive, pressed>>
    /\ UNCHANGED <<outside, thread, out, lane, far, store>>

Frozen ==
    /\ alive /\ tray = "freezes" /\ Stopped
    /\ tray' = "asked" /\ asked' = TRUE
    /\ UNCHANGED <<control, pumping, alive, cutoff, pressed>>
    /\ UNCHANGED <<outside, thread, out, lane, far, store>>

(* RecordUiEvent::Stopped lifts the fence and stops the worker. *)
HearStopped ==
    /\ Turns /\ tray = "asked" /\ ~open
    /\ cutoff' = Never
    /\ tray' = "joins" /\ Tell
    /\ UNCHANGED <<pumping, alive, asked, pressed, outside, thread, out, lane, far, store>>

Joined ==
    /\ alive /\ tray = "joins" /\ Stopped
    /\ tray' = "done"
    /\ UNCHANGED <<control, pumping, alive, asked, cutoff, pressed>>
    /\ UNCHANGED <<outside, thread, out, lane, far, store>>

(* The loop does not turn while a modal dialog is up. *)
Stall ==
    /\ Fails("stall") /\ Turns /\ tray \in {"records", "asked"}
    /\ pumping' = FALSE
    /\ UNCHANGED <<control, tray, alive, asked, cutoff, pressed>>
    /\ UNCHANGED <<clock, thread, out, lane, far, store>>

Unstall ==
    /\ alive /\ ~pumping
    /\ pumping' = TRUE
    /\ UNCHANGED <<control, tray, alive, asked, cutoff, pressed>>
    /\ UNCHANGED <<outside, thread, out, lane, far, store>>

(* The tray's process dies; the helper is left behind. *)
AppDies ==
    /\ Fails("app") /\ alive /\ lane = "helper"
    /\ alive' = FALSE
    /\ UNCHANGED <<control, tray, pumping, asked, cutoff, pressed>>
    /\ UNCHANGED <<clock, thread, out, lane, far, store>>

-----------------------------------------------------------------------------
Tick ==
    /\ now < MaxNow
    /\ now' = now + 1
    /\ UNCHANGED <<skew, front, switches, upsets, thread, out, lane, far, near, store>>

(* The wall clock is set; only the helper goes by it. *)
WallStep ==
    /\ Fails("clock") /\ lane = "helper"
    /\ skew' \in Skews \ {skew}
    /\ UNCHANGED <<now, front, switches, thread, out, lane, far, near, store>>

Switch ==
    /\ switches < MaxSwitches[lane]
    /\ front' \in (App \cup {Self}) \ {front}
    /\ switches' = switches + 1
    /\ UNCHANGED <<now, skew, upsets, thread, out, lane, far, near, store>>

Init ==
    /\ now = 0 /\ skew = 0 /\ switches = 0 /\ upsets = 0
    /\ front \in App /\ target = front
    /\ raw = <<>> /\ hand = <<>> /\ out = <<>> /\ events = 0
    /\ worker = "runs"
    /\ scroll = NoAction /\ edit = NoAction
    /\ last = [c \in Control |-> [val |-> 0, at |-> 0]]
    /\ taken = <<>> /\ repeats = {} /\ emitted = <<>>
    /\ lane \in Lanes
    /\ helper = IF lane = "helper" THEN "runs" ELSE "gone"
    /\ writing = NoAction /\ pipe = <<>> /\ inbox = <<>>
    /\ bridge = IF lane = "helper" THEN "reads" ELSE "done"
    /\ control \in {"connected"} \cup
                   IF "control" \in Faults /\ lane = "helper" THEN {"refused"} ELSE {}
    /\ tray = "records" /\ pumping = TRUE /\ alive = TRUE /\ asked = FALSE
    /\ cutoff = Never /\ pressed = Never
    /\ open = TRUE /\ stored = <<>>

WorkerNext == TakeScoped \/ TakeFocus \/ SkipFocus \/ FlushDue \/ FlushAll
              \/ SendAction \/ EndWorker
HelperNext == HelperTake \/ HelperWrite \/ HelperWriteFails \/ HelperStops \/ HelperExits
BridgeNext == BridgeReads \/ BridgeEnds
WriterNext == WriterTakes \/ WriterCloses
TrayNext == Poll \/ Terminate \/ Frozen \/ HearStopped \/ Joined \/ Unstall

Next ==
    \/ Callback \/ WorkerNext \/ HelperNext \/ BridgeNext \/ WriterNext \/ TrayNext
    \/ AskStop \/ Panic \/ Stall
    \/ WorkerPanics \/ HelperDies \/ AppDies
    \/ Tick \/ WallStep \/ Switch

Spec == Init /\ [][Next]_vars

(* Each thread and process goes on when it can; the user, the clock and the *)
(* faults owe nothing.  The main loop of the helper selects among what is   *)
(* ready, so that a stop is not put off for ever.                           *)
FairSpec ==
    /\ Spec
    /\ WF_vars(WorkerNext)
    /\ WF_vars(HelperNext) /\ SF_vars(HelperStops)
    /\ WF_vars(BridgeNext) /\ WF_vars(WriterNext)
    /\ WF_vars(Poll) /\ WF_vars(Terminate) /\ WF_vars(Frozen)
    /\ WF_vars(HearStopped) /\ WF_vars(Joined) /\ WF_vars(Unstall)

-----------------------------------------------------------------------------
(* Properties *)

RealActions == {i \in 1..Len(taken) : taken[i].kind \in {"act", "scroll", "edit"}}
Pending == {scroll, edit} \ {NoAction}
PlacesOf(actions) == UNION {a.places : a \in actions}

(* What was taken before a later emission comes out before it. *)
InOrder ==
    /\ \A i, j \in DOMAIN emitted : i < j =>
          \A p \in emitted[i].places, q \in emitted[j].places : p < q
    /\ \A p \in PlacesOf(ToSet(emitted)), q \in PlacesOf(Pending) : p < q
    /\ Cardinality(Pending) <= 1

(* A duplicate was emitted at most DedupWindow earlier, with the same value and  *)
(* no other value of the control between.                                   *)
IsRepeat(i) == \E j \in 1..i - 1 :
    /\ j \in PlacesOf(ToSet(emitted))
    /\ taken[i].at - taken[j].at <= DedupWindow
    /\ \A k \in j..i : (taken[k].kind = "act" /\ taken[k].el = taken[i].el)
                       => taken[k].val = taken[i].val

(* The coalescer (ActionCoalescer::handle, flush_due, flush_all) loses      *)
(* nothing, says nothing twice and keeps the order of what the user did:    *)
(* every action taken is emitted once, is pending, or repeats one emitted   *)
(* within the window.                                                       *)
Faithful ==
    /\ InOrder
    /\ RealActions = PlacesOf(ToSet(emitted)) \cup PlacesOf(Pending) \cup repeats
    /\ repeats \cap (PlacesOf(ToSet(emitted)) \cup PlacesOf(Pending)) = {}
    /\ \A i \in repeats : taken[i].kind = "act" /\ IsRepeat(i)

(* No action observed after the panic key is stored, whichever lane it      *)
(* takes and whatever instant it is given on the way (panic_action_cutoff,  *)
(* unix_ms_to_instant), unless the wall clock was set meanwhile.            *)
PanicFence ==
    pressed # Never /\ skew = 0 => \A a \in ToSet(stored) : a.at <= pressed

(* The helper does not outlive its recording nor the tray.                  *)
HelperEnds ==
    []<>(lane = "helper" /\ (~alive \/ tray \in {"freezes", "joins", "done"}) => helper = "gone")

(* A recording is closed and its worker joined while the tray lives.        *)
TrayEnds ==
    []<>(asked \/ (lane = "tray" /\ worker = "ended") \/ (lane = "helper" /\ helper = "gone")
          => tray = "done" \/ ~alive)

(* Whatever ends it, a recording comes to its end everywhere: the tray, or  *)
(* its absence, ends the helper (stop, wait_or_terminate,                   *)
(* ParentDisconnected), and after a stop, or a worker or helper that died   *)
(* (the liveness polls), the writer closes and the worker is joined.        *)
RecordingEnds == HelperEnds /\ TrayEnds

(* Limits, for the configurations that show them. *)

(* The same over a wall clock that is set between the two conversions.      *)
PanicFenceAnyClock == pressed # Never => \A a \in ToSet(stored) : a.at <= pressed

(* An action names the application of its control. *)
NamesItsApp == \A a \in ToSet(stored) : a.exe = AppOf[a.el]

(* What the coalescer holds when the user stops is stored. *)
TailStored ==
    (tray = "done" /\ pressed = Never) =>
        \A i \in RealActions \ repeats : i \in PlacesOf(ToSet(stored))

(* Of two controls used in turn, the last one used is the last one emitted. *)
LastUsedLast ==
    taken # <<>> /\ Last(taken).kind = "act" =>
        emitted # <<>> /\ Last(emitted).el = Last(taken).el
=================================================================================
