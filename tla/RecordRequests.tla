----------------------------- MODULE RecordRequests -----------------------------
(***************************************************************************)
(* Record requests and safety-cap prompts: the dashboard leaves a request   *)
(* in the database; the writer's poll surfaces the oldest one, and the      *)
(* windows of the safety cap, through mailboxes of one place; the tray      *)
(* opens one dialog at a time; the answer returns as a writer command and   *)
(* the writer's reply as an event of the tray.  The status of a request is  *)
(* changed by compare-and-swap only.                                        *)
(*                                                                         *)
(* Secure erase deletes requests and recordings and restarts their ids, so  *)
(* every row carries a token: the request a user meant.  What a recording   *)
(* captures is the subject of Writer, what it suspends of CaptureGate.      *)
(***************************************************************************)
EXTENDS Integers, Sequences, FiniteSetsExt

CONSTANTS
    Faults,         \* what may fail: "expire", "invalid", "open", "mark", "close", "erase"
    MaxAsked,       \* bound on requests made and recordings asked for in the menu
    MaxWindows,     \* bound on safety-cap windows a recording lasts
    MaxUpsets       \* bound on privacy operations, crashes, pauses and resumes, and
                    \* stops that fail

ASSUME RequestConstants ==
    /\ Faults \subseteq {"expire", "invalid", "open", "mark", "close", "erase"}
    /\ {MaxAsked, MaxWindows, MaxUpsets} \subseteq Nat

Pending == {"requested", "confirmed"}
Statuses == Pending \cup {"started", "cancelled", "failed", "expired"}
None == 0

(* The tables record_requests and record_sessions, by id. *)
Request == [status : Statuses, overdue : BOOLEAN, valid : BOOLEAN, token : Nat, by : Nat]
Reasons == {"none", "user_stop", "safety_cap_stop", "error", "app_shutdown"}
Recording == [request : Nat, token : Nat, asked : Nat, open : BOOLEAN, windows : Nat,
              reason : Reasons]

(* Commands of the writer, events of the tray, threads of the stop lane. *)
Command == [kind : {"start"}, id : Nat, token : Nat] \cup [kind : {"decline"}, id : Nat]
           \cup [kind : {"stop"}, rec : Nat, reason : Reasons] \cup [kind : {"erase"}]
Event == [kind : {"started", "failed", "stopped", "stop_for_safety_cap"}, rec : Nat]
StopThread == [pc : {"sending", "waiting", "stopped", "failed"}, rec : Nat, reason : Reasons]

VARIABLES
    reqs,           \* record_requests
    recs,           \* record_sessions
    memory,         \* WriterRecordState
    start,          \* the start_recording under way in the writer
    requestSlot,    \* record_request_notify, of one place
    capSlot,        \* cap_prompt_notify, of one place
    commands,       \* the writer's commands
    events,         \* RecordUiEvent
    prompting,      \* prompt_in_flight
    acting,         \* record_action_in_progress
    privacy,        \* the privacy operation under way
    tray,           \* active_record_session_id, record_stop_pending_session_id
    dialog,         \* the thread of the start dialog
    capDialog,      \* the thread of the safety-cap dialog
    lane,           \* a pause or resume command holds record_action_in_progress
    stops,          \* the threads of the stop lane
    erased,         \* a privacy operation has deleted the tables (history)
    unmarked,       \* a failed start was not marked, since the open (history)
    used            \* how much of each bound is used up

tables == <<reqs, recs>>
bounds == <<erased, unmarked, used>>
slots == <<requestSlot, capSlot>>
flags == <<prompting, acting, privacy>>
threads == <<dialog, capDialog, lane, stops>>
vars == <<tables, memory, start, slots, commands, events, flags, tray, threads, bounds>>

-----------------------------------------------------------------------------
Idle == [pc |-> "idle"]
Waiting(id) == id \in DOMAIN reqs /\ reqs[id].status = "requested"
OpenRecs == {r \in DOMAIN recs : recs[r].open}
CommandBound == 4

FreshMemory == [surfaced |-> None, active |-> None, prompted |-> <<>>]
FreshTray == [active |-> None, stopping |-> None]

Init ==
    /\ reqs = <<>> /\ recs = <<>>
    /\ memory = FreshMemory /\ start = Idle
    /\ requestSlot = <<>> /\ capSlot = <<>> /\ commands = <<>> /\ events = <<>>
    /\ prompting = FALSE /\ acting = FALSE /\ privacy = "idle"
    /\ tray = FreshTray
    /\ dialog = Idle /\ capDialog = Idle /\ lane = FALSE /\ stops = {}
    /\ used = [asked |-> 0, upsets |-> 0] /\ erased = FALSE /\ unmarked = FALSE

Send(command) == Len(commands) < CommandBound /\ commands' = Append(commands, command)
Tell(event) == events' = Append(events, event)

-----------------------------------------------------------------------------
(* The dashboard, over a connection of its own. *)
RequestRecording ==
    /\ used.asked < MaxAsked
    /\ \E valid \in {TRUE} \cup (IF "invalid" \in Faults THEN {FALSE} ELSE {}) :
          reqs' = Append(reqs, [status |-> "requested", overdue |-> FALSE, valid |-> valid,
                                token |-> used.asked + 1, by |-> None])
    /\ used' = [used EXCEPT !.asked = @ + 1]
    /\ UNCHANGED <<erased, unmarked, recs, memory, start, slots, commands, events, flags, tray, threads>>

(* expires_at passes. *)
Overdue(id) ==
    /\ Waiting(id) /\ ~reqs[id].overdue
    /\ reqs' = [reqs EXCEPT ![id].overdue = TRUE]
    /\ UNCHANGED <<recs, memory, start, slots, commands, events, flags, tray, threads, bounds>>

(* The active time of an open recording reaches another safety cap. *)
Elapse(r) ==
    /\ r \in OpenRecs /\ recs[r].windows < MaxWindows
    /\ recs' = [recs EXCEPT ![r].windows = @ + 1]
    /\ UNCHANGED <<reqs, memory, start, slots, commands, events, flags, tray, threads, bounds>>

-----------------------------------------------------------------------------
(* poll_recording_control, on the writer's poll ticker.                     *)
WithStatus(ids, status) ==
    [id \in DOMAIN reqs |-> IF id \in ids THEN [reqs[id] EXCEPT !.status = status] ELSE reqs[id]]

(* Mutant: a surfaced request is surfaced again only when it is decided. *)
RearmedDecided(rows) ==
    IF memory.surfaced \in DOMAIN rows /\ rows[memory.surfaced].status = "requested"
    THEN memory.surfaced
    ELSE None

(* A surfaced request is forgotten when it is decided, or when nothing that *)
(* could still decide it is under way.                                      *)
Rearmed(rows) ==
    IF /\ memory.surfaced \in DOMAIN rows
       /\ rows[memory.surfaced].status = "requested"
       /\ memory.active # None \/ prompting
    THEN memory.surfaced
    ELSE None

Oldest(rows) ==
    LET pending == {id \in DOMAIN rows : rows[id].status = "requested" /\ ~rows[id].overdue}
    IN  IF pending = {} THEN None ELSE Min(pending)

Prompted(r) == r \in DOMAIN memory.prompted /\ memory.prompted[r] >= recs[r].windows

(* Mutant: the window before the cap is prompted. *)
CapDueAtOnce == {r \in OpenRecs : ~Prompted(r) \/ recs[r].windows = 0}

(* Open recordings with a window that was not prompted. *)
CapDue == {r \in OpenRecs : recs[r].windows > 0 /\ ~Prompted(r)}

(* A recording is prompted about its latest window. *)
Prompts(r) ==
    [q \in DOMAIN memory.prompted \cup {r} |->
        IF q = r THEN recs[r].windows ELSE memory.prompted[q]]

Poll ==
    /\ start = Idle
    /\ \E expires \in {TRUE} \cup (IF "expire" \in Faults THEN {FALSE} ELSE {}) :
       LET late == {id \in DOMAIN reqs : Waiting(id) /\ reqs[id].overdue}
           rows == IF expires THEN WithStatus(late, "expired") ELSE reqs
           rearmed == Rearmed(rows)
           oldest == Oldest(rows)
           surfaces == /\ memory.active = None /\ ~prompting
                       /\ oldest \notin {None, rearmed}
           notified == surfaces /\ rows[oldest].valid /\ requestSlot = <<>>
           capped == ~prompting /\ CapDue # {} /\ capSlot = <<>>
       IN  /\ reqs' = IF surfaces /\ ~rows[oldest].valid
                      THEN [rows EXCEPT ![oldest].status = "failed"]
                      ELSE rows
           /\ requestSlot' = IF notified
                             THEN <<[id |-> oldest, token |-> rows[oldest].token]>>
                             ELSE requestSlot
           /\ capSlot' = IF capped THEN <<Min(CapDue)>> ELSE capSlot
           /\ memory' = [memory EXCEPT
                 !.surfaced = IF notified THEN oldest ELSE rearmed,
                 !.prompted = IF capped THEN Prompts(Min(CapDue)) ELSE @]
    /\ UNCHANGED <<recs, start, commands, events, flags, tray, threads, bounds>>

-----------------------------------------------------------------------------
(* Commands the writer handles. *)
Next1(kind) == start = Idle /\ commands # <<>> /\ Head(commands).kind = kind

(* Mutant: a request need not be requested to be confirmed. *)
ConfirmableAny(id) == TRUE

(* confirm_record_request changes a row. *)
Confirmable(id) == id = None \/ Waiting(id)

(* start_recording: the request is confirmed if it is still requested; the  *)
(* dialog's thread waits for the reply.                                     *)
ConfirmStart ==
    /\ Next1("start")
    /\ commands' = Tail(commands)
    /\ LET command == Head(commands)
       IN  IF Confirmable(command.id)
           THEN /\ start' = [pc |-> "confirmed", id |-> command.id, token |-> command.token]
                /\ reqs' = WithStatus({command.id}, "confirmed")
                /\ UNCHANGED dialog
           ELSE /\ dialog' = [dialog EXCEPT !.pc = "replied", !.rec = None]
                /\ UNCHANGED <<start, reqs>>
    /\ UNCHANGED <<recs, memory, slots, events, flags, tray, capDialog, lane, stops, bounds>>

(* open_record_session, a transaction of its own: the recording and the      *)
(* status of its request, or the failure.                                  *)
OpenRecording ==
    /\ start # Idle
    /\ LET r == Len(recs) + 1
           id == start.id
       IN  /\ recs' = Append(recs, [request |-> id, asked |-> start.token,
                                    token |-> IF id \in DOMAIN reqs THEN reqs[id].token ELSE None,
                                    open |-> TRUE, windows |-> 0, reason |-> "none"])
           /\ reqs' = [i \in DOMAIN reqs |-> IF i = id
                                             THEN [reqs[i] EXCEPT !.status = "started", !.by = r]
                                             ELSE reqs[i]]
           /\ memory' = [memory EXCEPT
                 !.active = r,
                 !.prompted = [q \in DOMAIN @ \ {r} |-> @[q]],
                 !.surfaced = IF @ = id THEN None ELSE @]
           /\ dialog' = [dialog EXCEPT !.pc = "replied", !.rec = r]
    /\ start' = Idle
    /\ UNCHANGED <<slots, commands, events, flags, tray, capDialog, lane, stops, bounds>>

FailRecording ==
    /\ start # Idle /\ "open" \in Faults
    /\ \/ reqs' = WithStatus({start.id}, "failed") /\ UNCHANGED unmarked
       \/ "mark" \in Faults /\ unmarked' = TRUE /\ UNCHANGED reqs
    /\ start' = Idle /\ dialog' = [dialog EXCEPT !.pc = "replied", !.rec = None]
    /\ UNCHANGED <<recs, memory, slots, commands, events, flags, tray, capDialog, lane,
                   stops, erased, used>>

(* Mutant: whatever its status, a declined request is cancelled. *)
DeclineUnchecked ==
    /\ Next1("decline")
    /\ commands' = Tail(commands)
    /\ LET id == Head(commands).id
       IN  /\ reqs' = WithStatus({id}, "cancelled")
           /\ memory' = [memory EXCEPT !.surfaced = IF @ = id THEN None ELSE @]
    /\ UNCHANGED <<recs, start, slots, events, flags, tray, threads, bounds>>

(* DeclineRecordRequest *)
Decline ==
    /\ Next1("decline")
    /\ commands' = Tail(commands)
    /\ LET id == Head(commands).id
       IN  /\ reqs' = WithStatus({i \in DOMAIN reqs : i = id /\ reqs[i].status \in Pending},
                                 "cancelled")
           /\ memory' = [memory EXCEPT !.surfaced = IF @ = id THEN None ELSE @]
    /\ UNCHANGED <<recs, start, slots, events, flags, tray, threads, bounds>>

(* stop_recording.  Closing a recording that is closed changes nothing and   *)
(* succeeds.                                                               *)
Closed(ids, reason) ==
    [r \in DOMAIN recs |-> IF r \in ids /\ recs[r].open
                           THEN [recs[r] EXCEPT !.open = FALSE, !.reason = reason]
                           ELSE recs[r]]

(* The thread of the stop lane for r goes on. *)
Step(threads1, r, from, to) ==
    {IF t.rec = r /\ t.pc = from THEN [t EXCEPT !.pc = to] ELSE t : t \in threads1}

StopRecording ==
    /\ Next1("stop")
    /\ commands' = Tail(commands)
    /\ LET r == Head(commands).rec
       IN  \/ /\ recs' = Closed({r}, Head(commands).reason)
              /\ memory' = [memory EXCEPT !.active = IF @ = r THEN None ELSE @,
                                          !.prompted = [q \in DOMAIN @ \ {r} |-> @[q]]]
              /\ stops' = Step(stops, r, "waiting", "stopped")
              /\ UNCHANGED used
           \/ /\ "close" \in Faults /\ used.upsets < MaxUpsets
              /\ stops' = Step(stops, r, "waiting", "failed")
              /\ used' = [used EXCEPT !.upsets = @ + 1]
              /\ UNCHANGED <<recs, memory>>
    /\ UNCHANGED <<reqs, start, slots, events, flags, tray, dialog, capDialog, lane, erased,
                   unmarked>>

(* secure_erase, and archive_and_reset where it deletes: refused while the   *)
(* writer records; what was surfaced is not forgotten.                      *)
Erase ==
    /\ Next1("erase")
    /\ commands' = Tail(commands) /\ privacy' = "answered"
    /\ IF memory.active # None
       THEN UNCHANGED <<tables, memory, erased>>
       ELSE /\ memory' = [memory EXCEPT !.prompted = <<>>]
            /\ \/ reqs' = <<>> /\ recs' = <<>> /\ erased' = TRUE
               \/ /\ "erase" \in Faults /\ recs' = Closed(OpenRecs, "app_shutdown")
                  /\ UNCHANGED <<reqs, erased>>
    /\ UNCHANGED <<start, slots, events, prompting, acting, tray, threads, unmarked, used>>

-----------------------------------------------------------------------------
(* The pump of the tray: mailboxes.                                         *)
Asking(id, token) == [pc |-> "open", id |-> id, token |-> token, rec |-> None]

(* Mutant: the dialog opens over a prompt that is under way. *)
SpawnDialogUnchecked(id, token) ==
    IF privacy # "idle" \/ acting \/ dialog # Idle
    THEN UNCHANGED <<prompting, acting, dialog>>
    ELSE prompting' = TRUE /\ acting' = TRUE /\ dialog' = Asking(id, token)

(* spawn_record_request_dialog, or nothing: the request is dropped. *)
SpawnDialog(id, token) ==
    IF privacy # "idle" \/ acting \/ prompting
    THEN UNCHANGED <<prompting, acting, dialog>>
    ELSE prompting' = TRUE /\ acting' = TRUE /\ dialog' = Asking(id, token)

TakeRequest ==
    /\ requestSlot # <<>>
    /\ requestSlot' = <<>>
    /\ SpawnDialog(Head(requestSlot).id, Head(requestSlot).token)
    /\ UNCHANGED <<tables, memory, start, capSlot, commands, events, privacy, tray, capDialog,
                   lane, stops, bounds>>

(* The menu offers a recording while the tray knows of none. *)
ManualRequest ==
    /\ tray.active = None /\ used.asked < MaxAsked
    /\ used' = [used EXCEPT !.asked = @ + 1]
    /\ SpawnDialog(None, None)
    /\ UNCHANGED <<erased, unmarked, tables, memory, start, slots, commands, events, privacy, tray, capDialog,
                   lane, stops>>

TakeCap ==
    /\ capSlot # <<>>
    /\ capSlot' = <<>>
    /\ IF tray.active = Head(capSlot) /\ tray.stopping # Head(capSlot) /\ ~prompting
       THEN prompting' = TRUE /\ capDialog' = [pc |-> "open", rec |-> Head(capSlot)]
       ELSE UNCHANGED <<prompting, capDialog>>
    /\ UNCHANGED <<tables, memory, start, requestSlot, commands, events, acting, privacy, tray,
                   dialog, lane, stops, bounds>>

(* The threads of the dialogs. *)
AcceptStart ==
    /\ dialog.pc = "open"
    /\ Send([kind |-> "start", id |-> dialog.id, token |-> dialog.token])
    /\ dialog' = [dialog EXCEPT !.pc = "waiting"]
    /\ UNCHANGED <<tables, memory, start, slots, events, flags, tray, capDialog, lane, stops,
                   bounds>>

(* The user says no, or paused capture meanwhile. *)
RefuseStart ==
    /\ dialog.pc = "open"
    /\ IF dialog.id = None THEN UNCHANGED commands
       ELSE Send([kind |-> "decline", id |-> dialog.id])
    /\ dialog' = [dialog EXCEPT !.pc = "done"]
    /\ UNCHANGED <<tables, memory, start, slots, events, flags, tray, capDialog, lane, stops,
                   bounds>>

ReportStart ==
    /\ dialog.pc = "replied"
    /\ Tell(IF dialog.rec = None THEN [kind |-> "failed", rec |-> None]
            ELSE [kind |-> "started", rec |-> dialog.rec])
    /\ dialog' = [dialog EXCEPT !.pc = "done"]
    /\ UNCHANGED <<tables, memory, start, slots, commands, flags, tray, capDialog, lane,
                   stops, bounds>>

(* FlagGuard::drop *)
EndDialog ==
    /\ dialog.pc = "done"
    /\ dialog' = Idle /\ prompting' = FALSE /\ acting' = FALSE
    /\ UNCHANGED <<tables, memory, start, slots, commands, events, privacy, tray, capDialog,
                   lane, stops, bounds>>

(* ExtendCap changes nothing in the writer; a stop goes through the tray. *)
AnswerCap ==
    /\ capDialog.pc = "open"
    /\ \/ UNCHANGED events
       \/ Tell([kind |-> "stop_for_safety_cap", rec |-> capDialog.rec])
    /\ capDialog' = [capDialog EXCEPT !.pc = "done"]
    /\ UNCHANGED <<tables, memory, start, slots, commands, flags, tray, dialog, lane, stops,
                   bounds>>

EndCapDialog ==
    /\ capDialog.pc = "done"
    /\ capDialog' = Idle /\ prompting' = FALSE
    /\ UNCHANGED <<tables, memory, start, slots, commands, events, acting, privacy, tray,
                   dialog, lane, stops, bounds>>

-----------------------------------------------------------------------------
(* The pump of the tray: events and menu.                                   *)
SpawnStop(r, reason) == stops' = stops \cup {[pc |-> "sending", rec |-> r, reason |-> reason]}

(* stop_recording_with_reason *)
Stop(r, reason) ==
    IF tray.active = r /\ tray.stopping # r
    THEN tray' = [tray EXCEPT !.stopping = r] /\ SpawnStop(r, reason)
    ELSE UNCHANGED <<tray, stops>>

HandleCapStop ==
    /\ events # <<>> /\ Head(events).kind = "stop_for_safety_cap"
    /\ events' = Tail(events)
    /\ Stop(Head(events).rec, "safety_cap_stop")
    /\ UNCHANGED <<tables, memory, start, slots, commands, flags, dialog, capDialog, lane, bounds>>

(* The recording is shown, or stopped at once: capture was paused, or no    *)
(* worker starts.                                                          *)
HandleStarted ==
    /\ events # <<>> /\ Head(events).kind = "started"
    /\ events' = Tail(events)
    /\ LET r == Head(events).rec
       IN  \/ tray' = [active |-> r, stopping |-> None] /\ UNCHANGED stops
           \/ tray' = [active |-> r, stopping |-> r] /\ SpawnStop(r, "error")
    /\ UNCHANGED <<tables, memory, start, slots, commands, flags, dialog, capDialog, lane, bounds>>

HandleStopped ==
    /\ events # <<>> /\ Head(events).kind = "stopped"
    /\ events' = Tail(events)
    /\ tray' = IF tray.active = Head(events).rec THEN FreshTray ELSE tray
    /\ UNCHANGED <<tables, memory, start, slots, commands, flags, threads, bounds>>

(* A failure of the current recording stops it, unless a stop is under way. *)
HandleFailed ==
    /\ events # <<>> /\ Head(events).kind = "failed"
    /\ events' = Tail(events)
    /\ LET r == Head(events).rec
       IN  IF r # None /\ tray.active # r
           THEN UNCHANGED <<tray, stops>>
           ELSE /\ tray' = FreshTray
                /\ IF r # None /\ tray.stopping # r
                   THEN SpawnStop(r, "error")
                   ELSE UNCHANGED stops
    /\ UNCHANGED <<tables, memory, start, slots, commands, flags, dialog, capDialog, lane, bounds>>

(* The menu, or the end of the recording's worker. *)
StopPressed ==
    /\ tray.active # None /\ tray.stopping = None
    /\ Stop(tray.active, "user_stop")
    /\ UNCHANGED <<tables, memory, start, slots, commands, events, flags, dialog, capDialog,
                   lane, bounds>>

(* Pause and resume of a recording hold record_action_in_progress until the  *)
(* writer replies, or fails.                                               *)
PausePressed ==
    /\ tray.active # None /\ tray.stopping = None /\ ~acting /\ used.upsets < MaxUpsets
    /\ acting' = TRUE /\ lane' = TRUE
    /\ used' = [used EXCEPT !.upsets = @ + 1]
    /\ UNCHANGED <<erased, unmarked, tables, memory, start, slots, commands, events, prompting, privacy, tray,
                   dialog, capDialog, stops>>

EndLane ==
    /\ lane
    /\ lane' = FALSE /\ acting' = FALSE
    /\ \/ UNCHANGED events
       \/ "close" \in Faults /\ tray.active # None
          /\ Tell([kind |-> "failed", rec |-> tray.active])
    /\ UNCHANGED <<tables, memory, start, slots, commands, prompting, privacy, tray, dialog,
                   capDialog, stops, bounds>>

(* The stop lane: deliver_record_command. *)
SendStop(t) ==
    /\ t.pc = "sending"
    /\ Send([kind |-> "stop", rec |-> t.rec, reason |-> t.reason])
    /\ stops' = Step(stops, t.rec, "sending", "waiting")
    /\ UNCHANGED <<tables, memory, start, slots, events, flags, tray, dialog, capDialog, lane,
                   bounds>>

ReportStop(t) ==
    /\ t.pc \in {"stopped", "failed"}
    /\ Tell([kind |-> t.pc, rec |-> t.rec])
    /\ stops' = stops \ {t}
    /\ UNCHANGED <<tables, memory, start, slots, commands, flags, tray, dialog, capDialog,
                   lane, bounds>>

(* request_secure_erase, request_archive_reset: while no recording is live,   *)
(* starting or stopping.                                                   *)
BeginPrivacy ==
    /\ privacy = "idle" /\ used.upsets < MaxUpsets
    /\ tray = FreshTray /\ ~acting /\ ~prompting
    /\ privacy' = "asking" /\ used' = [used EXCEPT !.upsets = @ + 1]
    /\ UNCHANGED <<erased, unmarked, tables, memory, start, slots, commands, events, prompting, acting, tray,
                   threads>>

ConfirmPrivacy ==
    /\ privacy = "asking"
    /\ \/ privacy' = "erasing" /\ Send([kind |-> "erase"])
       \/ privacy' = "answered" /\ UNCHANGED commands
    /\ UNCHANGED <<tables, memory, start, slots, events, prompting, acting, tray, threads, bounds>>

EndPrivacy ==
    /\ privacy = "answered"
    /\ privacy' = "idle"
    /\ UNCHANGED <<tables, memory, start, slots, commands, events, prompting, acting, tray,
                   threads, bounds>>

-----------------------------------------------------------------------------
(* Mutant: requests left confirmed stay so. *)
ReconciledNone == reqs

(* reconcile_confirmed_record_requests *)
Reconciled == WithStatus({id \in DOMAIN reqs : reqs[id].status = "confirmed"}, "expired")

(* The process dies and is started again; the open finalises the recordings   *)
(* (finalize_orphan_record_sessions) and reconciles the requests.           *)
Crash ==
    /\ used.upsets < MaxUpsets
    /\ used' = [used EXCEPT !.upsets = @ + 1]
    /\ recs' = Closed(OpenRecs, "error")
    /\ reqs' = Reconciled
    /\ memory' = FreshMemory /\ start' = Idle
    /\ requestSlot' = <<>> /\ capSlot' = <<>> /\ commands' = <<>> /\ events' = <<>>
    /\ prompting' = FALSE /\ acting' = FALSE /\ privacy' = "idle" /\ tray' = FreshTray
    /\ dialog' = Idle /\ capDialog' = Idle /\ lane' = FALSE /\ stops' = {}
    /\ UNCHANGED erased /\ unmarked' = FALSE

-----------------------------------------------------------------------------
Writer == ConfirmStart \/ OpenRecording \/ FailRecording \/ Decline \/ StopRecording \/ Erase
Pump == TakeRequest \/ TakeCap \/ HandleCapStop \/ HandleStarted \/ HandleStopped
        \/ HandleFailed
Dialog == AcceptStart \/ RefuseStart \/ ReportStart \/ EndDialog
CapDialog == AnswerCap \/ EndCapDialog
StopLane == \E t \in stops : SendStop(t) \/ ReportStop(t)
Privacy == ConfirmPrivacy \/ EndPrivacy

Next ==
    \/ Poll \/ Writer \/ Pump \/ Dialog \/ CapDialog \/ StopLane \/ Privacy \/ EndLane
    \/ RequestRecording \/ ManualRequest \/ StopPressed \/ PausePressed \/ BeginPrivacy \/ Crash
    \/ \E id \in DOMAIN reqs : Overdue(id)
    \/ \E r \in DOMAIN recs : Elapse(r)

Spec == Init /\ [][Next]_vars

(* The writer takes its commands and polls on a ticker, the pump of the tray  *)
(* runs, the threads go on.  A dialog is answered: while one stays open      *)
(* nothing else is asked.                                                  *)
FairSpec ==
    /\ Spec
    /\ WF_vars(Poll) /\ WF_vars(Writer) /\ WF_vars(TakeRequest) /\ WF_vars(Pump)
    /\ WF_vars(Dialog) /\ WF_vars(CapDialog) /\ WF_vars(StopLane) /\ WF_vars(Privacy)
    /\ WF_vars(EndLane)

-----------------------------------------------------------------------------
TypeOK ==
    /\ reqs \in Seq(Request) /\ recs \in Seq(Recording)
    /\ memory \in [surfaced : Nat, active : Nat, prompted : [DOMAIN memory.prompted -> Nat]]
    /\ start \in {Idle} \cup [pc : {"confirmed"}, id : Nat, token : Nat]
    /\ requestSlot \in Seq([id : Nat, token : Nat]) /\ capSlot \in Seq(Nat)
    /\ {Len(requestSlot), Len(capSlot)} \subseteq {0, 1}
    /\ commands \in Seq(Command) /\ Len(commands) <= CommandBound
    /\ events \in Seq(Event)
    /\ prompting \in BOOLEAN /\ acting \in BOOLEAN /\ lane \in BOOLEAN
    /\ erased \in BOOLEAN /\ unmarked \in BOOLEAN
    /\ privacy \in {"idle", "asking", "erasing", "answered"}
    /\ tray \in [active : Nat, stopping : Nat] /\ tray.stopping \in {None, tray.active}
    /\ dialog \in {Idle} \cup [pc : {"open", "waiting", "replied", "done"}, id : Nat, token : Nat,
                               rec : Nat]
    /\ capDialog \in {Idle} \cup [pc : {"open", "done"}, rec : Nat]
    /\ stops \subseteq StopThread
    /\ used \in [asked : Nat, upsets : Nat]

(* A request and the recording that fulfils it name each other, whichever of  *)
(* dashboard, tray and writer decided first: a request is started by one     *)
(* recording, and no other status has one.                                 *)
StartedOnce ==
    /\ \A id \in DOMAIN reqs :
          /\ reqs[id].status = "started" <=> reqs[id].by # None
          /\ reqs[id].by # None => recs[reqs[id].by].request = id
    /\ \A r \in DOMAIN recs : recs[r].request # None =>
          recs[r].request \in DOMAIN reqs /\ reqs[recs[r].request].by = r

(* A request that has been decided stays decided: a late answer, a second     *)
(* dialog or the expiry of the poll changes nothing.                        *)
DecisionsFinal ==
    [][\A id \in DOMAIN reqs \cap DOMAIN reqs' :
          reqs[id].status \notin Pending /\ reqs[id].token = reqs'[id].token
              => reqs'[id].status = reqs[id].status]_vars

(* A request is confirmed only while its start is under way, unless neither    *)
(* the recording nor the failure could be stored since the database was      *)
(* opened: no crash leaves one that nothing will decide.                     *)
ConfirmedInStart ==
    \A id \in DOMAIN reqs :
        reqs[id].status = "confirmed" => (start # Idle /\ start.id = id) \/ unmarked

(* One prompt at a time, and none while a privacy operation asks, although   *)
(* the writer looks at prompt_in_flight in another thread.                  *)
OnePrompt ==
    /\ dialog = Idle \/ capDialog = Idle
    /\ privacy # "idle" => dialog = Idle
    /\ prompting <=> dialog # Idle \/ capDialog # Idle

(* The answer of a cap prompt stops the recording it was about: no recording  *)
(* that has not reached its cap is stopped for it (an erase restarts the     *)
(* ids, and a prompt that waits in the mailbox meanwhile names another).     *)
CapStopsOwn ==
    ~erased => \A r \in DOMAIN recs : recs[r].reason = "safety_cap_stop" => recs[r].windows > 0

(* What is recorded on a request is the request the user was asked about.    *)
StartedAsAsked ==
    \A r \in DOMAIN recs : recs[r].request # None => recs[r].asked = recs[r].token

(* The mailbox does not wedge: a request is put to the user or decided,      *)
(* unless a recording goes on.                                             *)
RequestsSurface ==
    \A id \in 1 .. MaxAsked :
        []<>(~Waiting(id) \/ (dialog # Idle /\ dialog.id = id) \/ memory.active # None)
=============================================================================
