----------------------------- MODULE CaptureGate -----------------------------
(***************************************************************************)
(* Who may capture: the flags of gilbreth-app by which the user's pause,   *)
(* a privacy operation (secure erase, archive/reset) and a Record Routine  *)
(* recording each suspend ambient capture and lift the suspension again.   *)
(*                                                                         *)
(* Four kinds of thread share them.  The pump runs the pause toggle, the   *)
(* menu and the record UI events; a worker thread runs one privacy         *)
(* operation; another one the confirmation and start of a recording; and   *)
(* one each the stops.  The flags are atomics, so a step reads or writes   *)
(* one of them where another thread could come between.  Of the writer     *)
(* only its answers and the recording it holds open are kept.              *)
(***************************************************************************)
EXTENDS Naturals, Sequences

CONSTANTS
    Ops,       \* what happens in the instance: "toggle", "privacy", "record", ...
    Faults,    \* what may fail in it: "flush", "start", "worker", "stop", "session"
    MaxToggles, MaxPrivacy, MaxRecords    \* bounds on what happens

ASSUME GateAssumption == MaxToggles \in Nat /\ MaxPrivacy \in Nat /\ MaxRecords \in Nat

VARIABLES
    suspended,        \* CaptureControls.suspended
    transition,       \* a sensitive-context transition is active
    paused,           \* capture_paused_by_user
    owned,            \* privacy_suspension_owned
    pump,             \* where the pump is in toggle_capture_pause ...
    pumpOwned,        \* ... and the `owned` it read at its start
    active, stopping, baseline,    \* the tray's recording, its pending stop, and
                      \* baseline_capture_suspended_for_recording
    events, stops,    \* RecordUiEvents under way, stop commands under way
    priv, manual, created,    \* the privacy worker, its manual_pause_at_start,
                      \* and whether a replacement session was created
    rec, recSuspended,        \* the record dialog's thread, its own suspension
    open, nextRec,    \* the recording the writer holds open, the next id
    failed,           \* the replacement session could not be created
    audit,            \* the pause and resume rows of the session
    used              \* what has been used up of the bounds

pumpVars == <<pump, pumpOwned>>
tray     == <<active, stopping, baseline>>
lanes    == <<events, stops>>
privVars == <<owned, priv, manual, created, failed>>
recVars  == <<rec, recSuspended>>
writer   == <<open, nextRec>>
vars == <<suspended, transition, paused, pumpVars, tray, lanes, privVars,
          recVars, writer, audit, used>>

Events == [type : {"started", "stopped", "failed"}, id : Nat, baseline : BOOLEAN]

TypeOK ==
    /\ suspended \in BOOLEAN /\ transition \in BOOLEAN /\ paused \in BOOLEAN
    /\ owned \in BOOLEAN /\ pumpOwned \in BOOLEAN
    /\ pump \in {"idle", "toggle", "suspend", "pause row", "resume", "reopen"}
    /\ active \in Nat /\ stopping \in {0, active} /\ baseline \in BOOLEAN
    /\ events \in Seq(Events) /\ stops \subseteq Nat
    /\ priv \in {"idle", "confirm", "own", "suspend", "flush", "command", "restore",
                 "hold", "resume", "reopen", "report", "end"}
    /\ manual \in BOOLEAN /\ created \in BOOLEAN /\ failed \in BOOLEAN
    /\ rec \in {"idle", "confirm", "suspend", "start", "restore", "end"}
    /\ recSuspended \in BOOLEAN
    /\ open \in Nat /\ nextRec \in Nat
    /\ audit \in Seq({"paused", "resumed"})
    /\ used \in [toggle : Nat, privacy : Nat, record : Nat, failure : Nat]

Init ==
    /\ suspended = FALSE /\ transition = FALSE /\ paused = FALSE
    /\ pump = "idle" /\ pumpOwned = FALSE
    /\ active = 0 /\ stopping = 0 /\ baseline = FALSE
    /\ events = <<>> /\ stops = {}
    /\ owned = FALSE /\ priv = "idle" /\ manual = FALSE /\ created = FALSE
    /\ failed = FALSE
    /\ rec = "idle" /\ recSuspended = FALSE
    /\ open = 0 /\ nextRec = 1
    /\ audit = <<>>
    /\ used = [toggle |-> 0, privacy |-> 0, record |-> 0, failure |-> 0]

Outcomes(fault) == IF fault \in Faults THEN BOOLEAN ELSE {TRUE}

IsSuspended == suspended \/ transition

(* A sensitive context begins or ends: capture is gated meanwhile. *)
Transition ==
    /\ "sensitive" \in Ops /\ transition' = ~transition
    /\ UNCHANGED <<suspended, paused, pumpVars, tray, lanes, privVars, recVars,
                   writer, audit, used>>
-----------------------------------------------------------------------------
(***************************************************************************)
(* The pump: stop_recording_with_reason and toggle_capture_pause.          *)
(***************************************************************************)
StopRecording(id) ==
    IF id = 0 \/ active # id \/ stopping = id
    THEN UNCHANGED <<stopping, stops>>
    ELSE stopping' = id /\ stops' = stops \cup {id}

TogglePause ==
    /\ pump = "idle" /\ "toggle" \in Ops
    /\ used.toggle < MaxToggles /\ used' = [used EXCEPT !.toggle = @ + 1]
    /\ pump' = "toggle" /\ pumpOwned' = owned
    /\ UNCHANGED <<suspended, transition, paused, tray, lanes, privVars, recVars,
                   writer, audit>>

(* A pause that finds a recording although capture is paused ends the      *)
(* recording and remains paused.                                           *)
ToggleDecides ==
    /\ pump = "toggle"
    /\ \/ /\ paused /\ active # 0
          /\ StopRecording(active)
          /\ pump' = "idle" /\ UNCHANGED paused
       \/ /\ paused /\ active = 0
          /\ paused' = FALSE /\ pump' = IF pumpOwned THEN "idle" ELSE "resume"
          /\ UNCHANGED <<stopping, stops>>
       \/ /\ ~paused
          /\ paused' = TRUE /\ pump' = "suspend"
          /\ UNCHANGED <<stopping, stops>>
    /\ UNCHANGED <<suspended, transition, pumpOwned, active, baseline, events,
                   privVars, recVars, writer, audit, used>>

PauseSuspends ==
    /\ pump = "suspend"
    /\ suspended' = TRUE
    /\ StopRecording(active)
    /\ pump' = IF pumpOwned THEN "idle" ELSE "pause row"
    /\ UNCHANGED <<transition, paused, pumpOwned, active, baseline, events,
                   privVars, recVars, writer, audit, used>>

PauseRow ==
    /\ pump = "pause row" /\ pump' = "idle"
    /\ \E flushed \in Outcomes("flush") :
          audit' = IF flushed THEN Append(audit, "paused") ELSE audit
    /\ UNCHANGED <<suspended, transition, paused, pumpOwned, tray, lanes, privVars,
                   recVars, writer, used>>

(* Mutant: the boundary row of a resume is forgotten.                      *)
PumpResumesUnrecorded ==
    /\ pump = "resume" /\ pump' = "reopen"
    /\ UNCHANGED <<suspended, transition, paused, pumpOwned, tray, lanes, privVars,
                   recVars, writer, audit, used>>

(* resume_capture_after_quiet either gets its quiet pipeline and writes    *)
(* the boundary row before it reopens the producers, or gives up.          *)
PumpResumes ==
    /\ pump = "resume"
    /\ \E quiet \in Outcomes("flush") :
          IF quiet
          THEN pump' = "reopen" /\ audit' = Append(audit, "resumed") /\ UNCHANGED paused
          ELSE pump' = "idle" /\ paused' = TRUE /\ UNCHANGED audit
    /\ UNCHANGED <<suspended, transition, pumpOwned, tray, lanes, privVars, recVars,
                   writer, used>>

PumpReopens ==
    /\ pump = "reopen" /\ pump' = "idle" /\ suspended' = FALSE
    /\ UNCHANGED <<transition, paused, pumpOwned, tray, lanes, privVars, recVars,
                   writer, audit, used>>

(* The Stop item of the menu. *)
StopChosen ==
    /\ pump = "idle" /\ "stop" \in Ops /\ active # 0 /\ stopping # active
    /\ StopRecording(active)
    /\ UNCHANGED <<suspended, transition, paused, pumpVars, active, baseline, events,
                   privVars, recVars, writer, audit, used>>
-----------------------------------------------------------------------------
(***************************************************************************)
(* The pump: handle_record_ui_events.                                      *)
(***************************************************************************)
TakeEvent(type) ==
    /\ pump = "idle" /\ events # <<>> /\ Head(events).type = type
    /\ events' = Tail(events)

(* Mutant: the late start is not checked against the pause.                *)
HandleStartedUnchecked ==
    /\ TakeEvent("started")
    /\ active' = Head(events).id /\ baseline' = Head(events).baseline
    /\ stopping' = 0
    /\ UNCHANGED <<suspended, transition, paused, pumpVars, stops, privVars, recVars,
                   writer, audit, used>>

(* The panic key may have come while the start was confirmed: then no      *)
(* worker is started and the recording is closed at once.                  *)
HandleStarted ==
    /\ TakeEvent("started")
    /\ LET id == Head(events).id
       IN  /\ active' = id /\ baseline' = Head(events).baseline
           /\ \E works \in Outcomes("worker") :
                 IF paused \/ ~works
                 THEN stopping' = id /\ stops' = stops \cup {id}
                 ELSE stopping' = 0 /\ UNCHANGED stops
    /\ UNCHANGED <<suspended, transition, paused, pumpVars, privVars, recVars,
                   writer, audit, used>>

(* Mutant: the end of a recording lifts the suspension of a pause.         *)
RecordingOverUnpaused ==
    /\ active' = 0 /\ stopping' = 0 /\ baseline' = FALSE
    /\ suspended' = IF baseline THEN FALSE ELSE suspended

(* resume_baseline_capture_after_recording. *)
RecordingOver ==
    /\ active' = 0 /\ stopping' = 0 /\ baseline' = FALSE
    /\ suspended' = IF ~paused /\ baseline THEN FALSE ELSE suspended

HandleStopped ==
    /\ TakeEvent("stopped")
    /\ IF active = Head(events).id THEN RecordingOver ELSE UNCHANGED <<tray, suspended>>
    /\ UNCHANGED <<transition, paused, pumpVars, stops, privVars, recVars,
                   writer, audit, used>>

(* Mutant: the tray forgets the recording, the writer does not.            *)
HandleFailedUnconverged ==
    /\ TakeEvent("failed")
    /\ LET id == Head(events).id
       IN  IF id # 0 /\ active # id
           THEN UNCHANGED <<tray, suspended>>
           ELSE RecordingOver
    /\ UNCHANGED <<transition, paused, pumpVars, stops, privVars, recVars, writer, audit, used>>

(* A failure that names no recording is one to start; one of a pause or    *)
(* resume makes the writer converge by a stop, one of a stop does not.     *)
HandleFailed ==
    /\ TakeEvent("failed")
    /\ LET id == Head(events).id
       IN  IF id # 0 /\ active # id
           THEN UNCHANGED <<tray, stops, suspended>>
           ELSE /\ RecordingOver
                /\ stops' = IF id # 0 /\ stopping # id THEN stops \cup {id} ELSE stops
    /\ UNCHANGED <<transition, paused, pumpVars, privVars, recVars, writer, audit, used>>

(* deliver_record_command: the writer closes the recording, also one that  *)
(* is closed already, or reports that it could not.                        *)
StopDelivered ==
    \E id \in stops, closed \in Outcomes("stop") :
        /\ stops' = stops \ {id}
        /\ open' = IF closed /\ open = id THEN 0 ELSE open
        /\ events' = Append(events, [type |-> IF closed THEN "stopped" ELSE "failed",
                                     id |-> id, baseline |-> FALSE])
        /\ UNCHANGED <<suspended, transition, paused, pumpVars, tray, privVars,
                       recVars, nextRec, audit, used>>

(* A pause or resume of the recording fails: its reply is lost. *)
SimpleCommandFails ==
    /\ "reply" \in Faults /\ pump = "idle" /\ active # 0 /\ stopping = 0
    /\ Len(events) = 0
    /\ events' = Append(events, [type |-> "failed", id |-> active, baseline |-> FALSE])
    /\ UNCHANGED <<suspended, transition, paused, pumpVars, tray, stops, privVars,
                   recVars, writer, audit, used>>
-----------------------------------------------------------------------------
(***************************************************************************)
(* The record dialog's thread: run_record_routine_dialogs_and_command.     *)
(***************************************************************************)
recordRest == <<transition, paused, pumpVars, tray, stops, privVars, audit>>

RequestRecord ==
    /\ pump = "idle" /\ "record" \in Ops
    /\ used.record < MaxRecords /\ used' = [used EXCEPT !.record = @ + 1]
    /\ active = 0 /\ priv = "idle" /\ rec = "idle"
    /\ rec' = "confirm"
    /\ UNCHANGED <<recordRest, suspended, events, recSuspended, writer>>

ConfirmRecord ==
    /\ rec = "confirm"
    /\ rec' \in IF paused THEN {"end"} ELSE {"end", "suspend"}
    /\ UNCHANGED <<recordRest, suspended, events, recSuspended, writer, used>>

RecordSuspends ==
    /\ rec = "suspend" /\ rec' = "start"
    /\ recSuspended' = ~IsSuspended
    /\ suspended' = IF IsSuspended THEN suspended ELSE TRUE
    /\ UNCHANGED <<recordRest, events, writer, used>>

StartDelivered ==
    /\ rec = "start"
    /\ \E started \in Outcomes("start") :
          IF started
          THEN /\ open' = nextRec /\ nextRec' = nextRec + 1
               /\ events' = Append(events, [type |-> "started", id |-> nextRec,
                                            baseline |-> recSuspended])
               /\ rec' = "end"
          ELSE rec' = "restore" /\ UNCHANGED <<open, nextRec, events>>
    /\ UNCHANGED <<recordRest, suspended, recSuspended, used>>

RecordRestores ==
    /\ rec = "restore" /\ rec' = "end" /\ used' = [used EXCEPT !.failure = @ + 1]
    /\ suspended' = IF recSuspended THEN FALSE ELSE suspended
    /\ events' = Append(events, [type |-> "failed", id |-> 0, baseline |-> FALSE])
    /\ UNCHANGED <<recordRest, recSuspended, writer>>

(* The guard drops record_action_in_progress and prompt_in_flight. *)
RecordEnds ==
    /\ rec = "end" /\ rec' = "idle" /\ recSuspended' = FALSE
    /\ UNCHANGED <<recordRest, suspended, events, writer, used>>
-----------------------------------------------------------------------------
(***************************************************************************)
(* The privacy worker: run_secure_erase_dialogs_and_command and its        *)
(* archive/reset twin, which treat the flags alike.                        *)
(***************************************************************************)
privacyRest == <<transition, pumpVars, tray, lanes, recVars, writer>>

RequestPrivacy ==
    /\ pump = "idle" /\ "privacy" \in Ops /\ priv = "idle"
    /\ used.privacy < MaxPrivacy /\ used' = [used EXCEPT !.privacy = @ + 1]
    /\ active = 0 /\ stopping = 0 /\ rec = "idle"
    /\ priv' = "confirm"
    /\ UNCHANGED <<privacyRest, suspended, paused, owned, manual, created, failed, audit>>

ConfirmPrivacy ==
    /\ priv = "confirm"
    /\ \/ priv' = "end" /\ UNCHANGED manual
       \/ priv' = "own" /\ manual' = paused
    /\ created' = FALSE
    /\ UNCHANGED <<privacyRest, suspended, paused, owned, failed, audit, used>>

PrivacyOwns ==
    /\ priv = "own" /\ priv' = "suspend" /\ owned' = TRUE
    /\ UNCHANGED <<privacyRest, suspended, paused, manual, created, failed, audit, used>>

PrivacySuspends ==
    /\ priv = "suspend" /\ priv' = "flush" /\ suspended' = TRUE
    /\ UNCHANGED <<privacyRest, paused, owned, manual, created, failed, audit, used>>

PrivacyFlushes ==
    /\ priv = "flush"
    /\ \E flushed \in Outcomes("flush") : priv' = IF flushed THEN "command" ELSE "restore"
    /\ UNCHANGED <<privacyRest, suspended, paused, owned, manual, created, failed, audit, used>>

(* The writer refuses it over an open recording, and may fail before the   *)
(* delete or after it, when it cannot create the replacement session.      *)
PrivacyDelivered ==
    /\ priv = "command"
    /\ \/ /\ priv' = "restore" /\ UNCHANGED <<created, failed, audit>>
       \/ /\ open = 0 /\ priv' = "restore" /\ created' = TRUE /\ audit' = <<>>
          /\ UNCHANGED failed
       \/ /\ open = 0 /\ "session" \in Faults
          /\ priv' = "report" /\ failed' = TRUE /\ audit' = <<>>
          /\ UNCHANGED created
    /\ UNCHANGED <<privacyRest, suspended, paused, owned, manual, used>>

(* restore_capture_after_privacy_operation. *)
PrivacyRestores ==
    /\ priv = "restore" /\ priv' = IF paused THEN "hold" ELSE "resume"
    /\ UNCHANGED <<privacyRest, suspended, paused, owned, manual, created, failed, audit, used>>

PrivacyHolds ==
    /\ priv = "hold" /\ priv' = "report" /\ suspended' = TRUE
    /\ audit' = IF ~manual \/ created THEN Append(audit, "paused") ELSE audit
    /\ UNCHANGED <<privacyRest, paused, owned, manual, created, failed, used>>

PrivacyResumes ==
    /\ priv = "resume"
    /\ \E quiet \in Outcomes("flush") :
          IF quiet
          THEN /\ priv' = "reopen" /\ UNCHANGED <<paused, suspended>>
               /\ audit' = IF manual THEN Append(audit, "resumed") ELSE audit
          ELSE priv' = "report" /\ paused' = TRUE /\ suspended' = TRUE /\ UNCHANGED audit
    /\ UNCHANGED <<privacyRest, owned, manual, created, failed, used>>

PrivacyReopens ==
    /\ priv = "reopen" /\ priv' = "report" /\ suspended' = FALSE
    /\ UNCHANGED <<privacyRest, paused, owned, manual, created, failed, audit, used>>

(* The report is a modal alert; its closing ends the ownership, and then   *)
(* privacy_action_in_progress.                                             *)
PrivacyReported ==
    /\ priv = "report" /\ priv' = "end" /\ owned' = FALSE
    /\ UNCHANGED <<privacyRest, suspended, paused, manual, created, failed, audit, used>>

PrivacyEnds ==
    /\ priv = "end" /\ priv' = "idle"
    /\ UNCHANGED <<privacyRest, suspended, paused, owned, manual, created, failed, audit, used>>
-----------------------------------------------------------------------------
Next ==
    \/ Transition
    \/ TogglePause \/ ToggleDecides \/ PauseSuspends \/ PauseRow
    \/ PumpResumes \/ PumpReopens \/ StopChosen
    \/ HandleStarted \/ HandleStopped \/ HandleFailed
    \/ StopDelivered \/ SimpleCommandFails
    \/ RequestRecord \/ ConfirmRecord \/ RecordSuspends
    \/ StartDelivered \/ RecordRestores \/ RecordEnds
    \/ RequestPrivacy \/ ConfirmPrivacy \/ PrivacyOwns \/ PrivacySuspends
    \/ PrivacyFlushes \/ PrivacyDelivered \/ PrivacyRestores \/ PrivacyHolds
    \/ PrivacyResumes \/ PrivacyReopens \/ PrivacyReported \/ PrivacyEnds

Spec == Init /\ [][Next]_vars
-----------------------------------------------------------------------------
(* Nothing is under way but what waits for the user. *)
Quiet ==
    pump = "idle" /\ priv = "idle" /\ rec = "idle" /\ events = <<>> /\ stops = {}

(* No privacy operation has begun and no start has failed (see the           *)
(* counterexamples gate_pause_lost and gate_start_fails).                  *)
Undisturbed == used.privacy = 0 /\ used.failure = 0

(* No start has failed that could be a second one: its failure names no     *)
(* recording, and the tray forgets the first.                              *)
Untangled == used.failure = 0 \/ used.record <= 1

(* What the user paused stays paused until the user resumes it. *)
PauseHolds == Quiet /\ Undisturbed /\ paused => suspended

(* The same whatever else happens: it fails, see the two configurations.     *)
PauseHoldsAlways == Quiet /\ paused => suspended

(* Capture is never off without someone to turn it on again: the user's    *)
(* Resume, the end of the recording, or the restart a failed replacement   *)
(* session asks for.                                                       *)
SuspensionOwned == Quiet /\ suspended => paused \/ active # 0 \/ failed

(* Ambient capture and a recording never run together. *)
RecordExclusive == Quiet /\ active # 0 => suspended

(* After the panic key nothing records: neither a recording it found, nor  *)
(* one whose start was still under way.                                    *)
PanicStops == Quiet /\ Untangled /\ paused => active = 0 /\ open = 0

(* The tray and the writer agree on the recording that is open. *)
TrayKnowsRecording == Quiet /\ Untangled => open = active

(* The writer wipes under suspension. *)
WipesSuspended == priv = "command" => suspended

(* Without a session nothing is captured until the restart. *)
RestartRequired == Quiet /\ failed => suspended

(* The rows of the session tell whether it is paused, and when. *)
PauseRecorded ==
    Undisturbed =>
    /\ Quiet => (paused <=> audit # <<>> /\ audit[Len(audit)] = "paused")
    /\ \A i \in 1 .. Len(audit) : audit[i] = IF i % 2 = 1 THEN "paused" ELSE "resumed"
=============================================================================
