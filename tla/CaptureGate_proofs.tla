------------------------- MODULE CaptureGate_proofs -------------------------
(***************************************************************************)
(* Proofs about CaptureGate, for any number of toggles, privacy operations *)
(* and recordings and any choice of Ops and Faults: its type invariant;    *)
(* the pause of the user (PauseHolds, PauseRecorded); and, where starts    *)
(* and stops are carried out, the recordings (TrayKnowsRecording,          *)
(* PanicStops).                                                            *)
(***************************************************************************)
EXTENDS CaptureGate, SequenceTheorems, TLAPS

(* handle_record_ui_events takes the oldest event and keeps the rest. *)
LEMMA TakenEvent ==
    ASSUME events \in Seq(Events), NEW t, TakeEvent(t)
    PROVE  /\ Head(events) \in Events /\ Head(events).type = t
           /\ Head(events).id \in Nat /\ Head(events).baseline \in BOOLEAN
           /\ events' \in Seq(Events)
           /\ pump = "idle"
<1>1. events # <<>> /\ events' = Tail(events) /\ Head(events).type = t /\ pump = "idle"
  BY DEF TakeEvent
<1>2. Head(events) \in Events /\ Tail(events) \in Seq(Events)
  BY <1>1, HeadTailProperties
<1>3. QED
  BY <1>1, <1>2 DEF Events

(* What append_capture_state_transition writes into the session. *)
Rows == {"paused", "resumed"}

(* The Boolean variables of TypeOK, and the others. *)
Flags ==
    /\ suspended \in BOOLEAN /\ transition \in BOOLEAN /\ paused \in BOOLEAN
    /\ owned \in BOOLEAN /\ pumpOwned \in BOOLEAN /\ baseline \in BOOLEAN
    /\ manual \in BOOLEAN /\ created \in BOOLEAN /\ failed \in BOOLEAN
    /\ recSuspended \in BOOLEAN

Values ==
    /\ pump \in {"idle", "toggle", "suspend", "pause row", "resume", "reopen"}
    /\ active \in Nat /\ stopping \in {0, active}
    /\ events \in Seq(Events) /\ stops \subseteq Nat
    /\ priv \in {"idle", "confirm", "own", "suspend", "flush", "command", "restore",
                 "hold", "resume", "reopen", "report", "end"}
    /\ rec \in {"idle", "confirm", "suspend", "start", "restore", "end"}
    /\ open \in Nat /\ nextRec \in Nat
    /\ audit \in Seq(Rows)
    /\ used \in [toggle : Nat, privacy : Nat, record : Nat, failure : Nat]

(* TypeOK in its two parts, which different provers are good at. *)
LEMMA Parts == TypeOK <=> Flags /\ Values
BY DEF TypeOK, Flags, Values, Rows


-----------------------------------------------------------------------------
(* No step makes a flag anything but a truth value. *)
LEMMA FlagsStep == TypeOK /\ [Next]_vars => Flags'
<1> SUFFICES ASSUME TypeOK, [Next]_vars PROVE Flags'
  OBVIOUS
<1>0. Flags /\ events \in Seq(Events)
  BY DEF TypeOK, Flags
<1> USE <1>0 DEF Flags, pumpVars, tray, lanes, privVars, recVars, writer,
            privacyRest, recordRest
<1>1. CASE Transition
  BY <1>1 DEF Transition
<1>2. CASE TogglePause
  BY <1>2 DEF TogglePause
<1>3. CASE ToggleDecides
  BY <1>3 DEF ToggleDecides, StopRecording
<1>4. CASE PauseSuspends
  BY <1>4 DEF PauseSuspends, StopRecording
<1>5. CASE PauseRow
  BY <1>5 DEF PauseRow
<1>6. CASE PumpResumes
  BY <1>6 DEF PumpResumes
<1>7. CASE PumpReopens
  BY <1>7 DEF PumpReopens
<1>8. CASE StopChosen
  BY <1>8 DEF StopChosen, StopRecording
<1>9. CASE HandleStarted
  BY <1>9, TakenEvent DEF HandleStarted
<1>10. CASE HandleStopped
  BY <1>10, TakenEvent DEF HandleStopped, RecordingOver
<1>11. CASE HandleFailed
  BY <1>11, TakenEvent DEF HandleFailed, RecordingOver
<1>12. CASE StopDelivered
  BY <1>12 DEF StopDelivered
<1>13. CASE SimpleCommandFails
  BY <1>13 DEF SimpleCommandFails
<1>14. CASE RequestRecord
  BY <1>14 DEF RequestRecord
<1>15. CASE ConfirmRecord
  BY <1>15 DEF ConfirmRecord
<1>16. CASE RecordSuspends
  BY <1>16 DEF RecordSuspends, IsSuspended
<1>17. CASE StartDelivered
  BY <1>17 DEF StartDelivered
<1>18. CASE RecordRestores
  BY <1>18 DEF RecordRestores
<1>19. CASE RecordEnds
  BY <1>19 DEF RecordEnds
<1>20. CASE RequestPrivacy
  BY <1>20 DEF RequestPrivacy
<1>21. CASE ConfirmPrivacy
  BY <1>21 DEF ConfirmPrivacy
<1>22. CASE PrivacyOwns
  BY <1>22 DEF PrivacyOwns
<1>23. CASE PrivacySuspends
  BY <1>23 DEF PrivacySuspends
<1>24. CASE PrivacyFlushes
  BY <1>24 DEF PrivacyFlushes
<1>25. CASE PrivacyDelivered
  BY <1>25 DEF PrivacyDelivered
<1>26. CASE PrivacyRestores
  BY <1>26 DEF PrivacyRestores
<1>27. CASE PrivacyHolds
  BY <1>27 DEF PrivacyHolds
<1>28. CASE PrivacyResumes
  BY <1>28 DEF PrivacyResumes
<1>29. CASE PrivacyReopens
  BY <1>29 DEF PrivacyReopens
<1>30. CASE PrivacyReported
  BY <1>30 DEF PrivacyReported
<1>31. CASE PrivacyEnds
  BY <1>31 DEF PrivacyEnds
<1>32. CASE UNCHANGED vars
  BY <1>32 DEF vars
<1>33. QED
  BY <1>1, <1>2, <1>3, <1>4, <1>5, <1>6, <1>7, <1>8, <1>9, <1>10, <1>11,
     <1>12, <1>13, <1>14, <1>15, <1>16, <1>17, <1>18, <1>19, <1>20,
     <1>21, <1>22, <1>23, <1>24, <1>25, <1>26, <1>27, <1>28, <1>29,
     <1>30, <1>31, <1>32 DEF Next
-----------------------------------------------------------------------------
(* A boundary row is added to the session. *)
LEMMA RowAdded ==
    ASSUME audit \in Seq(Rows), NEW r \in Rows PROVE Append(audit, r) \in Seq(Rows)
BY AppendProperties

(* A worker thread reports to the pump. *)
LEMMA EventAdded ==
    ASSUME events \in Seq(Events), NEW e \in Events
    PROVE  Append(events, e) \in Seq(Events)
BY AppendProperties

(* No step leaves the states of the threads or the ids behind. *)
LEMMA ValuesStep == TypeOK /\ [Next]_vars => Values'
<1> SUFFICES ASSUME TypeOK, [Next]_vars PROVE Values'
  OBVIOUS
<1>0. Flags /\ Values
  BY Parts
<1>a. /\ active \in Nat /\ stopping \in {0, active} /\ stops \subseteq Nat
     /\ open \in Nat /\ nextRec \in Nat
  BY <1>0 DEF Values
<1>b. audit \in Seq(Rows) /\ events \in Seq(Events)
  BY <1>0 DEF Values
<1>c. used \in [toggle : Nat, privacy : Nat, record : Nat, failure : Nat]
  BY <1>0 DEF Values
<1> USE DEF Values, pumpVars, tray, lanes, privVars, recVars, writer,
            privacyRest, recordRest
<1>1. CASE Transition
  BY <1>0, <1>1 DEF Transition
<1>2. CASE TogglePause
  BY <1>0, <1>2 DEF TogglePause
<1>3. CASE ToggleDecides
  BY <1>0, <1>3 DEF ToggleDecides, StopRecording
<1>4. CASE PauseSuspends
  BY <1>0, <1>4 DEF PauseSuspends, StopRecording
<1>5. CASE PauseRow
  <2>1. pump' = "idle" /\ UNCHANGED <<tray, lanes, privVars, recVars, writer, used>>
    BY <1>5 DEF PauseRow
  <2>2. audit' = audit \/ audit' = Append(audit, "paused")
    BY <1>5 DEF PauseRow
  <2>3. audit' \in Seq(Rows)
    BY <2>2, <1>b, RowAdded DEF Rows
  <2>4. QED
    BY <1>0, <2>1, <2>3
<1>6. CASE PumpResumes
  <2>1. pump' \in {"reopen", "idle"} /\ UNCHANGED <<tray, lanes, privVars, recVars, writer, used>>
    BY <1>6 DEF PumpResumes
  <2>2. audit' = audit \/ audit' = Append(audit, "resumed")
    BY <1>6 DEF PumpResumes
  <2>3. audit' \in Seq(Rows)
    BY <2>2, <1>b, RowAdded DEF Rows
  <2>4. QED
    BY <1>0, <2>1, <2>3
<1>7. CASE PumpReopens
  BY <1>0, <1>7 DEF PumpReopens
<1>8. CASE StopChosen
  BY <1>0, <1>8 DEF StopChosen, StopRecording
<1>9. CASE HandleStarted
  BY <1>0, <1>9, TakenEvent DEF HandleStarted
<1>10. CASE HandleStopped
  <2>1. events' \in Seq(Events)
    BY <1>10, <1>b, TakenEvent DEF HandleStopped
  <2>2. (active' = 0 /\ stopping' = 0) \/ UNCHANGED <<active, stopping>>
    BY <1>10 DEF HandleStopped, RecordingOver
  <2>3. UNCHANGED <<pump, stops, priv, rec, open, nextRec, audit, used>>
    BY <1>10 DEF HandleStopped
  <2>4. active' \in Nat /\ stopping' \in {0, active'}
    BY <1>a, <2>2
  <2>5. QED
    BY <1>0, <2>1, <2>3, <2>4
<1>11. CASE HandleFailed
  <2>1. events' \in Seq(Events) /\ Head(events).id \in Nat
    BY <1>11, <1>b, TakenEvent DEF HandleFailed
  <2>2. (active' = 0 /\ stopping' = 0) \/ UNCHANGED <<active, stopping>>
    BY <1>11 DEF HandleFailed, RecordingOver
  <2>3. stops' \in {stops, stops \cup {Head(events).id}}
    BY <1>11 DEF HandleFailed
  <2>4. UNCHANGED <<pump, priv, rec, open, nextRec, audit, used>>
    BY <1>11 DEF HandleFailed
  <2>5. active' \in Nat /\ stopping' \in {0, active'} /\ stops' \subseteq Nat
    BY <1>a, <2>1, <2>2, <2>3
  <2>6. QED
    BY <1>0, <2>1, <2>4, <2>5
<1>12. CASE StopDelivered
  <2>1. PICK id \in stops, closed \in Outcomes("stop") :
              StopDelivered!(id, closed)
    BY <1>12 DEF StopDelivered
  <2>2. id \in Nat
    BY <1>a
  <2>3. [type |-> IF closed THEN "stopped" ELSE "failed", id |-> id,
         baseline |-> FALSE] \in Events
    BY <2>2 DEF Events
  <2>4. events' \in Seq(Events)
    BY <2>1, <2>3, <1>b, EventAdded
  <2>5. open' \in {0, open} /\ stops' \subseteq stops
    BY <2>1
  <2>6. UNCHANGED <<pump, tray, priv, rec, nextRec, audit, used>>
    BY <2>1
  <2>7. open' \in Nat /\ stops' \subseteq Nat
    BY <1>a, <2>5
  <2>8. QED
    BY <1>0, <2>4, <2>6, <2>7
<1>13. CASE SimpleCommandFails
  <2>1. [type |-> "failed", id |-> active, baseline |-> FALSE] \in Events
    BY <1>a DEF Events
  <2>2. events' \in Seq(Events)
    BY <1>13, <2>1, <1>b, EventAdded DEF SimpleCommandFails
  <2>3. QED
    BY <1>0, <1>13, <2>2 DEF SimpleCommandFails
<1>14. CASE RequestRecord
  BY <1>0, <1>14 DEF RequestRecord
<1>15. CASE ConfirmRecord
  BY <1>0, <1>15 DEF ConfirmRecord
<1>16. CASE RecordSuspends
  BY <1>0, <1>16 DEF RecordSuspends, IsSuspended
<1>17. CASE StartDelivered
  <2>1. [type |-> "started", id |-> nextRec, baseline |-> recSuspended] \in Events
    BY <1>a, <1>0, Zenon DEF Flags, Events
  <2>2. events' = events \/ events' = Append(events,
          [type |-> "started", id |-> nextRec, baseline |-> recSuspended])
    BY <1>17 DEF StartDelivered
  <2>3. events' \in Seq(Events)
    BY <2>1, <2>2, <1>b, EventAdded
  <2>4. rec' \in {"end", "restore"} /\ open' \in {open, nextRec}
        /\ nextRec' \in {nextRec, nextRec + 1}
    BY <1>17 DEF StartDelivered
  <2>5. UNCHANGED <<pump, tray, stops, priv, audit, used>>
    BY <1>17 DEF StartDelivered
  <2>6. open' \in Nat /\ nextRec' \in Nat
    BY <1>a, <2>4
  <2>7. QED
    BY <1>0, <2>3, <2>4, <2>5, <2>6
<1>18. CASE RecordRestores
  <2>1. [type |-> "failed", id |-> 0, baseline |-> FALSE] \in Events
    BY DEF Events
  <2>2. events' \in Seq(Events)
    BY <1>18, <2>1, <1>b, EventAdded DEF RecordRestores
  <2>3. rec' = "end" /\ UNCHANGED <<pump, tray, stops, priv, writer, audit>>
    BY <1>18 DEF RecordRestores
  <2>4. used' = [used EXCEPT !.failure = @ + 1]
    BY <1>18 DEF RecordRestores
  <2>5. used' \in [toggle : Nat, privacy : Nat, record : Nat, failure : Nat]
    BY <1>c, <2>4
  <2>6. QED
    BY <1>0, <2>2, <2>3, <2>5
<1>19. CASE RecordEnds
  BY <1>0, <1>19 DEF RecordEnds
<1>20. CASE RequestPrivacy
  <2>1. priv' = "confirm" /\ UNCHANGED <<privacyRest, audit>>
    BY <1>20 DEF RequestPrivacy
  <2>2. used' \in [toggle : Nat, privacy : Nat, record : Nat, failure : Nat]
    BY <1>0, <1>20 DEF RequestPrivacy
  <2>3. QED
    BY <1>0, <2>1, <2>2
<1>21. CASE ConfirmPrivacy
  BY <1>0, <1>21 DEF ConfirmPrivacy
<1>22. CASE PrivacyOwns
  BY <1>0, <1>22 DEF PrivacyOwns
<1>23. CASE PrivacySuspends
  BY <1>0, <1>23 DEF PrivacySuspends
<1>24. CASE PrivacyFlushes
  BY <1>0, <1>24 DEF PrivacyFlushes
<1>25. CASE PrivacyDelivered
  <2>1. priv' \in {"restore", "report"} /\ UNCHANGED <<privacyRest, used>>
    BY <1>25 DEF PrivacyDelivered
  <2>2. audit' = audit \/ audit' = <<>>
    BY <1>25 DEF PrivacyDelivered
  <2>3. audit' \in Seq(Rows)
    BY <2>2, <1>b, EmptySeq
  <2>4. QED
    BY <1>0, <2>1, <2>3
<1>26. CASE PrivacyRestores
  BY <1>0, <1>26 DEF PrivacyRestores
<1>27. CASE PrivacyHolds
  <2>1. priv' = "report" /\ UNCHANGED <<privacyRest, used>>
    BY <1>27 DEF PrivacyHolds
  <2>2. audit' = audit \/ audit' = Append(audit, "paused")
    BY <1>27 DEF PrivacyHolds
  <2>3. audit' \in Seq(Rows)
    BY <2>2, <1>b, RowAdded DEF Rows
  <2>4. QED
    BY <1>0, <2>1, <2>3
<1>28. CASE PrivacyResumes
  <2>1. priv' \in {"reopen", "report"} /\ UNCHANGED <<privacyRest, used>>
    BY <1>28 DEF PrivacyResumes
  <2>2. audit' = audit \/ audit' = Append(audit, "resumed")
    BY <1>28 DEF PrivacyResumes
  <2>3. audit' \in Seq(Rows)
    BY <2>2, <1>b, RowAdded DEF Rows
  <2>4. QED
    BY <1>0, <2>1, <2>3
<1>29. CASE PrivacyReopens
  BY <1>0, <1>29 DEF PrivacyReopens
<1>30. CASE PrivacyReported
  BY <1>0, <1>30 DEF PrivacyReported
<1>31. CASE PrivacyEnds
  BY <1>0, <1>31 DEF PrivacyEnds
<1>32. CASE UNCHANGED vars
  BY <1>0, <1>32 DEF vars
<1>33. QED
  BY <1>1, <1>2, <1>3, <1>4, <1>5, <1>6, <1>7, <1>8, <1>9, <1>10, <1>11,
     <1>12, <1>13, <1>14, <1>15, <1>16, <1>17, <1>18, <1>19, <1>20,
     <1>21, <1>22, <1>23, <1>24, <1>25, <1>26, <1>27, <1>28, <1>29,
     <1>30, <1>31, <1>32 DEF Next
-----------------------------------------------------------------------------
(***************************************************************************)
(* Every variable keeps its type, and a pending stop names the recording   *)
(* the tray holds active: no handler of the pump leaves record_stop_pending *)
(* behind when a recording ends or another one takes its place.            *)
(***************************************************************************)
THEOREM TypeCorrect == Spec => []TypeOK
<1>1. Init => TypeOK
  <2> SUFFICES ASSUME Init PROVE TypeOK
    OBVIOUS
  <2>1. Flags
    BY DEF Init, Flags
  <2>2. events \in Seq(Events) /\ audit \in Seq(Rows)
    BY EmptySeq DEF Init
  <2>3. Values
    BY <2>2 DEF Init, Values
  <2>4. QED
    BY <2>1, <2>3, Parts
<1>2. TypeOK /\ [Next]_vars => TypeOK'
  <2> SUFFICES ASSUME TypeOK, [Next]_vars PROVE TypeOK'
    OBVIOUS
  <2>1. Flags' /\ Values'
    BY FlagsStep, ValuesStep
  <2>2. QED
    BY <2>1 DEF TypeOK, Flags, Values, Rows
<1>3. QED
  BY <1>1, <1>2, PTL DEF Spec
-----------------------------------------------------------------------------
(* Without a privacy operation, none is at work and none owns the suspension. *)
NoPrivacy == used.privacy = 0 => priv = "idle" /\ ~owned /\ ~pumpOwned

(* A pause and its suspension, through the steps of toggle_capture_pause.    *)
Held ==
    /\ paused /\ pump # "suspend" => suspended
    /\ pump \in {"suspend", "pause row"} => paused
    /\ pump = "resume" => suspended /\ ~paused
    /\ pump = "reopen" => ~paused

PauseInv == NoPrivacy /\ (Undisturbed => Held)

(* What was counted once is no longer zero. *)
LEMMA Counted == ASSUME NEW n \in Nat PROVE n + 1 # 0
OBVIOUS

(* Stopping a recording is no matter of the pause. *)
LEMMA PauseStep == TypeOK /\ PauseInv /\ [Next]_vars => PauseInv'
<1> SUFFICES ASSUME TypeOK, PauseInv, [Next]_vars PROVE PauseInv'
  OBVIOUS
<1>0. /\ used \in [toggle : Nat, privacy : Nat, record : Nat, failure : Nat]
      /\ paused \in BOOLEAN /\ suspended \in BOOLEAN
  BY DEF TypeOK
<1> USE DEF PauseInv, NoPrivacy, Undisturbed, Held
<1>1. CASE TogglePause
  BY <1>0, <1>1 DEF TogglePause, privVars
<1>2. CASE ToggleDecides
  BY <1>0, <1>2 DEF ToggleDecides, privVars
<1>3. CASE PauseSuspends
  BY <1>0, <1>3 DEF PauseSuspends, privVars
<1>4. CASE PauseRow
  BY <1>0, <1>4 DEF PauseRow, privVars
<1>5. CASE PumpResumes
  BY <1>0, <1>5 DEF PumpResumes, privVars
<1>6. CASE PumpReopens
  BY <1>0, <1>6 DEF PumpReopens, privVars
<1>7. CASE HandleStopped \/ HandleFailed
  <2>1. /\ pump = "idle" /\ UNCHANGED <<pump, pumpOwned, paused, owned, priv, used>>
        /\ UNCHANGED suspended \/ RecordingOver
    BY <1>7 DEF HandleStopped, HandleFailed, TakeEvent, privVars, pumpVars
  <2>2. paused /\ suspended => suspended'
    BY <2>1 DEF RecordingOver
  <2>3. QED
    BY <2>1, <2>2
<1>8. CASE RecordSuspends
  BY <1>0, <1>8 DEF RecordSuspends, recordRest, pumpVars, privVars
<1>9. CASE RecordRestores
  <2>1. used'.failure # 0 /\ used'.privacy = used.privacy
    <3>1. used.failure \in Nat
      BY <1>0
    <3>2. used'.failure = used.failure + 1 /\ used'.privacy = used.privacy
      BY <1>0, <1>9 DEF RecordRestores
    <3>3. QED
      BY <3>1, <3>2, Counted, Zenon
  <2>2. UNCHANGED <<owned, priv, pumpOwned>>
    BY <1>9 DEF RecordRestores, recordRest, pumpVars, privVars
  <2>3. QED
    BY <1>0, <2>1, <2>2
<1>10. CASE RequestRecord
  BY <1>0, <1>10 DEF RequestRecord, recordRest, pumpVars, privVars
<1>11. CASE Transition \/ StopChosen \/ HandleStarted \/ StopDelivered \/ SimpleCommandFails
            \/ ConfirmRecord \/ StartDelivered \/ RecordEnds \/ UNCHANGED vars
  <2>1. UNCHANGED <<pump, pumpOwned, paused, suspended, owned, priv, used>>
    BY <1>11 DEF Transition, StopChosen, HandleStarted, StopDelivered, SimpleCommandFails,
                 ConfirmRecord, StartDelivered, RecordEnds, TakeEvent, recordRest, pumpVars,
                 privVars, vars
  <2>2. QED
    BY <2>1
<1>12. CASE RequestPrivacy
  <2>1. used'.privacy # 0
    BY <1>0, <1>12 DEF RequestPrivacy
  <2>2. QED
    BY <1>0, <2>1
<1>13. CASE \/ ConfirmPrivacy \/ PrivacyOwns \/ PrivacySuspends \/ PrivacyFlushes
            \/ PrivacyDelivered \/ PrivacyRestores \/ PrivacyHolds \/ PrivacyResumes
            \/ PrivacyReopens \/ PrivacyReported \/ PrivacyEnds
  <2>1. priv # "idle" /\ used' = used
    BY <1>13 DEF ConfirmPrivacy, PrivacyOwns, PrivacySuspends, PrivacyFlushes,
                 PrivacyDelivered, PrivacyRestores, PrivacyHolds, PrivacyResumes,
                 PrivacyReopens, PrivacyReported, PrivacyEnds
  <2>2. QED
    BY <2>1
<1>14. QED
  BY <1>1, <1>2, <1>3, <1>4, <1>5, <1>6, <1>7, <1>8, <1>9, <1>10, <1>11, <1>12, <1>13
     DEF Next

LEMMA PauseInvariant == Spec => [](TypeOK /\ PauseInv)
<1>1. Init => PauseInv
  BY DEF Init, PauseInv, NoPrivacy, Held
<1>2. QED
  BY <1>1, TypeCorrect, PauseStep, PTL DEF Spec

(***************************************************************************)
(* Until a privacy operation begins or a start fails, what the user paused *)
(* stays suspended until the user resumes it, whatever recordings begin,   *)
(* end or fail to stop meanwhile and whether or not a resume finds its     *)
(* quiet pipeline (toggle_capture_pause,                                   *)
(* resume_baseline_capture_after_recording).                               *)
(***************************************************************************)
THEOREM PauseIsHeld == Spec => []PauseHolds
<1>1. TypeOK /\ PauseInv => PauseHolds
  BY DEF PauseInv, Held, PauseHolds, Quiet
<1>2. QED
  BY <1>1, PauseInvariant, PTL
-----------------------------------------------------------------------------
(* The rows of the session alternate, and a row is due exactly while the     *)
(* pump is between the flag and the row.                                     *)
Alternate == \A i \in 1 .. Len(audit) : audit[i] = IF i % 2 = 1 THEN "paused" ELSE "resumed"
Due ==
    Len(audit) % 2 = IF pump = "resume" \/ (pump \in {"idle", "toggle"} /\ paused) THEN 1 ELSE 0
RowsInv == Undisturbed => Alternate /\ Due

(* The next boundary row. *)
LEMMA BoundaryRow ==
    ASSUME audit \in Seq(Rows), Alternate, NEW row \in Rows, audit' = Append(audit, row),
           row = IF Len(audit) % 2 = 0 THEN "paused" ELSE "resumed"
    PROVE  Alternate' /\ Len(audit') % 2 = 1 - (Len(audit) % 2)
<1>1. /\ Len(audit) \in Nat /\ Len(audit') = Len(audit) + 1 /\ audit'[Len(audit) + 1] = row
      /\ \A i \in 1 .. Len(audit) : audit'[i] = audit[i]
  OBVIOUS
<1> DEFINE n == Len(audit)
<1>2. n \in Nat /\ (n + 1) % 2 = 1 - (n % 2) /\ n % 2 \in {0, 1}
  <2>1. n \in Nat
    BY <1>1
  <2> HIDE DEF n
  <2>2. QED
    BY <2>1
<1>3. ASSUME NEW i \in 1 .. n + 1
      PROVE  audit'[i] = IF i % 2 = 1 THEN "paused" ELSE "resumed"
  <2>1. CASE i = n + 1
    BY <1>1, <1>2, <2>1
  <2>2. CASE i # n + 1
    <3>1. i \in 1 .. n
      BY <1>2, <2>2
    <3>2. QED
      BY <1>1, <3>1 DEF Alternate
  <2>3. QED
    BY <2>1, <2>2
<1>4. QED
  BY <1>1, <1>2, <1>3 DEF Alternate

(* Steps without a row. *)
LEMMA NoRow == ASSUME audit' = audit, Alternate PROVE Alternate'
BY DEF Alternate

LEMMA RowsStep ==
    "flush" \notin Faults /\ TypeOK /\ PauseInv /\ RowsInv /\ [Next]_vars => RowsInv'
<1> SUFFICES ASSUME "flush" \notin Faults, TypeOK, PauseInv, RowsInv, [Next]_vars, Undisturbed'
             PROVE  Alternate' /\ Due'
  BY DEF RowsInv
<1>0. /\ used \in [toggle : Nat, privacy : Nat, record : Nat, failure : Nat]
      /\ audit \in Seq(Rows) /\ paused \in BOOLEAN
  BY DEF TypeOK, Rows
<1>a. Outcomes("flush") = {TRUE}
  BY DEF Outcomes
<1>b. Undisturbed
  <2>1. \/ UNCHANGED used
        \/ used' = [used EXCEPT !.toggle = @ + 1] \/ used' = [used EXCEPT !.record = @ + 1]
        \/ used' = [used EXCEPT !.failure = @ + 1] \/ used' = [used EXCEPT !.privacy = @ + 1]
    BY DEF Next, vars, Transition, TogglePause, ToggleDecides, PauseSuspends, PauseRow,
           PumpResumes, PumpReopens, StopChosen, HandleStarted, HandleStopped, HandleFailed,
           StopDelivered, SimpleCommandFails, RequestRecord, ConfirmRecord, RecordSuspends,
           StartDelivered, RecordRestores, RecordEnds, RequestPrivacy, ConfirmPrivacy,
           PrivacyOwns, PrivacySuspends, PrivacyFlushes, PrivacyDelivered, PrivacyRestores,
           PrivacyHolds, PrivacyResumes, PrivacyReopens, PrivacyReported, PrivacyEnds
  <2>2. QED
    BY <1>0, <2>1 DEF Undisturbed
<1>c. Held /\ Alternate /\ Due /\ priv = "idle" /\ ~owned /\ ~pumpOwned /\ used.privacy = 0
  BY <1>b DEF PauseInv, RowsInv, NoPrivacy, Undisturbed
<1>1. CASE TogglePause
  BY <1>1, <1>c, NoRow DEF TogglePause, Due
<1>2. CASE ToggleDecides
  BY <1>2, <1>c, NoRow DEF ToggleDecides, Due
<1>3. CASE PauseSuspends
  BY <1>3, <1>c, NoRow DEF PauseSuspends, Due, Held
<1>4. CASE PauseRow
  <2>1. audit' = Append(audit, "paused") /\ Len(audit) % 2 = 0 /\ pump' = "idle" /\ paused'
    BY <1>4, <1>a, <1>c DEF PauseRow, Due, Held
  <2>2. Alternate' /\ Len(audit') % 2 = 1
    BY <1>0, <1>c, <2>1, BoundaryRow DEF Rows
  <2>3. QED
    BY <2>1, <2>2 DEF Due
<1>5. CASE PumpResumes
  <2>1. audit' = Append(audit, "resumed") /\ Len(audit) % 2 = 1 /\ pump' = "reopen"
    BY <1>5, <1>a, <1>c DEF PumpResumes, Due
  <2>2. Alternate' /\ Len(audit') % 2 = 0
    BY <1>0, <1>c, <2>1, BoundaryRow DEF Rows
  <2>3. QED
    BY <2>1, <2>2 DEF Due
<1>6. CASE PumpReopens
  BY <1>6, <1>c, NoRow DEF PumpReopens, Due, Held
<1>7. CASE HandleStarted \/ HandleStopped \/ HandleFailed \/ StopChosen
  BY <1>0, <1>7, <1>c, NoRow DEF HandleStarted, HandleStopped, HandleFailed, StopChosen, Due, pumpVars
<1>8. CASE \/ RequestRecord \/ ConfirmRecord \/ RecordSuspends \/ StartDelivered
           \/ RecordRestores \/ RecordEnds \/ Transition \/ StopDelivered
           \/ SimpleCommandFails \/ UNCHANGED vars
  <2>1. UNCHANGED <<pump, paused, audit>>
    BY <1>8 DEF RequestRecord, ConfirmRecord, RecordSuspends, StartDelivered, RecordRestores,
                RecordEnds, recordRest, pumpVars, Transition, StopDelivered,
                SimpleCommandFails, vars
  <2>2. QED
    BY <2>1, <1>c, NoRow DEF Due
<1>10. CASE RequestPrivacy
  BY <1>0, <1>10 DEF RequestPrivacy, Undisturbed
<1>11. CASE \/ ConfirmPrivacy \/ PrivacyOwns \/ PrivacySuspends \/ PrivacyFlushes
            \/ PrivacyDelivered \/ PrivacyRestores \/ PrivacyHolds \/ PrivacyResumes
            \/ PrivacyReopens \/ PrivacyReported \/ PrivacyEnds
  BY <1>11, <1>c
     DEF ConfirmPrivacy, PrivacyOwns, PrivacySuspends, PrivacyFlushes,
         PrivacyDelivered, PrivacyRestores, PrivacyHolds, PrivacyResumes,
         PrivacyReopens, PrivacyReported, PrivacyEnds
<1>12. QED
  BY <1>1, <1>2, <1>3, <1>4, <1>5, <1>6, <1>7, <1>8, <1>10, <1>11 DEF Next

(***************************************************************************)
(* As long as the pipeline can be flushed, and until a privacy operation    *)
(* begins or a start fails, the rows of the session tell whether it is      *)
(* paused, and when: pause and resume rows alternate, and the last one      *)
(* agrees with the flag (append_capture_state_transition).                 *)
(***************************************************************************)
THEOREM PauseIsRecorded == ASSUME "flush" \notin Faults PROVE Spec => []PauseRecorded
<1>1. Init => RowsInv
  BY DEF Init, RowsInv, Alternate, Due
<1>2. Spec => []RowsInv
  BY <1>1, PauseInvariant, RowsStep, PTL DEF Spec
<1>3. TypeOK /\ RowsInv => PauseRecorded
  <2> SUFFICES ASSUME TypeOK, Alternate, Due PROVE PauseRecorded
    BY DEF RowsInv, PauseRecorded
  <2> DEFINE n == Len(audit)
  <2>1. n \in Nat /\ (audit # <<>> <=> n # 0)
    <3>1. audit \in Seq(Rows)
      BY DEF TypeOK, Rows
    <3>2. QED
      BY <3>1, EmptySeq
  <2>2. (n % 2 = 1 <=> audit # <<>> /\ audit[n] = "paused")
    <3>1. n # 0 => audit[n] = IF n % 2 = 1 THEN "paused" ELSE "resumed"
      <4>1. n # 0 => n \in 1 .. n
        <5> HIDE DEF n
        <5> QED BY <2>1
      <4>2. QED
        BY <4>1 DEF Alternate
    <3>2. 0 % 2 = 0
      OBVIOUS
    <3> HIDE DEF n
    <3>3. QED
      BY <2>1, <3>1, <3>2
  <2>3. Quiet => (paused <=> n % 2 = 1)
    BY DEF Quiet, Due, TypeOK
  <2>4. QED
    BY <2>2, <2>3 DEF PauseRecorded, Alternate
<1>4. QED
  BY <1>2, <1>3, TypeCorrect, PTL
-----------------------------------------------------------------------------
(***************************************************************************)
(* Recordings.  The tray and the writer agree on the recording, and after  *)
(* the panic key there is none.                                            *)
(***************************************************************************)
(* Where a start or a stop is refused, or the pipeline cannot be flushed,  *)
(* the code leaves a recording that the tray does not know.                *)
Delivered == Faults \cap {"flush", "start", "stop"} = {}

(* The ids of the events of a type that the pump has not handled yet. *)
Pending(type) == {events[i].id : i \in {k \in 1 .. Len(events) : events[k].type = type}}

Ids ==
    /\ nextRec # 0 /\ active < nextRec /\ open < nextRec
    /\ stops \subseteq 1 .. nextRec - 1
    /\ Pending("started") \cup Pending("stopped") \cup Pending("failed")
          \subseteq 1 .. nextRec - 1

(* Recordings become known in the order in which they were started. *)
InOrder ==
    /\ \A id \in Pending("started") : active < id
    /\ \A i, j \in 1 .. Len(events) :
          i < j /\ events[i].type = "started" /\ events[j].type = "started"
             => events[i].id < events[j].id

(* The writer holds at most the newest one open, ... *)
Newest == open \in {0, nextRec - 1}

(* ... which the tray holds active, is about to close or has yet to hear of. *)
OpenKnown == open # 0 => open = active \/ open \in stops \/ open \in Pending("started")

ClosedIsOver == open \notin Pending("stopped")

StopUnderWay == stopping # 0 => stopping \in stops \/ stopping \in Pending("stopped")

(* From the panic key on, a recording of the tray has its stop. *)
StopAsked == paused /\ active # 0 /\ pump # "suspend" => stopping = active

(* What the pump has yet to hear of has no stop yet; what the tray holds    *)
(* active without being open is over, or about to be replaced.             *)
StartKnown ==
    /\ Pending("started") # {} => open = nextRec - 1 /\ open \in Pending("started")
    /\ \A id \in stops, later \in Pending("started") : id < later
    /\ active # 0 =>
          open = active \/ active \in Pending("stopped") \/ Pending("started") # {}

RecordingInv ==
    /\ Ids /\ InOrder /\ Newest /\ OpenKnown /\ ClosedIsOver /\ StopUnderWay
    /\ StopAsked /\ StartKnown
    /\ rec # "restore"
-----------------------------------------------------------------------------
(* What the pump has handled is no longer pending; nothing else changes. *)
LEMMA PendingTaken ==
    ASSUME events \in Seq(Events), NEW t, TakeEvent(t), NEW type
    PROVE  /\ Pending(type)' \subseteq Pending(type)
           /\ Pending(type) \subseteq Pending(type)' \cup {Head(events).id}
           /\ type # t => Pending(type)' = Pending(type)
           /\ Head(events).id \in Pending(t)
<1>1. events # <<>> /\ events' = Tail(events) /\ Head(events).type = t
  BY DEF TakeEvent
<1>2. /\ Len(events) \in Nat /\ Len(events) > 0 /\ Head(events) = events[1]
      /\ Len(events') = Len(events) - 1
      /\ \A i \in 1 .. Len(events') : events'[i] = events[i + 1]
  BY <1>1
<1>3. ASSUME NEW id \in Pending(type)' PROVE id \in Pending(type)
  <2>1. PICK i \in 1 .. Len(events') : events'[i].type = type /\ id = events'[i].id
    BY <1>3 DEF Pending
  <2>2. i + 1 \in 1 .. Len(events) /\ events[i + 1].type = type /\ id = events[i + 1].id
    BY <2>1, <1>2
  <2>3. QED
    BY <2>2 DEF Pending
<1>4. ASSUME NEW id \in Pending(type), ~(type = t /\ id = Head(events).id)
      PROVE  id \in Pending(type)'
  <2>1. PICK i \in 1 .. Len(events) : events[i].type = type /\ id = events[i].id
    BY <1>4 DEF Pending
  <2>2. i # 1
    BY <2>1, <1>1, <1>2, <1>4
  <2>3. i - 1 \in 1 .. Len(events') /\ events'[i - 1] = events[i]
    BY <2>2, <1>2
  <2>4. QED
    BY <2>1, <2>3 DEF Pending
<1>5. Head(events).id \in Pending(t)
  <2>1. 1 \in 1 .. Len(events) /\ events[1].type = t
    BY <1>1, <1>2
  <2>2. QED
    BY <2>1, <1>2 DEF Pending
<1>6. QED
  BY <1>3, <1>4, <1>5

(* What a worker thread reports is pending. *)
LEMMA PendingAdded ==
    ASSUME events \in Seq(Events), NEW e \in Events, events' = Append(events, e), NEW type
    PROVE  Pending(type)' = IF e.type = type THEN Pending(type) \cup {e.id}
                                             ELSE Pending(type)
<1>1. /\ Len(events) \in Nat /\ Len(events') = Len(events) + 1
      /\ events'[Len(events) + 1] = e
      /\ \A i \in 1 .. Len(events) : events'[i] = events[i]
  OBVIOUS
<1>2. ASSUME NEW id \in Pending(type)'
      PROVE  id \in Pending(type) \/ (e.type = type /\ id = e.id)
  <2>1. PICK i \in 1 .. Len(events') : events'[i].type = type /\ id = events'[i].id
    BY <1>2 DEF Pending
  <2>2. CASE i \in 1 .. Len(events)
    BY <2>1, <2>2, <1>1 DEF Pending
  <2>3. CASE i = Len(events) + 1
    BY <2>1, <2>3, <1>1
  <2>4. QED
    BY <1>1, <2>2, <2>3
<1>3. ASSUME NEW id \in Pending(type) PROVE id \in Pending(type)'
  <2>1. PICK i \in 1 .. Len(events) : events[i].type = type /\ id = events[i].id
    BY <1>3 DEF Pending
  <2>2. i \in 1 .. Len(events') /\ events'[i] = events[i]
    BY <1>1
  <2>3. QED
    BY <2>1, <2>2 DEF Pending
<1>4. ASSUME e.type = type PROVE e.id \in Pending(type)'
  <2>1. Len(events) + 1 \in 1 .. Len(events') /\ events'[Len(events) + 1].type = type
    BY <1>1, <1>4
  <2>2. QED
    BY <2>1, <1>1 DEF Pending
<1>5. QED
  BY <1>2, <1>3, <1>4
-----------------------------------------------------------------------------
(* A start that the writer has just confirmed is the newest. *)
LEMMA OrderAdded ==
    ASSUME TypeOK, Ids, InOrder, NEW e \in Events, events' = Append(events, e),
           e.type = "started" => e.id = nextRec
    PROVE  \A i, j \in 1 .. Len(events') :
              i < j /\ events'[i].type = "started" /\ events'[j].type = "started"
                => events'[i].id < events'[j].id
<1>1. events \in Seq(Events)
  BY DEF TypeOK
<1>2. /\ Len(events) \in Nat /\ Len(events') = Len(events) + 1
      /\ events'[Len(events) + 1] = e
      /\ \A i \in 1 .. Len(events) : events'[i] = events[i]
  BY <1>1
<1>3. SUFFICES ASSUME NEW i \in 1 .. Len(events'), NEW j \in 1 .. Len(events'), i < j,
                      events'[i].type = "started", events'[j].type = "started"
               PROVE  events'[i].id < events'[j].id
  OBVIOUS
<1>4. i \in 1 .. Len(events) /\ events'[i] = events[i]
  BY <1>2, <1>3
<1>5. events[i].id < nextRec
  <2>1. events[i].id \in Pending("started")
    BY <1>3, <1>4 DEF Pending
  <2>2. nextRec \in Nat
    BY DEF TypeOK
  <2>3. QED
    BY <2>1, <2>2 DEF Ids
<1>6. CASE j \in 1 .. Len(events)
  BY <1>2, <1>3, <1>4, <1>6 DEF InOrder
<1>7. CASE j = Len(events) + 1
  BY <1>2, <1>3, <1>4, <1>5, <1>7
<1>8. QED
  BY <1>2, <1>6, <1>7

(* The start that the pump handles is older than those still pending. *)
LEMMA OrderTaken ==
    ASSUME TypeOK, InOrder, NEW t, TakeEvent(t)
    PROVE  /\ \A i, j \in 1 .. Len(events') :
                 i < j /\ events'[i].type = "started" /\ events'[j].type = "started"
                   => events'[i].id < events'[j].id
           /\ t = "started" => \A id \in Pending("started")' : Head(events).id < id
<1>1. events \in Seq(Events) /\ events # <<>> /\ events' = Tail(events)
      /\ Head(events).type = t
  BY DEF TakeEvent, TypeOK
<1>2. /\ Len(events) \in Nat /\ Len(events) > 0 /\ Head(events) = events[1]
      /\ Len(events') = Len(events) - 1
      /\ \A i \in 1 .. Len(events') : events'[i] = events[i + 1]
  BY <1>1
<1>3. ASSUME NEW i \in 1 .. Len(events'), NEW j \in 1 .. Len(events'), i < j,
             events'[i].type = "started", events'[j].type = "started"
      PROVE  events'[i].id < events'[j].id
  <2>1. /\ i + 1 \in 1 .. Len(events) /\ j + 1 \in 1 .. Len(events) /\ i + 1 < j + 1
        /\ events'[i] = events[i + 1] /\ events'[j] = events[j + 1]
    BY <1>2, <1>3
  <2>2. QED
    BY <2>1, <1>3 DEF InOrder
<1>4. ASSUME t = "started", NEW id \in Pending("started")' PROVE Head(events).id < id
  <2>1. PICK i \in 1 .. Len(events') : events'[i].type = "started" /\ id = events'[i].id
    BY <1>4 DEF Pending
  <2>2. i + 1 \in 1 .. Len(events) /\ 1 \in 1 .. Len(events) /\ 1 < i + 1
        /\ events'[i] = events[i + 1]
    BY <1>2, <2>1
  <2>3. QED
    BY <2>1, <2>2, <1>1, <1>2, <1>4 DEF InOrder
<1>5. QED
  BY <1>3, <1>4
-----------------------------------------------------------------------------
Recordings == <<active, stopping, lanes, writer>>

(* A step that leaves the recordings alone may end the user's pause, and   *)
(* begins one only on the way to PauseSuspends.                            *)
LEMMA Elsewhere ==
    ASSUME RecordingInv, UNCHANGED Recordings, rec' # "restore",
           pump' = "suspend" \/ (pump # "suspend" /\ (paused' => paused))
    PROVE  RecordingInv'
<1>1. UNCHANGED <<active, stopping, events, stops, open, nextRec>>
  BY DEF Recordings, lanes, writer
<1>2. \A type : Pending(type)' = Pending(type)
  BY <1>1 DEF Pending
<1>3. Ids' /\ Newest' /\ OpenKnown' /\ ClosedIsOver' /\ StopUnderWay' /\ StopAsked'
  BY <1>1, <1>2
     DEF RecordingInv, Ids, Newest, OpenKnown, ClosedIsOver, StopUnderWay, StopAsked
<1>4. InOrder'
  BY <1>1, <1>2 DEF RecordingInv, InOrder
<1>5. StartKnown'
  BY <1>1, <1>2 DEF RecordingInv, StartKnown
<1>6. QED
  BY <1>3, <1>4, <1>5 DEF RecordingInv

(* Once stop_recording_with_reason is done, the tray's recording has its    *)
(* stop.                                                                   *)
LEMMA StopSent ==
    ASSUME TypeOK, RecordingInv, StopRecording(active),
           UNCHANGED <<active, events, open, nextRec, rec>>
    PROVE  RecordingInv'
<1>1. active \in Nat /\ stopping \in {0, active} /\ nextRec \in Nat
  BY DEF TypeOK
<1>2. /\ stopping' = active
      /\ stops \subseteq stops' /\ stops' \subseteq stops \cup {active}
      /\ active = 0 => stops' = stops
      /\ stopping' # stopping => stopping' \in stops'
  BY <1>1 DEF StopRecording
<1>3. \A type : Pending(type)' = Pending(type)
  BY DEF Pending
<1>4. Ids'
  BY <1>1, <1>2, <1>3 DEF RecordingInv, Ids
<1>5. Newest' /\ OpenKnown' /\ ClosedIsOver' /\ StopAsked'
  BY <1>2, <1>3 DEF RecordingInv, Newest, OpenKnown, ClosedIsOver, StopAsked
<1>6. StopUnderWay'
  BY <1>2, <1>3 DEF RecordingInv, StopUnderWay
<1>7. InOrder'
  BY <1>3 DEF RecordingInv, InOrder
<1>8. StartKnown'
  BY <1>2, <1>3 DEF RecordingInv, StartKnown, InOrder
<1>9. QED
  BY <1>4, <1>5, <1>6, <1>7, <1>8 DEF RecordingInv

(* No stopped recording is the one that the writer holds open, so the tray *)
(* clears only what is over or about to be closed.                         *)
LEMMA RecordingStep == Delivered /\ TypeOK /\ RecordingInv /\ [Next]_vars => RecordingInv'
<1> SUFFICES ASSUME Delivered, TypeOK, RecordingInv, [Next]_vars PROVE RecordingInv'
  OBVIOUS
<1>0. RecordingInv /\ rec # "restore"
  BY DEF RecordingInv
<1>a. /\ active \in Nat /\ stopping \in {0, active} /\ stops \subseteq Nat
      /\ open \in Nat /\ nextRec \in Nat /\ events \in Seq(Events)
  BY DEF TypeOK
<1>b. /\ Ids /\ InOrder /\ Newest /\ OpenKnown /\ ClosedIsOver /\ StopUnderWay
      /\ StopAsked /\ StartKnown
  BY DEF RecordingInv
<1> USE DEF Recordings, pumpVars, tray, lanes, privVars, recVars, writer, recordRest,
            privacyRest
<1>1. CASE Transition
  BY <1>0, <1>1, Elsewhere DEF Transition
<1>2. CASE TogglePause
  BY <1>0, <1>2, Elsewhere DEF TogglePause
<1>3. CASE ToggleDecides
  <2>1. CASE paused /\ active # 0
    BY <1>3, <2>1, StopSent DEF ToggleDecides
  <2>2. CASE ~(paused /\ active # 0)
    <3>1. UNCHANGED Recordings /\ rec' = rec
      BY <1>3, <2>2 DEF ToggleDecides
    <3>2. pump' = "suspend" \/ (pump # "suspend" /\ (paused' => paused))
      BY <1>3, <2>2 DEF ToggleDecides
    <3>3. QED
      BY <3>1, <3>2, <1>0, Elsewhere
  <2>3. QED
    BY <2>1, <2>2
<1>4. CASE PauseSuspends
  BY <1>4, StopSent DEF PauseSuspends
<1>5. CASE PauseRow
  BY <1>0, <1>5, Elsewhere DEF PauseRow
<1>6. CASE PumpResumes
  BY <1>0, <1>6, Elsewhere DEF PumpResumes, Outcomes, Delivered
<1>7. CASE PumpReopens
  BY <1>0, <1>7, Elsewhere DEF PumpReopens
<1>8. CASE StopChosen
  BY <1>8, StopSent DEF StopChosen
<1>9. CASE HandleStarted
  <2> DEFINE id == Head(events).id
  <2>1. /\ TakeEvent("started") /\ active' = id
        /\ UNCHANGED <<paused, pump, open, nextRec, rec>>
    BY <1>9 DEF HandleStarted
  <2>2. \/ stopping' = id /\ stops' = stops \cup {id}
        \/ ~paused /\ stopping' = 0 /\ stops' = stops
    BY <1>9 DEF HandleStarted
  <2>3. /\ \A type : Pending(type)' \subseteq Pending(type)
        /\ Pending("started") \subseteq Pending("started")' \cup {id}
        /\ id \in Pending("started") /\ id \in Nat
    BY <1>a, <2>1, PendingTaken, TakenEvent
  <2>4. 0 < id /\ id < nextRec /\ active < id
    BY <1>a, <1>b, <2>3 DEF Ids, InOrder
  <2>5. InOrder'
    BY <1>b, <2>1, OrderTaken DEF InOrder
  <2>6. Ids' /\ Newest' /\ ClosedIsOver' /\ StopUnderWay' /\ StopAsked'
    BY <1>b, <2>1, <2>2, <2>3, <2>4
       DEF Ids, Newest, ClosedIsOver, StopUnderWay, StopAsked
  <2>7. open # active \/ open = 0
    BY <1>a, <1>b, <2>3, <2>4 DEF Newest
  <2>8. OpenKnown'
    BY <1>b, <2>1, <2>2, <2>3, <2>7 DEF OpenKnown
  <2>9. \A later \in Pending("started")' : id < later
    BY <1>b, <2>1, OrderTaken
  <2>10. StartKnown'
    <3>1. ASSUME NEW later \in Pending("started")'
          PROVE  open' = nextRec' - 1 /\ open' \in Pending("started")'
      <4>1. later < nextRec /\ later \in Nat /\ later \in Pending("started")
        BY <1>a, <1>b, <2>3 DEF Ids
      <4>2. open = nextRec - 1 /\ open \in Pending("started") /\ id < later
        BY <1>b, <2>9, <4>1 DEF StartKnown
      <4>3. open # id
        BY <1>a, <2>3, <4>1, <4>2
      <4>4. QED
        BY <2>1, <2>3, <4>2, <4>3
    <3>2. \A i \in stops', later \in Pending("started")' : i < later
      BY <1>b, <2>2, <2>3, <2>9 DEF StartKnown
    <3>3. active' # 0 =>
            \/ open' = active' \/ active' \in Pending("stopped")'
            \/ Pending("started")' # {}
      <4>1. open = nextRec - 1 /\ open \in Pending("started")
        BY <1>b, <2>3 DEF StartKnown
      <4>2. QED
        BY <2>1, <2>3, <4>1
    <3>4. QED
      BY <3>1, <3>2, <3>3 DEF StartKnown
  <2>11. QED
    BY <1>0, <2>1, <2>5, <2>6, <2>8, <2>10 DEF RecordingInv
<1>10. CASE HandleStopped
  <2> DEFINE id == Head(events).id
  <2>1. TakeEvent("stopped") /\ UNCHANGED <<paused, pump, stops, open, nextRec, rec>>
    BY <1>10 DEF HandleStopped
  <2>2. \/ active = id /\ active' = 0 /\ stopping' = 0
        \/ active # id /\ UNCHANGED <<active, stopping>>
    BY <1>10 DEF HandleStopped, RecordingOver
  <2>3. /\ \A type : Pending(type)' \subseteq Pending(type)
        /\ Pending("started")' = Pending("started")
        /\ Pending("stopped") \subseteq Pending("stopped")' \cup {id}
        /\ id \in Pending("stopped") /\ id \in Nat
    BY <1>a, <2>1, PendingTaken, TakenEvent
  <2>4. InOrder'
    BY <1>a, <1>b, <2>1, <2>2, <2>3, OrderTaken DEF InOrder, Ids
  <2>5. Ids' /\ Newest' /\ ClosedIsOver' /\ StopUnderWay' /\ StopAsked'
    BY <1>a, <1>b, <2>1, <2>2, <2>3
       DEF Ids, Newest, ClosedIsOver, StopUnderWay, StopAsked
  <2>6. OpenKnown'
    BY <1>b, <2>1, <2>2, <2>3 DEF OpenKnown, ClosedIsOver
  <2>7. StartKnown'
    BY <1>b, <2>1, <2>2, <2>3 DEF StartKnown
  <2>8. QED
    BY <1>0, <2>1, <2>4, <2>5, <2>6, <2>7 DEF RecordingInv
<1>11. CASE HandleFailed
  <2> DEFINE id == Head(events).id
  <2>1. TakeEvent("failed") /\ UNCHANGED <<paused, pump, open, nextRec, rec>>
    BY <1>11 DEF HandleFailed
  <2>2. /\ \A type : Pending(type)' \subseteq Pending(type)
        /\ Pending("started")' = Pending("started")
        /\ Pending("stopped")' = Pending("stopped")
        /\ id \in Pending("failed") /\ id \in Nat
    BY <1>a, <2>1, PendingTaken, TakenEvent
  <2>3. 0 < id /\ id < nextRec
    BY <1>a, <1>b, <2>2 DEF Ids
  <2>4. \/ /\ active = id /\ active' = 0 /\ stopping' = 0
           /\ stops' = IF stopping # id THEN stops \cup {id} ELSE stops
        \/ active # id /\ UNCHANGED <<active, stopping, stops>>
    <3>1. CASE active = id
      BY <1>11, <2>2, <2>3, <3>1 DEF HandleFailed, RecordingOver
    <3>2. CASE active # id
      BY <1>11, <2>2, <2>3, <3>2 DEF HandleFailed
    <3>3. QED
      BY <3>1, <3>2
  <2>5. InOrder'
    BY <1>a, <1>b, <2>1, <2>2, <2>4, OrderTaken DEF InOrder, Ids
  <2>6. Ids'
    <3>1. /\ active' \in {0, active} /\ stops' \subseteq stops \cup {id}
          /\ id \in 1 .. nextRec - 1
      BY <1>a, <2>2, <2>3, <2>4
    <3>2. stops' \subseteq 1 .. nextRec' - 1 /\ active' < nextRec'
      BY <1>a, <1>b, <2>1, <3>1 DEF Ids
    <3>3. QED
      BY <1>b, <2>1, <2>2, <3>2 DEF Ids
  <2>7. Newest' /\ ClosedIsOver' /\ StopUnderWay' /\ StopAsked'
    BY <1>b, <2>1, <2>2, <2>4 DEF Newest, ClosedIsOver, StopUnderWay, StopAsked
  <2>8. OpenKnown'
    BY <1>b, <2>1, <2>2, <2>4 DEF OpenKnown, StopUnderWay, ClosedIsOver
  <2>9. StartKnown'
    BY <1>a, <1>b, <2>1, <2>2, <2>4 DEF StartKnown, InOrder
  <2>10. QED
    BY <1>0, <2>1, <2>5, <2>6, <2>7, <2>8, <2>9 DEF RecordingInv
<1>12. CASE StopDelivered
  <2>1. PICK id \in stops, closed \in Outcomes("stop") : StopDelivered!(id, closed)
    BY <1>12 DEF StopDelivered
  <2>2. closed
    BY DEF Outcomes, Delivered
  <2>3. id \in Nat /\ 0 < id /\ id < nextRec
    BY <1>a, <1>b, <2>1 DEF Ids
  <2> DEFINE e == [type |-> "stopped", id |-> id, baseline |-> FALSE]
  <2>4. e \in Events /\ e.type = "stopped" /\ e.id = id
    BY <2>3 DEF Events
  <2>5. /\ events' = Append(events, e)
        /\ UNCHANGED <<active, stopping, paused, pump, nextRec, rec>>
    BY <2>1, <2>2
  <2>6. stops' = stops \ {id} /\ open' = IF open = id THEN 0 ELSE open
    BY <2>1, <2>2
  <2>7. \A type : Pending(type)' =
          IF "stopped" = type THEN Pending(type) \cup {id} ELSE Pending(type)
    BY <1>a, <2>4, <2>5, PendingAdded
  <2>8. InOrder'
    BY <1>b, <2>4, <2>5, <2>7, OrderAdded DEF InOrder
  <2>9. Ids' /\ Newest' /\ StopUnderWay' /\ StopAsked'
    BY <1>a, <1>b, <2>3, <2>5, <2>6, <2>7 DEF Ids, Newest, StopUnderWay, StopAsked
  <2>10. OpenKnown' /\ ClosedIsOver'
    BY <1>a, <1>b, <2>3, <2>5, <2>6, <2>7 DEF Ids, OpenKnown, ClosedIsOver
  <2>11. StartKnown'
    BY <1>a, <1>b, <2>1, <2>3, <2>5, <2>6, <2>7 DEF StartKnown, Ids
  <2>12. QED
    BY <1>0, <2>5, <2>8, <2>9, <2>10, <2>11 DEF RecordingInv
<1>13. CASE SimpleCommandFails
  <2> DEFINE e == [type |-> "failed", id |-> active, baseline |-> FALSE]
  <2>1. e \in Events /\ e.type = "failed" /\ e.id = active
    BY <1>a DEF Events
  <2>2. /\ events' = Append(events, e) /\ active # 0
        /\ UNCHANGED <<active, stopping, stops, paused, pump, open, nextRec, rec>>
    BY <1>13 DEF SimpleCommandFails
  <2>3. \A type : Pending(type)' =
          IF "failed" = type THEN Pending(type) \cup {active} ELSE Pending(type)
    BY <1>a, <2>1, <2>2, PendingAdded
  <2>4. InOrder'
    BY <1>b, <2>1, <2>2, <2>3, OrderAdded DEF InOrder
  <2>5. /\ Ids' /\ Newest' /\ OpenKnown' /\ ClosedIsOver' /\ StopUnderWay'
        /\ StopAsked'
    BY <1>a, <1>b, <2>2, <2>3
       DEF Ids, Newest, OpenKnown, ClosedIsOver, StopUnderWay, StopAsked
  <2>6. StartKnown'
    BY <1>b, <2>2, <2>3 DEF StartKnown
  <2>7. QED
    BY <1>0, <2>2, <2>4, <2>5, <2>6 DEF RecordingInv
<1>14. CASE RequestRecord
  BY <1>0, <1>14, Elsewhere DEF RequestRecord
<1>15. CASE ConfirmRecord
  BY <1>0, <1>15, Elsewhere DEF ConfirmRecord
<1>16. CASE RecordSuspends
  BY <1>0, <1>16, Elsewhere DEF RecordSuspends
<1>17. CASE StartDelivered
  <2> DEFINE e == [type |-> "started", id |-> nextRec, baseline |-> recSuspended]
  <2>1. recSuspended \in BOOLEAN
    BY DEF TypeOK
  <2>2. e \in Events
    BY <1>a, <2>1, Zenon DEF Events
  <2>3. e.type = "started" /\ e.id = nextRec
    OBVIOUS
  <2>4. Outcomes("start") = {TRUE}
    BY DEF Outcomes, Delivered
  <2>5. /\ events' = Append(events, e) /\ open' = nextRec /\ nextRec' = nextRec + 1
        /\ rec' = "end" /\ UNCHANGED <<active, stopping, stops, paused, pump>>
    BY <1>17, <2>4 DEF StartDelivered
  <2>6. \A type : Pending(type)' =
          IF "started" = type THEN Pending(type) \cup {nextRec} ELSE Pending(type)
    BY <1>a, <2>2, <2>3, <2>5, PendingAdded
  <2>7. InOrder'
    BY <1>a, <1>b, <2>2, <2>3, <2>5, <2>6, OrderAdded DEF InOrder, Ids
  <2>8. StartKnown'
    BY <1>a, <1>b, <2>5, <2>6 DEF StartKnown, Ids
  <2>9. Ids' /\ Newest' /\ StopUnderWay' /\ StopAsked'
    BY <1>a, <1>b, <2>5, <2>6 DEF Ids, Newest, StopUnderWay, StopAsked
  <2>10. OpenKnown' /\ ClosedIsOver'
    BY <1>a, <1>b, <2>5, <2>6 DEF Ids, OpenKnown, ClosedIsOver
  <2>11. QED
    BY <1>0, <2>5, <2>7, <2>8, <2>9, <2>10 DEF RecordingInv
<1>18. CASE RecordRestores
  BY <1>0, <1>18 DEF RecordRestores
<1>19. CASE RecordEnds
  BY <1>0, <1>19, Elsewhere DEF RecordEnds
<1>20. CASE RequestPrivacy
  BY <1>0, <1>20, Elsewhere DEF RequestPrivacy
<1>21. CASE ConfirmPrivacy
  BY <1>0, <1>21, Elsewhere DEF ConfirmPrivacy
<1>22. CASE PrivacyOwns
  BY <1>0, <1>22, Elsewhere DEF PrivacyOwns
<1>23. CASE PrivacySuspends
  BY <1>0, <1>23, Elsewhere DEF PrivacySuspends
<1>24. CASE PrivacyFlushes
  BY <1>0, <1>24, Elsewhere DEF PrivacyFlushes
<1>25. CASE PrivacyDelivered
  BY <1>0, <1>25, Elsewhere DEF PrivacyDelivered
<1>26. CASE PrivacyRestores
  BY <1>0, <1>26, Elsewhere DEF PrivacyRestores
<1>27. CASE PrivacyHolds
  BY <1>0, <1>27, Elsewhere DEF PrivacyHolds
<1>28. CASE PrivacyResumes
  BY <1>0, <1>28, Elsewhere DEF PrivacyResumes, Outcomes, Delivered
<1>29. CASE PrivacyReopens
  BY <1>0, <1>29, Elsewhere DEF PrivacyReopens
<1>30. CASE PrivacyReported
  BY <1>0, <1>30, Elsewhere DEF PrivacyReported
<1>31. CASE PrivacyEnds
  BY <1>0, <1>31, Elsewhere DEF PrivacyEnds
<1>32. CASE UNCHANGED vars
  BY <1>0, <1>32, Elsewhere DEF vars
<1>33. QED
  BY <1>1, <1>2, <1>3, <1>4, <1>5, <1>6, <1>7, <1>8, <1>9, <1>10, <1>11,
     <1>12, <1>13, <1>14, <1>15, <1>16, <1>17, <1>18, <1>19, <1>20,
     <1>21, <1>22, <1>23, <1>24, <1>25, <1>26, <1>27, <1>28, <1>29,
     <1>30, <1>31, <1>32 DEF Next
-----------------------------------------------------------------------------
(* The invariant holds of every start, stop and failure under way. *)
LEMMA RecordingInvariant == ASSUME Delivered PROVE Spec => [](TypeOK /\ RecordingInv)
<1>1. Init => RecordingInv
  <2> SUFFICES ASSUME Init PROVE RecordingInv
    OBVIOUS
  <2>1. \A type : Pending(type) = {}
    BY DEF Init, Pending
  <2>2. QED
    BY <2>1 DEF Init, RecordingInv, Ids, InOrder, Newest, OpenKnown, ClosedIsOver,
                StopUnderWay, StopAsked, StartKnown
<1>2. TypeOK /\ RecordingInv /\ [Next]_vars => RecordingInv'
  BY RecordingStep
<1>3. QED
  BY <1>1, <1>2, TypeCorrect, PTL DEF Spec

(* When nothing is under way any more, tray and writer agree. *)
LEMMA QuietAgrees ==
    TypeOK /\ RecordingInv /\ Quiet
      => /\ open = active
         /\ paused => active = 0
<1> SUFFICES ASSUME TypeOK, RecordingInv, Quiet
             PROVE  open = active /\ (paused => active = 0)
  OBVIOUS
<1>1. pump = "idle" /\ stops = {} /\ events = <<>>
  BY DEF Quiet
<1>2. \A type : Pending(type) = {}
  BY <1>1 DEF Pending
<1>3. open = active
  BY <1>1, <1>2 DEF RecordingInv, OpenKnown, StartKnown
<1>4. paused => active = 0
  BY <1>1, <1>2 DEF RecordingInv, StopAsked, StopUnderWay
<1>5. QED
  BY <1>3, <1>4

(***************************************************************************)
(* Once the pause the user asked for has been carried out, no recording is *)
(* active in the tray or open at the writer: neither one that              *)
(* toggle_capture_pause found, nor one whose start the record thread was    *)
(* still confirming and handle_record_ui_events heard of after the pause.  *)
(***************************************************************************)
THEOREM PanicStopsRecording == ASSUME Delivered PROVE Spec => []PanicStops
<1>1. TypeOK /\ RecordingInv => PanicStops
  BY QuietAgrees DEF PanicStops
<1>2. QED
  BY <1>1, RecordingInvariant, PTL

(***************************************************************************)
(* Whatever order starts, stops, failures and pauses come in, the          *)
(* recording the tray shows is the one the writer holds open as soon as    *)
(* nothing is under way: handle_record_ui_events clears or replaces        *)
(* active_record_session_id only when the writer has closed it or will.    *)
(***************************************************************************)
THEOREM TrayAgrees == ASSUME Delivered PROVE Spec => []TrayKnowsRecording
<1>1. TypeOK /\ RecordingInv => TrayKnowsRecording
  BY QuietAgrees DEF TrayKnowsRecording
<1>2. QED
  BY <1>1, RecordingInvariant, PTL
=============================================================================
