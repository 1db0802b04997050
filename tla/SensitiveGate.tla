----------------------------- MODULE SensitiveGate -----------------------------
(***************************************************************************)
(* CaptureControls as the threads of the Windows capture share it: how a   *)
(* protected context (the secure desktop, a locked session, a password     *)
(* field) closes the gate of ordinary capture before its boundary reaches  *)
(* the writer's policy, and how capture that was suspended meanwhile is    *)
(* reopened over a policy that agrees with the contexts in force.          *)
(*                                                                         *)
(* Threads: the pump owns the contexts in Contexts and the queue of        *)
(* boundaries that found the channel full; the UI Automation monitor owns  *)
(* Password; the notification thread sends rows of its own; a worker       *)
(* suspends capture and reopens it (resume_capture_after_quiet), or a      *)
(* recording does.  A resume on the pump thread is the case in which the   *)
(* pump does nothing else meanwhile.  chan is the way from the threads to  *)
(* the policy, through the forwarder, in order.                            *)
(***************************************************************************)
EXTENDS Integers, Sequences, FiniteSets, SequencesExt

CONSTANTS
    Contexts,       \* the reasons of active_sensitive_reasons
    Password,       \* SensitiveContextReason::PasswordField
    Suspenders,     \* who may suspend capture: "pause", "record"
    Faults,         \* what may fail: "drain", "row", "reply"
    ChannelBound,   \* capacity of the capture channel
    MaxTransitions, \* bound on context changes
    MaxSuspends,    \* bound on suspensions
    MaxResumes,     \* bound on resumes
    MaxRows         \* bound on ordinary rows

ASSUME GateConstants ==
    /\ IsFiniteSet(Contexts) /\ Password \notin Contexts
    /\ Suspenders \subseteq {"pause", "record"}
    /\ Faults \subseteq {"drain", "row", "reply"}
    /\ {ChannelBound, MaxTransitions, MaxSuspends, MaxResumes, MaxRows} \subseteq Nat

Reasons == Contexts \cup {Password}
Producers == {"pump", "notifications"}

(* A boundary of a context, or an ordinary row with the contexts that were  *)
(* in force from its capture to its send without a suspension between, and *)
(* whether it was captured after a recording reopened capture.             *)
Boundary == [kind : {"entered", "exited"}, reason : Reasons]
Ordinary == [kind : {"row"}, hot : SUBSET Reasons, restored : BOOLEAN]

Idle == [pc |-> "idle"]
NoRow == [held |-> FALSE, hot |-> {}, restored |-> FALSE]

(* resume_capture_after_quiet: three tries, then the error. *)
Attempts == 3

PumpStates ==
    {Idle} \cup [pc : {"lock", "defer", "send"}, row : Boundary]
    \cup [pc : {"reconcile"}, rows : Seq(Boundary), asked : BOOLEAN, generation : Nat]
MonitorStates == {Idle} \cup [pc : {"lock", "defer", "send"}, sample : BOOLEAN]
WorkerStates ==
    {Idle} \cup [pc : {"request", "wait", "drain", "verify", "lift", "open"},
                 try : 1 .. Attempts, generation : Nat]

VARIABLES
    suspended,   \* who suspended capture, or "none"
    barrier,     \* sensitive_resume_barrier
    guard,       \* who holds sensitive_resume_serialization
    generation,  \* the generation of sensitive_transition_state
    unreconciled,\* sensitive_reconcile_pending
    reseed,      \* a reseed the pump has not made is requested
    restored,    \* a recording reopened capture, and no resume since (history)
    active,      \* active_sensitive_reasons
    confirmed,   \* password_field_confirmed_active
    queue,       \* pending_sensitive_boundaries, each with its token
    pump,        \* what the pump thread is doing
    monitor,     \* what the password monitor is doing
    worker,      \* where resume_capture_after_quiet is
    requests,    \* SENSITIVE_RECONCILE_REQUESTS
    hand,        \* the row each producer has checked and not sent
    chan,        \* from the capture channel to the policy
    policy,      \* the writer's active_sensitive_reasons
    used         \* how much of each bound is used up

gates == <<suspended, barrier>>
contexts == <<active, confirmed, queue>>
reseeds == <<reseed, restored>>
vars == <<gates, guard, generation, unreconciled, reseeds, contexts, pump,
          monitor, worker, requests, hand, chan, policy, used>>

-----------------------------------------------------------------------------
InForce == active \cup (IF confirmed THEN {Password} ELSE {})

(* Mutant: a boundary that found the channel full gives its token back. *)
TransitionActiveUnqueued ==
    pump.pc \in {"lock", "defer", "send"} \/ monitor.pc # "idle"

(* sensitive_transition_active: tokens are held by a transition under way   *)
(* and by every queued boundary.                                           *)
TransitionActive ==
    pump.pc \in {"lock", "defer", "send"} \/ monitor.pc # "idle" \/ queue # <<>>

(* sensitive_transition_should_defer *)
ShouldDefer == suspended # "none" \/ barrier

(* ~is_suspended *)
Open == ~ShouldDefer /\ ~TransitionActive

Room == Len(chan) < ChannelBound

Entered(r) == [kind |-> "entered", reason |-> r]
Exited(r) == [kind |-> "exited", reason |-> r]

(* A row in a thread's hand is no longer one of a context that has ended. *)
Interrupted(gone) == hand' = [p \in Producers |-> [hand[p] EXCEPT !.hot = @ \ gone]]

Init ==
    /\ suspended = "none" /\ barrier = FALSE /\ guard = "none"
    /\ generation = 0 /\ unreconciled = FALSE /\ reseed = FALSE /\ restored = FALSE
    /\ active = {} /\ confirmed = FALSE /\ queue = <<>>
    /\ pump = Idle /\ monitor = Idle /\ worker = Idle /\ requests = 0
    /\ hand = [p \in Producers |-> NoRow]
    /\ chan = <<>> /\ policy = {}
    /\ used = [transitions |-> 0, suspends |-> 0, resumes |-> 0, rows |-> 0]

PumpFree == pump = Idle /\ ~hand["pump"].held

-----------------------------------------------------------------------------
(* Ordinary rows.  enabled_for is read, and the row sent, without a lock;   *)
(* a full channel drops the row.                                           *)
CheckRow(p) ==
    /\ p = "pump" => PumpFree
    /\ ~hand[p].held /\ Open /\ used.rows < MaxRows
    /\ hand' = [hand EXCEPT ![p] = [held |-> TRUE, hot |-> InForce,
                                      restored |-> restored]]
    /\ used' = [used EXCEPT !.rows = @ + 1]
    /\ UNCHANGED <<gates, guard, generation, unreconciled, reseeds, contexts, pump,
                   monitor, worker, requests, chan, policy>>

SendRow(p) ==
    /\ hand[p].held
    /\ hand' = [hand EXCEPT ![p] = NoRow]
    /\ chan' = IF Room
               THEN Append(chan, [kind |-> "row", hot |-> hand[p].hot,
                                  restored |-> hand[p].restored])
               ELSE chan
    /\ UNCHANGED <<gates, guard, generation, unreconciled, reseeds, contexts, pump,
                   monitor, worker, requests, policy, used>>

(* The writer takes the next row; a boundary changes its policy. *)
TakeRow ==
    /\ chan # <<>>
    /\ chan' = Tail(chan)
    /\ LET row == Head(chan)
       IN  policy' = CASE row.kind = "entered" -> policy \cup {row.reason}
                       [] row.kind = "exited"  -> policy \ {row.reason}
                       [] OTHER                -> policy
    /\ UNCHANGED <<gates, guard, generation, unreconciled, reseeds, contexts, pump,
                   monitor, worker, requests, hand, used>>

-----------------------------------------------------------------------------
(* Transitions of the pump's contexts: enter_ and exit_sensitive_context_at. *)

(* What fits of a sequence of boundaries is sent, the rest waits. *)
SendOrQueue(boundaries) ==
    LET fits == IF Len(boundaries) <= ChannelBound - Len(chan)
                THEN Len(boundaries) ELSE ChannelBound - Len(chan)
    IN  /\ chan' = chan \o SubSeq(boundaries, 1, fits)
        /\ queue' = SubSeq(boundaries, fits + 1, Len(boundaries))

Announce == generation' = generation + 1

BeginTransition ==
    /\ PumpFree /\ used.transitions < MaxTransitions
    /\ \E r \in Contexts :
          pump' = [pc |-> "lock", row |-> IF r \in active THEN Exited(r) ELSE Entered(r)]
    /\ Announce
    /\ used' = [used EXCEPT !.transitions = @ + 1]
    /\ UNCHANGED <<gates, guard, unreconciled, reseeds, contexts, monitor, worker,
                   requests, hand, chan, policy>>

ChangeContext ==
    /\ pump.pc = "lock" /\ guard = "none"
    /\ guard' = "pump" /\ pump' = [pump EXCEPT !.pc = "defer"]
    /\ active' = IF pump.row.kind = "entered" THEN active \cup {pump.row.reason}
                 ELSE active \ {pump.row.reason}
    /\ Interrupted(active \ active')
    /\ UNCHANGED <<gates, generation, unreconciled, reseeds, confirmed, queue, monitor,
                   worker, requests, chan, policy, used>>

(* queue_or_send_sensitive_boundary *)
DeferTransition ==
    /\ pump.pc = "defer"
    /\ IF ShouldDefer
       THEN /\ unreconciled' = TRUE /\ queue' = <<>>
            /\ pump' = Idle /\ guard' = "none"
       ELSE /\ pump' = [pump EXCEPT !.pc = "send"]
            /\ UNCHANGED <<unreconciled, queue, guard>>
    /\ UNCHANGED <<gates, generation, reseeds, active, confirmed, monitor, worker,
                   requests, hand, chan, policy, used>>

(* Boundaries that wait go first; one that times out joins them. *)
SendTransition ==
    /\ pump.pc = "send"
    /\ SendOrQueue(Append(queue, pump.row))
    /\ pump' = Idle /\ guard' = "none"
    /\ UNCHANGED <<gates, generation, unreconciled, reseeds, active, confirmed, monitor,
                   worker, requests, hand, policy, used>>

(* Mutant: the timer drops what a suspension defers, and sends nothing. *)
FlushQueueUnsent ==
    /\ PumpFree /\ queue # <<>> /\ ShouldDefer
    /\ unreconciled' = TRUE /\ queue' = <<>>
    /\ UNCHANGED <<gates, guard, generation, reseeds, active, confirmed, pump, monitor,
                   worker, requests, hand, chan, policy, used>>

(* flush_pending_sensitive_boundaries on a timer tick.  The flush that      *)
(* precedes an ordinary row finds the queue empty: while it is not, the    *)
(* gate is closed.                                                         *)
FlushQueue ==
    /\ PumpFree /\ queue # <<>>
    /\ IF ShouldDefer
       THEN /\ unreconciled' = TRUE /\ queue' = <<>>
            /\ UNCHANGED chan
       ELSE /\ SendOrQueue(queue)
            /\ UNCHANGED unreconciled
    /\ UNCHANGED <<gates, guard, generation, reseeds, active, confirmed, pump, monitor,
                   worker, requests, hand, policy, used>>

-----------------------------------------------------------------------------
(* emit_confirmed_password_field_sample on the monitor's thread.            *)
MonitorSamples ==
    /\ monitor.pc = "idle" /\ used.transitions < MaxTransitions
    /\ \E sample \in BOOLEAN : monitor' = [pc |-> "lock", sample |-> sample]
    /\ Announce
    /\ used' = [used EXCEPT !.transitions = @ + 1]
    /\ UNCHANGED <<gates, guard, unreconciled, reseeds, contexts, pump, worker, requests,
                   hand, chan, policy>>

MonitorSwaps ==
    /\ monitor.pc = "lock" /\ guard = "none"
    /\ confirmed' = monitor.sample
    /\ IF confirmed = monitor.sample
       THEN monitor' = Idle /\ UNCHANGED <<guard, hand>>
       ELSE /\ monitor' = [monitor EXCEPT !.pc = "defer"] /\ guard' = "monitor"
            /\ Interrupted(IF confirmed THEN {Password} ELSE {})
    /\ UNCHANGED <<gates, generation, unreconciled, reseeds, active, queue, pump, worker,
                   requests, chan, policy, used>>

MonitorDefers ==
    /\ monitor.pc = "defer"
    /\ IF ShouldDefer
       THEN unreconciled' = TRUE /\ monitor' = Idle /\ guard' = "none"
       ELSE monitor' = [monitor EXCEPT !.pc = "send"] /\ UNCHANGED <<unreconciled, guard>>
    /\ UNCHANGED <<gates, generation, reseeds, contexts, pump, worker, requests, hand,
                   chan, policy, used>>

(* The boundary is sent, or the channel stays full and the state is taken   *)
(* back, to be sampled again.                                              *)
MonitorSends ==
    /\ monitor.pc = "send"
    /\ monitor' = Idle /\ guard' = "none"
    /\ IF Room
       THEN /\ chan' = Append(chan, IF confirmed THEN Entered(Password) ELSE Exited(Password))
            /\ UNCHANGED <<confirmed, hand>>
       ELSE /\ confirmed' = ~confirmed
            /\ Interrupted({Password})
            /\ UNCHANGED chan
    /\ UNCHANGED <<gates, generation, unreconciled, reseeds, active, queue, pump, worker,
                   requests, policy, used>>

-----------------------------------------------------------------------------
(* Suspension.  A suspension interrupts what was in force.                  *)
Suspend(by) ==
    /\ suspended = "none" /\ used.suspends < MaxSuspends
    /\ by = "record" => Open
    /\ suspended' = by
    /\ Interrupted(Reasons)
    /\ used' = [used EXCEPT !.suspends = @ + 1]
    /\ UNCHANGED <<barrier, guard, generation, unreconciled, reseeds, contexts, pump,
                   monitor, worker, requests, chan, policy>>

(* restore_baseline_capture_after_recording: no barrier, no reconciliation   *)
(* until the pump sees the reseed.                                         *)
RestoreAfterRecording ==
    /\ suspended = "record"
    /\ suspended' = "none" /\ reseed' = TRUE /\ restored' = TRUE
    /\ UNCHANGED <<barrier, guard, generation, unreconciled, contexts, pump, monitor,
                   worker, requests, hand, chan, policy, used>>

BeginResume ==
    /\ worker = Idle /\ suspended = "pause" /\ used.resumes < MaxResumes
    /\ barrier' = TRUE /\ worker' = [pc |-> "request", try |-> 1, generation |-> 0]
    /\ used' = [used EXCEPT !.resumes = @ + 1]
    /\ UNCHANGED <<suspended, guard, generation, unreconciled, reseeds, contexts, pump,
                   monitor, requests, hand, chan, policy>>

(* Mutant: the error path leaves the barrier up. *)
NextTryBarred ==
    /\ UNCHANGED barrier
    /\ worker' = IF worker.try < Attempts THEN [worker EXCEPT !.pc = "request", !.try = @ + 1]
                 ELSE Idle

NextTry ==
    IF worker.try < Attempts
    THEN /\ worker' = [worker EXCEPT !.pc = "request", !.try = @ + 1]
         /\ UNCHANGED barrier
    ELSE worker' = Idle /\ barrier' = FALSE

RequestReconcile ==
    /\ worker.pc = "request"
    /\ requests' = requests + 1
    /\ worker' = [worker EXCEPT !.pc = "wait"]
    /\ UNCHANGED <<gates, guard, generation, unreconciled, reseeds, contexts, pump, monitor,
                   hand, chan, policy, used>>

(* recv_timeout: the request stays in the queue of the pump. *)
ReplyLate ==
    /\ worker.pc = "wait" /\ "reply" \in Faults
    /\ NextTry
    /\ UNCHANGED <<suspended, guard, generation, unreconciled, reseeds, contexts, pump,
                   monitor, requests, hand, chan, policy, used>>

DrainForwarder ==
    /\ worker.pc = "drain"
    /\ \/ worker' = [worker EXCEPT !.pc = "verify"] /\ UNCHANGED barrier
       \/ "drain" \in Faults /\ NextTry
    /\ UNCHANGED <<suspended, guard, generation, unreconciled, reseeds, contexts, pump,
                   monitor, requests, hand, chan, policy, used>>

(* Mutant: the last check looks for a transition under way only. *)
UnchallengedNow == ~TransitionActive

Unchallenged == ~TransitionActive /\ generation = worker.generation

(* Under the guard: the generation is checked and the row that says capture  *)
(* resumes is sent, or cannot be.                                          *)
VerifyGeneration ==
    /\ worker.pc = "verify" /\ guard = "none"
    /\ \/ /\ ~Unchallenged /\ NextTry
          /\ UNCHANGED guard
       \/ /\ Unchallenged
          /\ worker' = [worker EXCEPT !.pc = "lift"] /\ guard' = "worker"
          /\ UNCHANGED barrier
       \/ /\ Unchallenged /\ "row" \in Faults
          /\ worker' = Idle /\ barrier' = FALSE
          /\ UNCHANGED guard
    /\ UNCHANGED <<suspended, generation, unreconciled, reseeds, contexts, pump, monitor,
                   requests, hand, chan, policy, used>>

LiftSuspension ==
    /\ worker.pc = "lift"
    /\ suspended' = "none" /\ worker' = [worker EXCEPT !.pc = "open"]
    /\ UNCHANGED <<barrier, guard, generation, unreconciled, reseeds, contexts, pump,
                   monitor, requests, hand, chan, policy, used>>

LowerBarrier ==
    /\ worker.pc = "open"
    /\ barrier' = FALSE /\ guard' = "none" /\ worker' = Idle
    /\ reseed' = TRUE /\ restored' = FALSE
    /\ UNCHANGED <<suspended, generation, unreconciled, contexts, pump, monitor, requests,
                   hand, chan, policy, used>>

-----------------------------------------------------------------------------
(* reconcile_sensitive_context_after_pause: every reason exits, then those   *)
(* in force enter; which of two reasons is first tells nothing.            *)
Reconciliation ==
    LET gone == SetToSeq(Reasons)
        back == SetToSeq(InForce)
    IN  [i \in DOMAIN gone |-> Exited(gone[i])] \o [i \in DOMAIN back |-> Entered(back[i])]

Answer(result) ==
    /\ requests' = requests - 1
    /\ IF requests > 1 \/ worker.pc # "wait"
       THEN UNCHANGED <<worker, barrier>>
       ELSE \/ /\ result /\ UNCHANGED barrier
               /\ worker' = [worker EXCEPT !.pc = "drain", !.generation = generation]
            \/ ~result /\ NextTry

(* reconcile_sensitive_context_for_resume, under the guard. *)
BeginReconcile ==
    /\ PumpFree /\ requests > 0 /\ guard = "none"
    /\ IF TransitionActive
       THEN /\ Answer(FALSE)
            /\ UNCHANGED <<guard, pump, queue, unreconciled>>
       ELSE /\ guard' = "pump" /\ unreconciled' = FALSE /\ queue' = <<>>
            /\ pump' = [pc |-> "reconcile", rows |-> Reconciliation,
                        asked |-> TRUE, generation |-> generation]
            /\ UNCHANGED <<requests, worker, barrier>>
    /\ UNCHANGED <<suspended, generation, reseeds, active, confirmed, monitor, hand, chan,
                   policy, used>>

(* A send of the reconciliation waits for room. *)
SendReconciled ==
    /\ pump.pc = "reconcile" /\ pump.rows # <<>> /\ Room
    /\ chan' = Append(chan, Head(pump.rows))
    /\ pump' = [pump EXCEPT !.rows = Tail(@)]
    /\ UNCHANGED <<gates, guard, generation, unreconciled, reseeds, contexts, monitor, worker,
                   requests, hand, policy, used>>

EndReconcile ==
    /\ pump.pc = "reconcile" /\ pump.rows = <<>>
    /\ pump' = Idle
    /\ IF pump.asked
       THEN /\ guard' = "none"
            /\ Answer(~TransitionActive /\ generation = pump.generation)
       ELSE UNCHANGED <<guard, requests, worker, barrier>>
    /\ UNCHANGED <<suspended, generation, unreconciled, reseeds, contexts, monitor, hand, chan,
                   policy, used>>

(* check_requested_reseed: the pump reseeds, and reconciles without the      *)
(* guard if transitions were deferred since.                               *)
Reseed ==
    /\ PumpFree /\ reseed
    /\ reseed' = FALSE /\ unreconciled' = FALSE
    /\ IF unreconciled
       THEN /\ queue' = <<>>
            /\ pump' = [pc |-> "reconcile", rows |-> Reconciliation,
                        asked |-> FALSE, generation |-> generation]
       ELSE UNCHANGED <<queue, pump>>
    /\ UNCHANGED <<restored, gates, guard, generation, active, confirmed, monitor, worker, requests,
                   hand, chan, policy, used>>

-----------------------------------------------------------------------------
Pump == ChangeContext \/ DeferTransition \/ SendTransition \/ FlushQueue
        \/ BeginReconcile \/ SendReconciled \/ EndReconcile \/ Reseed \/ SendRow("pump")
Monitor == MonitorSwaps \/ MonitorDefers \/ MonitorSends
Worker == RequestReconcile \/ ReplyLate \/ DrainForwarder \/ VerifyGeneration
          \/ LiftSuspension \/ LowerBarrier

Next ==
    \/ Pump \/ Monitor \/ Worker \/ TakeRow
    \/ BeginTransition \/ MonitorSamples \/ BeginResume \/ RestoreAfterRecording
    \/ SendRow("notifications")
    \/ \E p \in Producers : CheckRow(p)
    \/ \E by \in Suspenders : Suspend(by)

Spec == Init /\ [][Next]_vars

(* Each thread goes on: the pump with its timer, the others in their loops,  *)
(* and the writer.                                                         *)
FairSpec == Spec /\ WF_vars(Pump) /\ WF_vars(Monitor) /\ WF_vars(Worker) /\ WF_vars(TakeRow)
                 /\ WF_vars(SendRow("notifications"))

-----------------------------------------------------------------------------
TypeOK ==
    /\ suspended \in {"none"} \cup Suspenders /\ barrier \in BOOLEAN
    /\ guard \in {"none", "pump", "monitor", "worker"}
    /\ generation \in Nat /\ unreconciled \in BOOLEAN
    /\ reseed \in BOOLEAN /\ restored \in BOOLEAN
    /\ active \subseteq Contexts /\ confirmed \in BOOLEAN /\ queue \in Seq(Boundary)
    /\ pump \in PumpStates /\ monitor \in MonitorStates /\ worker \in WorkerStates
    /\ requests \in Nat
    /\ hand \in [Producers -> [held : BOOLEAN, hot : SUBSET Reasons, restored : BOOLEAN]]
    /\ chan \in Seq(Boundary \cup Ordinary) /\ policy \subseteq Reasons
    /\ used \in [transitions : Nat, suspends : Nat, resumes : Nat, rows : Nat]

(* What is captured in a protected context, and sent while it is still in   *)
(* force, reaches the policy after the context's entered row: the writer   *)
(* redacts it, whatever transitions, full channels and resumes surround it *)
(* (the restore after a recording promises less, see RestoredRowsSuppressed).          *)
ProtectedRowsSuppressed ==
    chan # <<>> /\ Head(chan).kind = "row" /\ ~Head(chan).restored
        => Head(chan).hot \subseteq policy

(* The same for the rows that follow a recording: the reseed is to reconcile *)
(* the policy before any row of the reopened capture.                      *)
RestoredRowsSuppressed ==
    chan # <<>> /\ Head(chan).kind = "row" => Head(chan).hot \subseteq policy

(* When capture is open and nothing is on its way, the writer's policy has   *)
(* the contexts that are in force and no other: a lost entered row would    *)
(* leave rows unredacted, a lost exited row would redact for ever.  The    *)
(* restore after a recording is excepted until the next resume.            *)
PolicyAgrees == Open /\ ~restored /\ chan = <<>> => policy = InForce

(* A gate that a transition or a resume closed opens again, unless capture   *)
(* is suspended.                                                           *)
GateReopens == []<>(Open \/ suspended # "none")

(* A resume ends, in capture reopened or in an error, and takes its barrier *)
(* with it.                                                                *)
ResumeEnds == []<>(worker.pc = "idle" /\ ~barrier)
=============================================================================
