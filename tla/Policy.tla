------------------------------- MODULE Policy -------------------------------
(***************************************************************************)
(* The privacy policy of gilbreth-core as the writer applies it, before    *)
(* and after a row is numbered.                                            *)
(*                                                                         *)
(* A capture is a record whose fields are those the policy and the writer  *)
(* tell apart:                                                             *)
(*   kind    the class of its payload, see Kinds                           *)
(*   app     the app of its window, or NoApp when it carries none          *)
(*   prev    FocusChanged.prev                                             *)
(*   dur     FocusChanged.previous_focused_for_ms                          *)
(*   reason  the reason of a sensitive-context boundary                    *)
(*   rec     the record session an action was captured for                 *)
(*   at      captured_at                                                   *)
(* and two fields the program does not have, kept for the properties:      *)
(*   dark    nothing attributes the capture to an allowed app              *)
(*   hot     a sensitive context was in force when it was taken            *)
(***************************************************************************)
EXTENDS Integers

CONSTANTS App, Excluded, NoApp, Reason, NoReason,
          Suppress      \* privacy.sensitive_context_suppression

ASSUME PolicyAssumption ==
    /\ Excluded \subseteq App
    /\ NoApp \notin App
    /\ NoReason \notin Reason
    /\ Suppress \in BOOLEAN

(* focus: FocusChanged; window: WindowOpened, WindowClosed; input: Key and *)
(* the Mouse rows; process: ProcessStarted, ProcessExited; notice:         *)
(* NotificationsReceived; entered, exited: SensitiveContextEntered and     *)
(* ...Exited; cut: PowerSuspend, SessionLock, SessionDisconnect and        *)
(* CapturePaused; wake: PowerResume and PowerBoundaryRecovered; action:    *)
(* an ActionCapture; gap: the marker stored in place of excluded actions.  *)
Kinds == {"focus", "window", "input", "process", "notice", "entered",
          "exited", "cut", "wake", "action", "gap"}

CaptureFields ==
    [kind : Kinds, app : App \cup {NoApp}, prev : App \cup {NoApp}, dur : Int,
     reason : Reason \cup {NoReason}, rec : Nat, at : Int,
     dark : BOOLEAN, hot : BOOLEAN]

(* An action, and the marker in its place, name their recording, and the   *)
(* beginning of a context its reason.                                      *)
Captures ==
    {c \in CaptureFields : /\ c.kind \in {"action", "gap"} <=> c.rec # 0
                           /\ c.kind = "entered" => c.reason \in Reason}

(* current_focus_excluded: Some(true), Some(false), None. *)
Latches == {"excluded", "allowed", "unknown"}

(* Mutant: before the first focus row everything is let through.           *)
UnknownFocusAllowed(latch) == latch = "excluded"

LatchedFocusExcluded(latch) ==
    latch = "excluded" \/ (latch = "unknown" /\ Excluded # {})

(* The kinds whose only attribution is the latch when they carry no app. *)
Unattributed(c) == \/ c.kind = "input" /\ c.app = NoApp
                   \/ c.kind \in {"entered", "exited"}

(* apply_exclusion_boundary returns false. *)
Excludes(c, latch) ==
    \/ c.kind \in {"focus", "window", "input", "process"} /\ c.app \in Excluded
    \/ c.kind = "notice" /\ Excluded # {}
    \/ Unattributed(c) /\ LatchedFocusExcluded(latch)

LatchAfter(c, latch) ==
    IF c.kind # "focus" THEN latch
    ELSE IF c.app \in Excluded THEN "excluded" ELSE "allowed"

(* An allowed focus row that leaves an excluded app reads like a first     *)
(* focus: neither the app nor its dwell crosses the boundary.              *)
Scrubbed(c) ==
    IF c.kind = "focus" /\ c.prev \in Excluded
    THEN [c EXCEPT !.prev = NoApp, !.dur = 0]
    ELSE c

(* active_sensitive_reasons follows every boundary, also those whose row   *)
(* the exclusion boundary drops.                                           *)
ReasonsAfter(c, reasons) ==
    IF ~Suppress THEN reasons
    ELSE CASE c.kind = "entered" -> reasons \cup {c.reason}
           [] c.kind = "exited"  -> reasons \ {c.reason}
           [] OTHER              -> reasons

(* The payloads redact_for_sensitive_context changes. *)
Redactable == {"focus", "window", "input", "notice"}

Redacts(c, reasons) == Suppress /\ reasons # {} /\ c.kind \in Redactable
=============================================================================
