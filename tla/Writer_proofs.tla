---------------------------- MODULE Writer_proofs ----------------------------
(***************************************************************************)
(* Proofs about Writer, for any inputs, commands, clocks, bounds and        *)
(* failures.                                                               *)
(*                                                                         *)
(* First types. Then what the writer does with numbered rows: one number,   *)
(* one row (SeqsAccounted), timestamps in the order of the numbers          *)
(* (TimestampsFollowSeqs), one marker for a run of excluded actions         *)
(* (GapMarkersApart) and sessions that stay as they ended                   *)
(* (EndedSessionsFinal).                                                   *)
(*                                                                         *)
(* No stamped action waits for a recording that is closed already           *)
(* (PendingActionsOpen), and none captured after the panic key is kept      *)
(* (NoActionPastPanic).                                                    *)
(*                                                                         *)
(* What is kept is allowed (ExclusionBoundary) and redacted where it must   *)
(* be (HotRowsRedacted) as long as the erase gate drops no capture that the *)
(* policy learns from; and without that condition where there is no secure  *)
(* erase.                                                                   *)
(*                                                                         *)
(* An erase lasts (ErasedStaysErased) unless the wall clock is set forward  *)
(* after it, its gate drops nothing newer (NewRowsPassGate) unless it is    *)
(* set back, and the session it leaves tells the contexts in force          *)
(* (ContextsReemitted).                                                     *)
(***************************************************************************)
EXTENDS Writer, Channel, SequenceTheorems, FiniteSetTheorems, TLAPS

-----------------------------------------------------------------------------
(* What is on in a channel that is appended to, taken from or joined.        *)

(* What is on is on or off. *)
LEMMA LitIsBoolean ==
    ASSUME NEW s, NEW i, NEW before, NEW On, NEW Off
    PROVE  Lit(s, i, before, On, Off) \in BOOLEAN
BY DEF Lit

(* With more on before, no less is on. *)
LEMMA LitMore ==
    ASSUME NEW s, NEW i, NEW before \in BOOLEAN, NEW later \in BOOLEAN, NEW On, NEW Off,
           before => later, Lit(s, i, before, On, Off)
    PROVE  Lit(s, i, later, On, Off)
BY DEF Lit

(* A message that joins a channel changes nothing for those ahead of it. *)
LEMMA LitAppended ==
    ASSUME NEW C, NEW s \in Seq(C), NEW c \in C,
           NEW before \in BOOLEAN, NEW On, NEW Off
    PROVE  /\ \A i \in 1 .. Len(s) + 1 :
                 Lit(s, i, before, On, Off) => Lit(Append(s, c), i, before, On, Off)
           /\ c \in On \/ (LitAfter(s, before, On, Off) /\ c \notin Off)
                 => LitAfter(Append(s, c), before, On, Off)
<1> DEFINE t == Append(s, c)
<1>1. /\ Len(s) \in Nat /\ Len(t) = Len(s) + 1 /\ t[Len(s) + 1] = c
      /\ \A k \in 1 .. Len(s) : t[k] = s[k]
  OBVIOUS
<1> HIDE DEF t
<1>2. \A i \in 1 .. Len(s) + 1 : Lit(s, i, before, On, Off) => Lit(t, i, before, On, Off)
  BY <1>1 DEF Lit
<1>3. ASSUME c \in On PROVE LitAfter(t, before, On, Off)
  <2>1. Len(s) + 1 \in 1 .. Len(t) /\ t[Len(s) + 1] \in On
    BY <1>1, <1>3
  <2>2. \A k \in 1 .. Len(t) : ~(Len(s) + 1 < k /\ k < Len(t) + 1)
    BY <1>1
  <2>3. Len(s) + 1 < Len(t) + 1
    BY <1>1
  <2>4. QED
    BY <2>1, <2>2, <2>3 DEF LitAfter, Lit
<1>4. ASSUME LitAfter(s, before, On, Off), c \notin Off PROVE LitAfter(t, before, On, Off)
  <2>1. CASE before /\ \A k \in 1 .. Len(s) : k < Len(s) + 1 => s[k] \notin Off
    <3>1. \A k \in 1 .. Len(t) : t[k] \notin Off
      BY <2>1, <1>1, <1>4
    <3>2. QED
      BY <2>1, <3>1 DEF LitAfter, Lit
  <2>2. ASSUME NEW j \in 1 .. Len(s), s[j] \in On,
               \A k \in 1 .. Len(s) : j < k /\ k < Len(s) + 1 => s[k] \notin Off
        PROVE  LitAfter(t, before, On, Off)
    <3>1. j \in 1 .. Len(t) /\ j < Len(t) + 1 /\ t[j] \in On
      BY <2>2, <1>1
    <3>2. \A k \in 1 .. Len(t) : j < k => t[k] \notin Off
      BY <2>2, <1>1, <1>4
    <3>3. QED
      BY <3>1, <3>2 DEF LitAfter, Lit
  <2>3. QED
    BY <2>1, <2>2, <1>4 DEF LitAfter, Lit
<1>5. QED
  BY <1>2, <1>3, <1>4 DEF t

(* What the first one of a channel leaves on is on for those that follow. *)
LEMMA LitTaken ==
    ASSUME NEW C, NEW s \in Seq(C), s # <<>>, NEW before \in BOOLEAN, NEW then \in BOOLEAN,
           NEW On, NEW Off, Head(s) \in On \/ (before /\ Head(s) \notin Off) => then
    PROVE  /\ Lit(s, 1, before, On, Off) => before
           /\ \A i \in 1 .. Len(s) :
                 Lit(s, i + 1, before, On, Off) => Lit(Tail(s), i, then, On, Off)
           /\ LitAfter(s, before, On, Off) => LitAfter(Tail(s), then, On, Off)
<1> DEFINE t == Tail(s)
<1>1. /\ Len(s) \in Nat /\ Len(s) > 0 /\ Head(s) = s[1] /\ Len(t) = Len(s) - 1
      /\ \A k \in 1 .. Len(t) : t[k] = s[k + 1]
  OBVIOUS
<1> HIDE DEF t
<1>2. Lit(s, 1, before, On, Off) => before
  BY <1>1 DEF Lit
<1>3. ASSUME NEW i \in 1 .. Len(s), Lit(s, i + 1, before, On, Off)
      PROVE  Lit(t, i, then, On, Off)
  <2>1. CASE before /\ \A k \in 1 .. Len(s) : k < i + 1 => s[k] \notin Off
    <3>1. s[1] \notin Off
      BY <2>1, <1>1
    <3>2. \A k \in 1 .. Len(t) : k < i => t[k] \notin Off
      BY <2>1, <1>1
    <3>3. QED
      BY <2>1, <3>1, <3>2, <1>1 DEF Lit
  <2>2. ASSUME NEW j \in 1 .. Len(s), j < i + 1, s[j] \in On,
               \A k \in 1 .. Len(s) : j < k /\ k < i + 1 => s[k] \notin Off
        PROVE  Lit(t, i, then, On, Off)
    <3>1. \A k \in 1 .. Len(t) : j - 1 < k /\ k < i => t[k] \notin Off
      BY <2>2, <1>1
    <3>2. CASE j = 1
      <4>1. then
        BY <3>2, <2>2, <1>1
      <4>2. \A k \in 1 .. Len(t) : k < i => t[k] \notin Off
        BY <3>1, <3>2
      <4>3. QED
        BY <4>1, <4>2 DEF Lit
    <3>3. CASE j # 1
      <4>1. j - 1 \in 1 .. Len(t) /\ j - 1 < i /\ t[j - 1] = s[j]
        BY <3>3, <2>2, <1>1
      <4>2. QED
        BY <4>1, <3>1, <2>2 DEF Lit
    <3>4. QED
      BY <3>2, <3>3
  <2>3. QED
    BY <2>1, <2>2, <1>3 DEF Lit
<1>4. LitAfter(s, before, On, Off) => LitAfter(t, then, On, Off)
  <2>1. Len(s) \in 1 .. Len(s) /\ Len(t) + 1 = Len(s)
    BY <1>1
  <2>2. QED
    BY <2>1, <1>3 DEF LitAfter
<1>5. QED
  BY <1>2, <1>3, <1>4 DEF t

(* Messages that turn nothing off leave on what is on; the last to turn it   *)
(* on leaves it on.                                                        *)
LEMMA LitJoined ==
    ASSUME NEW C, NEW s \in Seq(C), NEW t \in Seq(C), NEW before \in BOOLEAN,
           NEW On, NEW Off
    PROVE  /\ \A i \in 1 .. Len(s) :
                 Lit(s, i, before, On, Off) => Lit(s \o t, i, before, On, Off)
           /\ LitAfter(s, before, On, Off) /\ (\A k \in 1 .. Len(t) : t[k] \notin Off)
                 => \A i \in 1 .. Len(t) + 1 : Lit(s \o t, Len(s) + i, before, On, Off)
           /\ (\E j \in 1 .. Len(t) : t[j] \in On) /\ (\A k \in 1 .. Len(t) : t[k] \notin Off)
                 => LitAfter(s \o t, before, On, Off)
<1> DEFINE u == s \o t
<1>1. /\ Len(s) \in Nat /\ Len(t) \in Nat /\ Len(u) = Len(s) + Len(t)
      /\ \A k \in 1 .. Len(s) : u[k] = s[k]
      /\ \A k \in 1 .. Len(t) : u[Len(s) + k] = t[k]
  BY ConcatProperties
<1>2. \A k \in 1 .. Len(u) : k > Len(s) => k - Len(s) \in 1 .. Len(t) /\ u[k] = t[k - Len(s)]
  BY <1>1
<1> HIDE DEF u
<1>0. \A k \in 1 .. Len(u) : k \in 1 .. Len(s) \/ k > Len(s)
  BY <1>1
<1>3. ASSUME NEW i \in 1 .. Len(s), Lit(s, i, before, On, Off)
      PROVE  Lit(u, i, before, On, Off)
  <2>1. \A k \in 1 .. Len(u) : k < i => k \in 1 .. Len(s) /\ u[k] = s[k]
    BY <1>1
  <2>2. CASE before /\ \A k \in 1 .. Len(s) : k < i => s[k] \notin Off
    BY <2>1, <2>2 DEF Lit
  <2>3. ASSUME NEW j \in 1 .. Len(s), j < i, s[j] \in On,
               \A k \in 1 .. Len(s) : j < k /\ k < i => s[k] \notin Off
        PROVE  Lit(u, i, before, On, Off)
    <3>1. j \in 1 .. Len(u) /\ u[j] \in On
      BY <2>3, <1>1
    <3>2. QED
      BY <2>1, <2>3, <3>1 DEF Lit
  <2>4. QED
    BY <2>2, <2>3, <1>3 DEF Lit
<1>4. ASSUME LitAfter(s, before, On, Off), \A k \in 1 .. Len(t) : t[k] \notin Off,
             NEW i \in 1 .. Len(t) + 1
      PROVE  Lit(u, Len(s) + i, before, On, Off)
  <2>1. \A k \in 1 .. Len(u) : k > Len(s) => u[k] \notin Off
    BY <1>2, <1>4
  <2>2. CASE before /\ \A k \in 1 .. Len(s) : k < Len(s) + 1 => s[k] \notin Off
    <3>1. \A k \in 1 .. Len(u) : u[k] \notin Off
      <4>1. \A k \in 1 .. Len(s) : u[k] \notin Off
        BY <2>2, <1>1
      <4>2. QED
        BY <4>1, <2>1, <1>0
    <3>2. QED
      BY <2>2, <3>1 DEF Lit
  <2>3. ASSUME NEW j \in 1 .. Len(s), s[j] \in On,
               \A k \in 1 .. Len(s) : j < k /\ k < Len(s) + 1 => s[k] \notin Off
        PROVE  Lit(u, Len(s) + i, before, On, Off)
    <3>1. j \in 1 .. Len(u) /\ j < Len(s) + i /\ u[j] \in On
      BY <2>3, <1>1
    <3>2. \A k \in 1 .. Len(u) : j < k => u[k] \notin Off
      BY <2>3, <2>1, <1>1
    <3>3. QED
      BY <3>1, <3>2 DEF Lit
  <2>4. QED
    BY <2>2, <2>3, <1>4 DEF LitAfter, Lit
<1>5. ASSUME NEW j \in 1 .. Len(t), t[j] \in On, \A k \in 1 .. Len(t) : t[k] \notin Off
      PROVE  LitAfter(u, before, On, Off)
  <2>1. Len(s) + j \in 1 .. Len(u) /\ Len(s) + j < Len(u) + 1 /\ u[Len(s) + j] \in On
    BY <1>1, <1>5
  <2>2. \A k \in 1 .. Len(u) : Len(s) + j < k => u[k] \notin Off
    <3> SUFFICES ASSUME NEW k \in 1 .. Len(u), Len(s) + j < k PROVE u[k] \notin Off
      OBVIOUS
    <3>1. k - Len(s) \in 1 .. Len(t) /\ u[k] = t[k - Len(s)]
      BY <1>1, <1>2
    <3>2. QED
      BY <3>1, <1>5
  <2>3. QED
    BY <2>1, <2>2 DEF LitAfter, Lit
<1>6. QED
  BY <1>3, <1>4, <1>5 DEF u

-----------------------------------------------------------------------------

(* The clamp hands out integers: a timestamp is never the absent one. *)
LEMMA TimestampsAreInts ==
    ASSUME NEW s \in Sequencers, NEW instant \in Int
    PROVE  /\ Projected(s, instant) \in Int
           /\ TimestampFor(s, instant) \in Int
<1>1. s.baseU \in Int /\ s.baseI \in Int /\ s.last \in Int \cup {NoTs}
  BY DEF Sequencers
<1>2. Projected(s, instant) \in Int
  BY <1>1 DEF Projected
<1>3. Clamped(s, Projected(s, instant)) \in Int
  BY <1>1, <1>2 DEF Clamped
<1>4. QED
  BY <1>2, <1>3 DEF TimestampFor

(* A row moves the sequencer by one number. *)
LEMMA StampedType ==
    ASSUME NEW s \in Sequencers, NEW instant \in Int
    PROVE  /\ Stamped(s, instant) \in Sequencers
           /\ Stamped(s, instant).next = s.next + 1
           /\ Stamped(s, instant).session = s.session
           /\ Stamped(s, instant).last = TimestampFor(s, instant)
<1>1. TimestampFor(s, instant) \in Int \cup {NoTs}
  BY TimestampsAreInts
<1>2. s.next + 1 \in Nat
  BY DEF Sequencers
<1>3. QED
  BY <1>1, <1>2 DEF Stamped, Sequencers

(* A resynchronisation (resync_if_drifted) moves the base, and nothing else of*)
(* the sequencer.                                                            *)
LEMMA ResyncedType ==
    ASSUME NEW s \in Sequencers, NEW instant \in Int, NEW utc \in Int, NEW t \in Nat
    PROVE  /\ Resynced(s, instant, utc, t) \in Sequencers
           /\ Resynced(s, instant, utc, t).next = s.next
           /\ Resynced(s, instant, utc, t).session = s.session
           /\ Resynced(s, instant, utc, t).last = s.last
<1>1. Clamped(s, utc) \in Int
  BY DEF Clamped, Sequencers
<1>2. QED
  BY <1>1 DEF Resynced, Sequencers

(* Sequencer::new numbers from one. *)
LEMMA NewSequencerType ==
    ASSUME NEW id \in Nat, NEW instant \in Int, NEW utc \in Int
    PROVE  NewSequencer(id, instant, utc) \in Sequencers
BY DEF NewSequencer, Sequencers
-----------------------------------------------------------------------------
(* The fields a capture is changed in, over sets of which only membership  *)
(* matters.                                                                *)
LEMMA FieldsReplaced ==
    ASSUME NEW K, NEW A, NEW I, NEW R, NEW N, NEW B,
           NEW c \in [kind : K, app : A, prev : A, dur : I, reason : R, rec : N,
                      at : I, dark : B, hot : B],
           NEW k \in K, NEW a \in A, NEW i \in I, NEW r \in R, NEW n \in N, NEW b \in B
    PROVE  /\ [c EXCEPT !.prev = a, !.dur = i] \in
                [kind : K, app : A, prev : A, dur : I, reason : R, rec : N,
                 at : I, dark : B, hot : B]
           /\ [c EXCEPT !.kind = k, !.app = a] \in
                [kind : K, app : A, prev : A, dur : I, reason : R, rec : N,
                 at : I, dark : B, hot : B]
           /\ [c EXCEPT !.rec = n, !.dark = b] \in
                [kind : K, app : A, prev : A, dur : I, reason : R, rec : N,
                 at : I, dark : B, hot : B]
           /\ [c EXCEPT !.reason = r] \in
                [kind : K, app : A, prev : A, dur : I, reason : R, rec : N,
                 at : I, dark : B, hot : B]
           /\ [c EXCEPT !.reason = r, !.at = i, !.dark = b] \in
                [kind : K, app : A, prev : A, dur : I, reason : R, rec : N,
                 at : I, dark : B, hot : B]
OBVIOUS

(* Changing the fields that the policy changes leaves a capture a capture. *)
LEMMA CaptureUpdates ==
    ASSUME NEW c \in CaptureFields, NEW k \in Kinds, NEW a \in App \cup {NoApp},
           NEW i \in Int, NEW r \in Reason \cup {NoReason}, NEW n \in Nat, NEW b \in BOOLEAN
    PROVE  /\ [c EXCEPT !.prev = a, !.dur = i] \in CaptureFields
           /\ [c EXCEPT !.kind = k, !.app = a] \in CaptureFields
           /\ [c EXCEPT !.rec = n, !.dark = b] \in CaptureFields
           /\ [c EXCEPT !.reason = r] \in CaptureFields
           /\ [c EXCEPT !.reason = r, !.at = i, !.dark = b] \in CaptureFields
BY FieldsReplaced, Zenon DEF CaptureFields

(* What the capture side takes, before it names a recording or a reason. *)
LEMMA CaptureType ==
    ASSUME now \in Int, NEW kind \in Kinds, NEW app \in App \cup {NoApp}
    PROVE  /\ Capture(kind, app) \in CaptureFields
           /\ Capture(kind, app).kind = kind /\ Capture(kind, app).rec = 0
           /\ kind \notin {"action", "gap", "entered"} => Capture(kind, app) \in Captures
<1>1. (blind \/ focus \in Excluded) \in BOOLEAN /\ (active # {}) \in BOOLEAN
  OBVIOUS
<1>2. /\ NoApp \in App \cup {NoApp} /\ NoReason \in Reason \cup {NoReason}
      /\ 0 \in Int /\ 0 \in Nat
  OBVIOUS
<1>3. Capture(kind, app) \in CaptureFields
  BY <1>1, <1>2, Zenon DEF Capture, CaptureFields
<1>4. Capture(kind, app).kind = kind /\ Capture(kind, app).rec = 0
  BY DEF Capture
<1>5. QED
  BY <1>3, <1>4, Zenon DEF Captures

(* The policy changes what a row says, not what it is. *)
LEMMA ScrubbedType ==
    ASSUME NEW c \in Captures PROVE Scrubbed(c) \in Captures
<1> DEFINE d == [c EXCEPT !.prev = NoApp, !.dur = 0]
<1>1. c \in CaptureFields /\ NoApp \in App \cup {NoApp} /\ 0 \in Int
  BY DEF Captures
<1>2. c.kind \in Kinds /\ c.reason \in Reason \cup {NoReason} /\ c.rec \in Nat /\ c.dark \in BOOLEAN
  BY <1>1, Zenon DEF CaptureFields
<1>3. d \in CaptureFields
  BY <1>1, <1>2, CaptureUpdates, Zenon
<1>4. d.kind = c.kind /\ d.rec = c.rec /\ d.reason = c.reason
  BY <1>1 DEF CaptureFields
<1>5. d \in Captures
  BY <1>3, <1>4, Zenon DEF Captures
<1>6. QED
  BY <1>5 DEF Scrubbed

(* The row the writer makes of a scrubbed capture and its number is a row. *)
LEMMA RowType ==
    ASSUME NEW s \in Sequencers, NEW c \in Captures, NEW redacted \in BOOLEAN
    PROVE  Row(s, c, redacted) \in Rows
<1>1. TimestampFor(s, c.at) \in Int
  BY TimestampsAreInts DEF Captures, CaptureFields
<1>2. s.session \in Nat /\ s.next \in Nat
  BY DEF Sequencers
<1>3. QED
  BY <1>1, <1>2, Zenon DEF Row, Rows

(* apply_exclusion_boundary and scrub keep the latch and the contexts in force*)
(* in their types.                                                           *)
LEMMA PolicyType ==
    ASSUME NEW c \in Captures, NEW l \in Latches, NEW R \in SUBSET Reason
    PROVE  /\ LatchAfter(c, l) \in Latches
           /\ ReasonsAfter(c, R) \in SUBSET Reason
           /\ Redacts(c, R) \in BOOLEAN
<1>1. LatchAfter(c, l) \in Latches
  BY DEF LatchAfter, Latches
<1>2. ReasonsAfter(c, R) \in SUBSET Reason
  BY DEF ReasonsAfter, Captures
<1>3. Redacts(c, R) \in BOOLEAN
  BY Zenon DEF Redacts
<1>4. QED
  BY <1>1, <1>2, <1>3
-----------------------------------------------------------------------------
(* What a step leaves alone keeps its type. *)
LEMMA Kept ==
    ASSUME TypeOK
    PROVE  /\ UNCHANGED clocks => ClocksOK'
           /\ UNCHANGED producer => ProducerOK'
           /\ UNCHANGED <<fwd, rx, cmds>> => ChannelsOK'
           /\ UNCHANGED <<pc, cmd, todo>> => ControlOK'
           /\ UNCHANGED policy => PolicyOK'
           /\ UNCHANGED <<sq, lost>> => NumbersOK'
           /\ UNCHANGED <<batch, actions, rows>> => BatchesOK'
           /\ UNCHANGED record => RecordOK'
           /\ UNCHANGED erasure => ErasureOK'
           /\ UNCHANGED openness => OpennessOK'
           /\ UNCHANGED catalog => CatalogOK'
           /\ UNCHANGED used => UsedOK'
<1>1. UNCHANGED clocks => ClocksOK'
  BY Zenon DEF TypeOK, clocks, ClocksOK
<1>2. UNCHANGED producer => ProducerOK'
  BY Zenon DEF TypeOK, producer, ProducerOK
<1>3. UNCHANGED <<fwd, rx, cmds>> => ChannelsOK'
  BY Zenon DEF TypeOK, ChannelsOK
<1>4. UNCHANGED <<pc, cmd, todo>> => ControlOK'
  BY Zenon DEF TypeOK, ControlOK
<1>5. UNCHANGED policy => PolicyOK'
  BY Zenon DEF TypeOK, policy, PolicyOK
<1>6. UNCHANGED <<sq, lost>> => NumbersOK'
  BY Zenon DEF TypeOK, NumbersOK
<1>7. UNCHANGED <<batch, actions, rows>> => BatchesOK'
  BY Zenon DEF TypeOK, BatchesOK
<1>8. UNCHANGED record => RecordOK'
  BY Zenon DEF TypeOK, record, RecordOK
<1>9. UNCHANGED erasure => ErasureOK'
  BY Zenon DEF TypeOK, erasure, ErasureOK
<1>10. UNCHANGED openness => OpennessOK'
  BY Zenon DEF TypeOK, openness, OpennessOK
<1>11. UNCHANGED catalog => CatalogOK'
  BY Zenon DEF TypeOK, catalog, CatalogOK
<1>12. UNCHANGED used => UsedOK'
  BY Zenon DEF TypeOK, UsedOK
<1>13. QED
  BY <1>1, <1>2, <1>3, <1>4, <1>5, <1>6, <1>7, <1>8, <1>9, <1>10, <1>11, <1>12

(* The capture side leaves the writer alone. *)
LEMMA WriterKept ==
    ASSUME TypeOK, UNCHANGED restOfWriter
    PROVE  /\ rx' = rx /\ ControlOK' /\ PolicyOK' /\ NumbersOK' /\ BatchesOK' /\ RecordOK'
           /\ ErasureOK' /\ OpennessOK' /\ CatalogOK'
<1>1. /\ UNCHANGED <<rx, pc, cmd, todo, sq, policy, pending, record, erasure, openness, catalog, rows>>
  BY DEF restOfWriter
<1>2. /\ UNCHANGED <<pc, cmd, todo>> /\ UNCHANGED policy /\ UNCHANGED pending
      /\ UNCHANGED record /\ UNCHANGED erasure /\ UNCHANGED openness
      /\ UNCHANGED catalog /\ rows' = rows /\ rx' = rx /\ sq' = sq
  BY <1>1
<1>3. UNCHANGED <<sq, lost>> /\ UNCHANGED <<batch, actions, rows>>
  BY <1>2 DEF pending
<1>4. QED
  BY <1>2, <1>3, Kept

(* A step that counts one more capture stays within the counters. *)
LEMMA UsedGrows ==
    ASSUME UsedOK
    PROVE  /\ [used EXCEPT !.cap = @ + 1] \in [cap : Nat, cmd : Nat, toggle : Nat, run : Nat]
           /\ [used EXCEPT !.cmd = @ + 1] \in [cap : Nat, cmd : Nat, toggle : Nat, run : Nat]
           /\ [used EXCEPT !.toggle = @ + 1] \in [cap : Nat, cmd : Nat, toggle : Nat, run : Nat]
           /\ [used EXCEPT !.run = @ + 1] \in [cap : Nat, cmd : Nat, toggle : Nat, run : Nat]
<1>1. used.cap + 1 \in Nat /\ used.cmd + 1 \in Nat /\ used.toggle + 1 \in Nat /\ used.run + 1 \in Nat
  BY DEF UsedOK
<1>2. QED
  BY <1>1 DEF UsedOK

(* A capture enters the channel. *)
LEMMA Emitted ==
    ASSUME TypeOK, NEW c \in Captures, Emit(c), rx' = rx, cmds' = cmds
    PROVE  ChannelsOK' /\ UsedOK'
<1>1. fwd' = Append(fwd, c) /\ used' = [used EXCEPT !.cap = @ + 1]
  BY DEF Emit
<1>2. fwd \in Seq(Captures) /\ rx \in Seq(Captures) /\ cmds \in Seq(CommandRecords) /\ UsedOK
  BY DEF TypeOK, ChannelsOK
<1>3. Append(fwd, c) \in Seq(Captures)
  BY <1>2, AppendProperties
<1>4. ChannelsOK'
  BY <1>1, <1>2, <1>3, Zenon DEF ChannelsOK
<1>5. UsedOK'
  BY <1>1, <1>2, UsedGrows DEF UsedOK
<1>6. QED
  BY <1>4, <1>5

(* A command enters its channel. *)
LEMMA Sent ==
    ASSUME TypeOK, NEW op \in Ops, NEW r \in Nat, Send(op, r), rx' = rx, fwd' = fwd
    PROVE  ChannelsOK' /\ UsedOK'
<1>1. cmds' = Append(cmds, [op |-> op, rec |-> r, at |-> 0]) /\ used' = [used EXCEPT !.cmd = @ + 1]
  BY DEF Send
<1>2. fwd \in Seq(Captures) /\ rx \in Seq(Captures) /\ cmds \in Seq(CommandRecords) /\ UsedOK
  BY DEF TypeOK, ChannelsOK
<1>3. [op |-> op, rec |-> r, at |-> 0] \in CommandRecords
  BY DEF CommandRecords
<1>4. cmds' \in Seq(CommandRecords)
  BY <1>1, <1>2, <1>3, AppendProperties
<1>5. ChannelsOK'
  BY <1>4, <1>2, Zenon DEF ChannelsOK
<1>6. UsedOK'
  BY <1>1, <1>2, UsedGrows DEF UsedOK
<1>7. QED
  BY <1>5, <1>6

(* A boundary names the context that begins or ends. *)
LEMMA BoundaryType ==
    ASSUME now \in Int, NEW kind \in {"entered", "exited"}, NEW r \in Reason
    PROVE  Boundary(kind, r) \in Captures
<1>1. Capture(kind, NoApp) \in CaptureFields
  BY CaptureType DEF Kinds
<1>2. r \in Reason \cup {NoReason} /\ 0 \in Int /\ 0 \in Nat /\ TRUE \in BOOLEAN
      /\ kind \in Kinds /\ NoApp \in App \cup {NoApp}
  BY DEF Kinds
<1>3. Boundary(kind, r) \in CaptureFields
  BY <1>1, <1>2, CaptureUpdates, Zenon DEF Boundary
<1>4. Boundary(kind, r).kind = kind /\ Boundary(kind, r).rec = 0 /\ Boundary(kind, r).reason = r
  BY DEF Boundary, Capture
<1>5. QED
  BY <1>3, <1>4 DEF Captures
-----------------------------------------------------------------------------
(* An empty batch has no rows to account for. *)
LEMMA NoRows ==
    /\ {} \subseteq Rows /\ Cardinality({}) < BatchSize
    /\ \A R \in SUBSET Rows : Seqs(R) \subseteq Nat
<1>1. Cardinality({}) = 0 /\ BatchSize \in Nat \ {0}
  BY FS_EmptySet, WriterAssumption
<1>2. \A R \in SUBSET Rows : Seqs(R) \subseteq Nat
  BY DEF Seqs, Rows
<1>3. QED
  BY <1>1, <1>2

(* A full batch is committed or lost, and either way empty again. *)
LEMMA EventPushed ==
    ASSUME BatchesOK, lost \subseteq Nat, NEW row \in Rows, PushEvent(row),
           actions' = actions
    PROVE  BatchesOK' /\ lost' \subseteq Nat
<1> DEFINE full == batch \cup {row}
<1>1. full \subseteq Rows
  BY DEF BatchesOK
<1>2. CASE HasRoom(full)
  BY <1>1, <1>2 DEF PushEvent, BatchesOK, HasRoom
<1>3. CASE ~HasRoom(full)
  <2>1. PICK ok \in Outcomes("busy") :
           /\ rows' = rows \cup CommitOf(full, ok)
           /\ lost' = lost \cup Seqs(full \ CommitOf(full, ok))
           /\ batch' = {}
    BY <1>3, Zenon DEF PushEvent
  <2>2. CommitOf(full, ok) \subseteq full
    BY DEF CommitOf
  <2>3. lost' \subseteq Nat
    BY <1>1, <2>1, NoRows
  <2>4. QED
    BY <1>1, <2>1, <2>2, <2>3, NoRows DEF BatchesOK
<1>4. QED
  BY <1>2, <1>3

(* The same for queue_action and the batch of actions. *)
LEMMA ActionPushed ==
    ASSUME BatchesOK, lost \subseteq Nat, NEW row \in Rows, PushAction(row),
           batch' = batch
    PROVE  BatchesOK' /\ lost' \subseteq Nat
<1> DEFINE full == actions \cup {row}
<1>1. full \subseteq Rows
  BY DEF BatchesOK
<1>2. CASE HasRoom(full)
  BY <1>1, <1>2 DEF PushAction, BatchesOK, HasRoom
<1>3. CASE ~HasRoom(full)
  <2>1. PICK ok \in Outcomes("busy") :
           /\ rows' = rows \cup CommitOf(full, ok)
           /\ lost' = lost \cup Seqs(full \ CommitOf(full, ok))
           /\ actions' = {}
    BY <1>3, Zenon DEF PushAction
  <2>2. CommitOf(full, ok) \subseteq full
    BY DEF CommitOf
  <2>3. lost' \subseteq Nat
    BY <1>1, <2>1, NoRows
  <2>4. QED
    BY <1>1, <2>1, <2>2, <2>3, NoRows DEF BatchesOK
<1>4. QED
  BY <1>2, <1>3

(* flush_all_batches leaves both batches empty, committed or given up. *)
LEMMA AllFlushed ==
    ASSUME BatchesOK, lost \subseteq Nat, FlushAll
    PROVE  BatchesOK' /\ lost' \subseteq Nat /\ batch' = {} /\ actions' = {}
<1>1. PICK okE \in Outcomes("busy"), okA \in Outcomes("busy") :
         LET done == CommitOf(batch, okE) \cup CommitOf(actions, okA)
         IN  /\ rows' = rows \cup done
             /\ lost' = lost \cup Seqs((batch \cup actions) \ done)
             /\ batch' = {} /\ actions' = {}
  BY Zenon DEF FlushAll
<1> DEFINE done == CommitOf(batch, okE) \cup CommitOf(actions, okA)
<1>2. done \subseteq batch \cup actions /\ batch \cup actions \subseteq Rows
  BY DEF CommitOf, BatchesOK
<1>3. Seqs((batch \cup actions) \ done) \subseteq Nat
  BY <1>2, NoRows
<1>4. QED
  BY <1>1, <1>2, <1>3, NoRows DEF BatchesOK
-----------------------------------------------------------------------------
(* The open-focus row is there or it is not. *)
LEMMA FocusRowDropped ==
    ASSUME OpennessOK, DropFocusRow
    PROVE  /\ rowWritten' \in BOOLEAN
           /\ focusRow' \in [sess : Nat, app : App \cup {NoApp}, start : Int, high : Int]
<1>1. NoFocusRow \in [sess : Nat, app : App \cup {NoApp}, start : Int, high : Int]
  BY DEF NoFocusRow
<1>2. rowWritten \in BOOLEAN
      /\ focusRow \in [sess : Nat, app : App \cup {NoApp}, start : Int, high : Int]
  BY DEF OpennessOK
<1>3. focusRow' = NoFocusRow \/ focusRow' = focusRow
  BY Zenon DEF DropFocusRow
<1>4. rowWritten' \in BOOLEAN
  BY <1>2, Zenon DEF DropFocusRow
<1>5. QED
  BY <1>1, <1>2, <1>3, <1>4, Zenon

(* A close of the segment drops the open-focus row, or fails to. *)
LEMMA OpenFocusCleared ==
    ASSUME OpennessOK, ClearOpenFocus
    PROVE  OpennessOK'
<1>1. NoSegment \in [sess : Nat, app : App \cup {NoApp}, start : Int]
  BY DEF NoSegment
<1>2. QED
  BY <1>1, FocusRowDropped, Zenon DEF ClearOpenFocus, OpennessOK

(* A focus row that was kept begins the next segment. *)
LEMMA OpenFocusNoted ==
    ASSUME OpennessOK, NEW row \in Rows, NoteOpenFocus(row)
    PROVE  OpennessOK'
<1>1. CASE row.cap.kind = "focus" /\ row.cap.prev # row.cap.app
  <2>1. segment' = [sess |-> row.sess, app |-> row.cap.app, start |-> row.ts] /\ DropFocusRow
    BY <1>1 DEF NoteOpenFocus
  <2>2. row.sess \in Nat /\ row.cap \in Captures /\ row.ts \in Int
    BY DEF Rows
  <2>3. row.cap.app \in App \cup {NoApp}
    BY <2>2 DEF Captures, CaptureFields
  <2>4. segment' \in [sess : Nat, app : App \cup {NoApp}, start : Int]
    BY <2>1, <2>2, <2>3
  <2>5. QED
    BY <2>1, <2>4, FocusRowDropped, Zenon DEF OpennessOK
<1>2. CASE ~(row.cap.kind = "focus" /\ row.cap.prev # row.cap.app)
           /\ row.cap.kind \in {"focus", "cut"}
  BY <1>2, OpenFocusCleared DEF NoteOpenFocus
<1>3. CASE row.cap.kind \notin {"focus", "cut"}
  <2>1. UNCHANGED openness
    BY <1>3 DEF NoteOpenFocus
  <2>2. QED
    BY <2>1, Zenon DEF openness, OpennessOK
<1>4. QED
  BY <1>1, <1>2, <1>3
-----------------------------------------------------------------------------
(* What the capture side does: focus, plain rows, boundaries, the reconcile *)
(* and the forwarder.                                                       *)
LEMMA CaptureSideType ==
    ASSUME TypeOK,
           \/ \E app \in App : FocusTo(app)
           \/ FocusClosed \/ PlainCapture \/ CutCapture
           \/ \E r \in Reason : SensitiveBoundary(r)
           \/ Forward
           \/ \E app \in App \cup {NoApp} : ActionCaptured(app)
    PROVE  TypeOK'
<1>t. /\ now \in Int /\ since \in Int /\ focus \in App \cup {NoApp}
      /\ worker \in Nat /\ cutoff \in [rec : Nat, at : Int] /\ active \in SUBSET Reason
      /\ ProducerOK /\ UsedOK /\ ChannelsOK
  BY DEF TypeOK, ClocksOK, ProducerOK
<1>i. 0 \in Int /\ now - since \in Int
  BY <1>t
<1>1. ASSUME NEW app \in App, FocusTo(app) PROVE TypeOK'
  <2> DEFINE c == [Capture("focus", app) EXCEPT !.prev = focus,
                      !.dur = IF focus = NoApp THEN 0 ELSE now - since]
  <2>1. /\ Capture("focus", app) \in CaptureFields
        /\ Capture("focus", app).kind = "focus" /\ Capture("focus", app).rec = 0
    BY <1>t, CaptureType DEF Kinds
  <2>2. c \in CaptureFields /\ c.kind = "focus" /\ c.rec = 0
    <3>1. (IF focus = NoApp THEN 0 ELSE now - since) \in Int
      BY <1>i
    <3>2. "focus" \in Kinds /\ NoReason \in Reason \cup {NoReason} /\ 0 \in Nat /\ TRUE \in BOOLEAN
      BY DEF Kinds
    <3>3. c \in CaptureFields
      BY <2>1, <3>1, <3>2, <1>t, CaptureUpdates, Zenon
    <3>4. c.kind = "focus" /\ c.rec = 0
      BY DEF Capture
    <3>5. QED
      BY <3>3, <3>4
  <2>3. c \in Captures
    BY <2>2 DEF Captures
  <2>4. /\ Emit(c) /\ focus' = app /\ since' = now /\ blind' = FALSE
        /\ UNCHANGED clocks /\ UNCHANGED writerVars
        /\ gate' = gate /\ active' = active /\ suspended' = suspended /\ worker' = worker
        /\ cutoff' = cutoff /\ flushing' = flushing
    BY <1>1 DEF FocusTo
  <2>5. rx' = rx /\ cmds' = cmds /\ UNCHANGED restOfWriter
    BY <2>4 DEF writerVars, restOfWriter
  <2>6. ProducerOK'
    BY <1>t, <2>4, Zenon DEF ProducerOK
  <2>7. QED
    BY <2>3, <2>4, <2>5, <2>6, Emitted, WriterKept, Kept, Zenon DEF TypeOK
<1>2. CASE FocusClosed
  <2> DEFINE c == [Capture("focus", focus) EXCEPT !.prev = focus, !.dur = now - since]
  <2>1. /\ Capture("focus", focus) \in CaptureFields
        /\ Capture("focus", focus).kind = "focus" /\ Capture("focus", focus).rec = 0
    BY <1>t, CaptureType DEF Kinds
  <2>2. c \in CaptureFields /\ c.kind = "focus" /\ c.rec = 0
    <3>2. "focus" \in Kinds /\ NoReason \in Reason \cup {NoReason} /\ 0 \in Nat /\ TRUE \in BOOLEAN
      BY DEF Kinds
    <3>3. c \in CaptureFields
      BY <2>1, <3>2, <1>t, <1>i, CaptureUpdates, Zenon
    <3>4. c.kind = "focus" /\ c.rec = 0
      BY DEF Capture
    <3>5. QED
      BY <3>3, <3>4
  <2>3. c \in Captures
    BY <2>2 DEF Captures
  <2>4. /\ Emit(c) /\ focus' = NoApp /\ since' = since /\ blind' = blind
        /\ UNCHANGED clocks /\ UNCHANGED writerVars
        /\ gate' = gate /\ active' = active /\ suspended' = suspended /\ worker' = worker
        /\ cutoff' = cutoff /\ flushing' = flushing
    BY <1>2 DEF FocusClosed
  <2>5. rx' = rx /\ cmds' = cmds /\ UNCHANGED restOfWriter
    BY <2>4 DEF writerVars, restOfWriter
  <2>6. ProducerOK'
    BY <1>t, <2>4, Zenon DEF ProducerOK
  <2>7. QED
    BY <2>3, <2>4, <2>5, <2>6, Emitted, WriterKept, Kept, Zenon DEF TypeOK
<1>3. CASE PlainCapture
  <2>1. PICK kind \in {"input", "window", "process", "notice", "wake"}, app \in App \cup {NoApp} :
           Emit(Capture(kind, app))
    BY <1>3, <1>t DEF PlainCapture
  <2>2. Capture(kind, app) \in Captures
    BY <1>t, CaptureType DEF Kinds
  <2>3. UNCHANGED clocks /\ UNCHANGED producer /\ UNCHANGED writerVars
    BY <1>3 DEF PlainCapture
  <2>4. rx' = rx /\ cmds' = cmds /\ UNCHANGED restOfWriter
    BY <2>3 DEF writerVars, restOfWriter
  <2>5. QED
    BY <2>1, <2>2, <2>3, <2>4, Emitted, WriterKept, Kept, Zenon DEF TypeOK
<1>4. CASE CutCapture
  <2>1. Capture("cut", NoApp) \in Captures
    BY <1>t, CaptureType DEF Kinds
  <2>2. /\ Emit(Capture("cut", NoApp)) /\ focus' = NoApp /\ since' = since /\ blind' = blind
        /\ UNCHANGED clocks /\ UNCHANGED writerVars
        /\ gate' = gate /\ active' = active /\ suspended' = suspended /\ worker' = worker
        /\ cutoff' = cutoff /\ flushing' = flushing
    BY <1>4 DEF CutCapture
  <2>3. rx' = rx /\ cmds' = cmds /\ UNCHANGED restOfWriter
    BY <2>2 DEF writerVars, restOfWriter
  <2>4. ProducerOK'
    BY <1>t, <2>2, Zenon DEF ProducerOK
  <2>5. QED
    BY <2>1, <2>2, <2>3, <2>4, Emitted, WriterKept, Kept, Zenon DEF TypeOK
<1>5. ASSUME NEW r \in Reason, SensitiveBoundary(r) PROVE TypeOK'
  <2>1. /\ active' = IF r \in active THEN active \ {r} ELSE active \cup {r}
        /\ UNCHANGED clocks /\ UNCHANGED writerVars
        /\ focus' = focus /\ since' = since /\ gate' = gate /\ blind' = blind
        /\ suspended' = suspended /\ worker' = worker /\ cutoff' = cutoff /\ flushing' = flushing
    BY <1>5 DEF SensitiveBoundary
  <2>2. rx' = rx /\ cmds' = cmds /\ UNCHANGED restOfWriter
    BY <2>1 DEF writerVars, restOfWriter
  <2>3. active' \subseteq Reason
    BY <1>t, <2>1
  <2>4. ProducerOK'
    BY <1>t, <2>1, <2>3, Zenon DEF ProducerOK
  <2>5. ChannelsOK' /\ UsedOK'
    <3>1. CASE suspended
      <4>1. fwd' = fwd /\ used' = [used EXCEPT !.toggle = @ + 1]
        BY <1>5, <3>1 DEF SensitiveBoundary
      <4>2. UsedOK'
        BY <4>1, <1>t, UsedGrows DEF UsedOK
      <4>3. QED
        BY <4>1, <4>2, <2>2, Kept
    <3>2. CASE ~suspended
      <4>1. PICK kind \in {"entered", "exited"} : Emit(Boundary(kind, r))
        BY <1>5, <3>2, Zenon DEF SensitiveBoundary
      <4>2. Boundary(kind, r) \in Captures
        BY <1>t, BoundaryType
      <4>3. QED
        BY <4>1, <4>2, <2>2, Emitted
    <3>3. QED
      BY <3>1, <3>2
  <2>6. QED
    BY <2>1, <2>2, <2>4, <2>5, WriterKept, Kept, Zenon DEF TypeOK
<1>6. CASE Forward
  <2>1. /\ fwd # <<>> /\ rx' = Append(rx, Head(fwd)) /\ fwd' = Tail(fwd)
        /\ UNCHANGED clocks /\ UNCHANGED producer /\ cmds' = cmds
        /\ UNCHANGED <<pc, cmd, todo>> /\ sq' = sq /\ UNCHANGED policy
        /\ UNCHANGED pending /\ UNCHANGED record /\ UNCHANGED erasure /\ UNCHANGED openness
        /\ UNCHANGED catalog /\ rows' = rows /\ used' = used
    BY <1>6 DEF Forward
  <2>2. UNCHANGED <<sq, lost>> /\ UNCHANGED <<batch, actions, rows>>
    BY <2>1 DEF pending
  <2>3. fwd \in Seq(Captures) /\ rx \in Seq(Captures) /\ cmds \in Seq(CommandRecords)
    BY <1>t DEF ChannelsOK
  <2>4. rx' \in Seq(Captures) /\ fwd' \in Seq(Captures)
    BY <2>1, <2>3, HeadTailProperties, AppendProperties
  <2>5. ChannelsOK'
    BY <2>1, <2>3, <2>4, Zenon DEF ChannelsOK
  <2>6. QED
    BY <2>1, <2>2, <2>5, Kept, Zenon DEF TypeOK
<1>7. ASSUME NEW app \in App \cup {NoApp}, ActionCaptured(app) PROVE TypeOK'
  <2> DEFINE c == [Capture("action", app) EXCEPT !.rec = worker, !.dark = cutoff.rec = worker]
  <2>1. /\ worker # 0 /\ rx' = Append(rx, c) /\ used' = [used EXCEPT !.cap = @ + 1]
        /\ UNCHANGED clocks /\ UNCHANGED producer /\ fwd' = fwd /\ cmds' = cmds
        /\ UNCHANGED <<pc, cmd, todo>> /\ sq' = sq /\ UNCHANGED policy
        /\ UNCHANGED pending /\ UNCHANGED record /\ UNCHANGED erasure /\ UNCHANGED openness
        /\ UNCHANGED catalog /\ rows' = rows
    BY <1>7 DEF ActionCaptured
  <2>2. UNCHANGED <<sq, lost>> /\ UNCHANGED <<batch, actions, rows>>
    BY <2>1 DEF pending
  <2>3. Capture("action", app) \in CaptureFields
    BY <1>t, CaptureType DEF Kinds
  <2>4. c \in CaptureFields
    <3>1. (cutoff.rec = worker) \in BOOLEAN
      OBVIOUS
    <3>2. "action" \in Kinds /\ NoReason \in Reason \cup {NoReason}
      BY DEF Kinds
    <3>3. QED
      BY <2>3, <3>1, <3>2, <1>t, <1>i, CaptureUpdates, Zenon
  <2>5. c.kind = "action" /\ c.rec = worker
    BY DEF Capture
  <2>6. c \in Captures
    BY <2>1, <2>4, <2>5 DEF Captures
  <2>7. fwd \in Seq(Captures) /\ rx \in Seq(Captures) /\ cmds \in Seq(CommandRecords)
    BY <1>t DEF ChannelsOK
  <2>8. rx' \in Seq(Captures)
    BY <2>1, <2>6, <2>7, AppendProperties
  <2>9. ChannelsOK'
    BY <2>1, <2>7, <2>8, Zenon DEF ChannelsOK
  <2>10. UsedOK'
    BY <2>1, <1>t, UsedGrows DEF UsedOK
  <2>11. QED
    BY <2>1, <2>2, <2>9, <2>10, Kept, Zenon DEF TypeOK
<1>8. QED
  BY <1>1, <1>2, <1>3, <1>4, <1>5, <1>6, <1>7
-----------------------------------------------------------------------------
(* The boundaries of a reconcile, one per context. *)
LEMMA BoundariesType ==
    ASSUME now \in Int, NEW S \in SUBSET Reason, NEW q \in Orders(S),
           NEW kind \in {"entered", "exited"}
    PROVE  [i \in DOMAIN q |-> Boundary(kind, q[i])] \in Seq(Captures)
<1>1. IsFiniteSet(S)
  BY FS_Subset, WriterAssumption
<1>2. Cardinality(S) \in Nat
  BY <1>1, FS_CardinalityType
<1>3. q \in [1 .. Cardinality(S) -> S]
  BY DEF Orders
<1>4. \A i \in 1 .. Cardinality(S) : Boundary(kind, q[i]) \in Captures
  BY <1>3, BoundaryType
<1>5. [i \in 1 .. Cardinality(S) |-> Boundary(kind, q[i])] \in [1 .. Cardinality(S) -> Captures]
  BY <1>4
<1>6. QED
  BY <1>2, <1>3, <1>5

(* Capture resumes after a privacy operation, contexts first. *)
LEMMA ResumeType == TypeOK /\ ResumeCapture => TypeOK'
<1> SUFFICES ASSUME TypeOK, ResumeCapture PROVE TypeOK'
  OBVIOUS
<1>1. /\ suspended' = FALSE /\ focus' = NoApp
      /\ UNCHANGED clocks /\ since' = since /\ gate' = gate /\ blind' = blind
      /\ active' = active /\ worker' = worker /\ cutoff' = cutoff /\ flushing' = flushing
      /\ used' = used /\ UNCHANGED writerVars
  BY DEF ResumeCapture
<1>2. rx' = rx /\ cmds' = cmds /\ UNCHANGED restOfWriter
  BY <1>1 DEF writerVars, restOfWriter
<1>3. /\ fwd \in Seq(Captures) /\ rx \in Seq(Captures) /\ cmds \in Seq(CommandRecords)
      /\ now \in Int /\ active \in SUBSET Reason /\ ProducerOK
  BY DEF TypeOK, ChannelsOK, ClocksOK, ProducerOK
<1>4. fwd' \in Seq(Captures)
  <2>1. CASE "entered" \in Inputs
    <3>1. Reconcile
      BY <2>1 DEF ResumeCapture
    <3>2. PICK out \in Orders(Reason), back \in Orders(active) :
             fwd' = fwd \o [i \in DOMAIN out |-> Boundary("exited", out[i])]
                        \o [i \in DOMAIN back |-> Boundary("entered", back[i])]
      BY <3>1, Zenon DEF Reconcile
    <3>3. [i \in DOMAIN out |-> Boundary("exited", out[i])] \in Seq(Captures)
      BY <1>3, BoundariesType
    <3>4. [i \in DOMAIN back |-> Boundary("entered", back[i])] \in Seq(Captures)
      BY <1>3, BoundariesType
    <3>5. QED
      BY <1>3, <3>2, <3>3, <3>4, ConcatProperties
  <2>2. CASE "entered" \notin Inputs
    BY <2>2, <1>3 DEF ResumeCapture
  <2>3. QED
    BY <2>1, <2>2
<1>5. ChannelsOK'
  BY <1>2, <1>3, <1>4, Zenon DEF ChannelsOK
<1>6. ProducerOK'
  BY <1>1, <1>3, Zenon DEF ProducerOK
<1>7. QED
  BY <1>1, <1>2, <1>5, <1>6, WriterKept, Kept, Zenon DEF TypeOK

(* What the tray does: the clocks, the Foreground toggle, its commands and *)
(* the panic fence.                                                         *)
LEMMA TrayType ==
    ASSUME TypeOK,
           \/ Tick \/ WallStep \/ CloseGate \/ SendForget \/ OpenGate
           \/ RecordCommand \/ PanicArm \/ PanicStop \/ WorkerStarts \/ WorkerStops
           \/ PrivacyCommand \/ Shutdown
    PROVE  TypeOK'
<1>t. /\ now \in Int /\ skew \in Int /\ since \in Int /\ focus \in App \cup {NoApp}
      /\ worker \in Nat /\ cutoff \in [rec : Nat, at : Int] /\ active \in SUBSET Reason
      /\ recording \in Nat
      /\ ProducerOK /\ UsedOK /\ ChannelsOK
  BY DEF TypeOK, ClocksOK, ProducerOK, RecordOK
<1>c. ASSUME UNCHANGED writerVars
      PROVE  rx' = rx /\ cmds' = cmds /\ UNCHANGED restOfWriter
  BY <1>c DEF writerVars, restOfWriter
<1>u. ASSUME used' = [used EXCEPT !.toggle = @ + 1] PROVE UsedOK'
  BY <1>u, <1>t, UsedGrows DEF UsedOK
<1>r. NoCutoff \in [rec : Nat, at : Int]
  BY DEF NoCutoff
<1>1. CASE Tick
  <2>1. /\ now' = now + 1 /\ skew' = skew /\ UNCHANGED producer /\ fwd' = fwd /\ used' = used
        /\ UNCHANGED writerVars
    BY <1>1 DEF Tick
  <2>2. ClocksOK'
    BY <2>1, <1>t DEF ClocksOK
  <2>3. QED
    BY <2>1, <2>2, <1>c, WriterKept, Kept, Zenon DEF TypeOK
<1>2. CASE WallStep
  <2>1. /\ skew' \in Skews /\ now' = now /\ UNCHANGED producer /\ fwd' = fwd
        /\ used' = [used EXCEPT !.toggle = @ + 1] /\ UNCHANGED writerVars
    BY <1>2 DEF WallStep
  <2>2. ClocksOK'
    BY <2>1, <1>t, WriterAssumption DEF ClocksOK
  <2>3. QED
    BY <2>1, <2>2, <1>c, <1>u, WriterKept, Kept, Zenon DEF TypeOK
<1>3. CASE CloseGate
  <2>1. /\ gate' = FALSE /\ flushing' = TRUE /\ focus' = focus /\ since' = since
        /\ blind' = blind /\ active' = active /\ suspended' = suspended
        /\ worker' = worker /\ cutoff' = cutoff /\ UNCHANGED clocks /\ fwd' = fwd
        /\ used' = [used EXCEPT !.toggle = @ + 1] /\ UNCHANGED writerVars
    BY <1>3 DEF CloseGate
  <2>2. ProducerOK'
    BY <2>1, <1>t, Zenon DEF ProducerOK
  <2>3. QED
    BY <2>1, <2>2, <1>c, <1>u, WriterKept, Kept, Zenon DEF TypeOK
<1>4. CASE SendForget
  <2>1. /\ Send("forget", 0) /\ flushing' = FALSE /\ focus' = focus /\ since' = since
        /\ gate' = gate /\ blind' = blind /\ active' = active /\ suspended' = suspended
        /\ worker' = worker /\ cutoff' = cutoff /\ UNCHANGED clocks /\ fwd' = fwd
        /\ UNCHANGED restOfWriter
    BY <1>4 DEF SendForget
  <2>2. ProducerOK'
    BY <2>1, <1>t, Zenon DEF ProducerOK
  <2>3. "forget" \in Ops /\ 0 \in Nat
    BY DEF Ops
  <2>4. QED
    BY <2>1, <2>2, <2>3, Sent, WriterKept, Kept, Zenon DEF TypeOK
<1>5. CASE OpenGate
  <2>1. /\ gate' = TRUE /\ blind' = FALSE /\ focus' = focus /\ since' = since
        /\ flushing' = flushing /\ active' = active /\ suspended' = suspended
        /\ worker' = worker /\ cutoff' = cutoff /\ UNCHANGED clocks /\ fwd' = fwd
        /\ used' = used /\ UNCHANGED writerVars
    BY <1>5 DEF OpenGate
  <2>2. ProducerOK'
    BY <2>1, <1>t, Zenon DEF ProducerOK
  <2>3. QED
    BY <2>1, <2>2, <1>c, WriterKept, Kept, Zenon DEF TypeOK
<1>6. CASE RecordCommand
  <2>1. PICK op \in Ops, r \in Nat : Send(op, r)
    BY <1>6, <1>t DEF RecordCommand, Ops
  <2>2. UNCHANGED clocks /\ UNCHANGED producer /\ fwd' = fwd /\ UNCHANGED restOfWriter
    BY <1>6 DEF RecordCommand
  <2>3. QED
    BY <2>1, <2>2, Sent, WriterKept, Kept, Zenon DEF TypeOK
<1>7. CASE PanicArm
  <2>1. /\ cutoff' = [rec |-> worker, at |-> now] /\ focus' = focus /\ since' = since
        /\ gate' = gate /\ blind' = blind /\ flushing' = flushing /\ active' = active
        /\ suspended' = suspended /\ worker' = worker /\ UNCHANGED clocks /\ fwd' = fwd
        /\ used' = used /\ UNCHANGED writerVars
    BY <1>7 DEF PanicArm
  <2>2. cutoff' \in [rec : Nat, at : Int]
    BY <2>1, <1>t
  <2>3. ProducerOK'
    BY <2>1, <2>2, <1>t, Zenon DEF ProducerOK
  <2>4. QED
    BY <2>1, <2>3, <1>c, WriterKept, Kept, Zenon DEF TypeOK
<1>8. CASE PanicStop
  <2>1. /\ worker' = 0 /\ focus' = focus /\ since' = since
        /\ gate' = gate /\ blind' = blind /\ flushing' = flushing /\ active' = active
        /\ suspended' = suspended /\ cutoff' = cutoff /\ UNCHANGED clocks /\ fwd' = fwd
        /\ UNCHANGED restOfWriter
    BY <1>8 DEF PanicStop
  <2>2. ProducerOK'
    <3>1. worker' \in Nat
      BY <2>1
    <3>2. QED
      BY <2>1, <3>1, <1>t, Zenon DEF ProducerOK
  <2>3. (cmds' = cmds /\ used' = used) \/ Send("stop", worker)
    BY <1>8 DEF PanicStop
  <2>4. "stop" \in Ops
    BY DEF Ops
  <2>5. ChannelsOK' /\ UsedOK'
    BY <2>1, <2>3, <2>4, <1>t, Sent, WriterKept, Kept, Zenon
  <2>6. QED
    BY <2>1, <2>2, <2>5, WriterKept, Kept, Zenon DEF TypeOK
<1>9. CASE WorkerStarts
  <2>1. /\ worker' = recording /\ focus' = focus /\ since' = since
        /\ gate' = gate /\ blind' = blind /\ flushing' = flushing /\ active' = active
        /\ suspended' = suspended /\ cutoff' = cutoff /\ UNCHANGED clocks /\ fwd' = fwd
        /\ used' = used /\ UNCHANGED writerVars
    BY <1>9 DEF WorkerStarts
  <2>2. ProducerOK'
    BY <2>1, <1>t, Zenon DEF ProducerOK
  <2>3. QED
    BY <2>1, <2>2, <1>c, WriterKept, Kept, Zenon DEF TypeOK
<1>10. CASE WorkerStops
  <2>1. /\ worker' = 0 /\ cutoff' = NoCutoff /\ focus' = focus /\ since' = since
        /\ gate' = gate /\ blind' = blind /\ flushing' = flushing /\ active' = active
        /\ suspended' = suspended /\ UNCHANGED clocks /\ fwd' = fwd
        /\ used' = used /\ UNCHANGED writerVars
    BY <1>10 DEF WorkerStops
  <2>2. ProducerOK'
    <3>1. worker' \in Nat
      BY <2>1
    <3>2. QED
      BY <2>1, <3>1, <1>r, <1>t, Zenon DEF ProducerOK
  <2>3. QED
    BY <2>1, <2>2, <1>c, WriterKept, Kept, Zenon DEF TypeOK
<1>11. CASE PrivacyCommand
  <2>1. /\ suspended' = TRUE /\ focus' = focus /\ since' = since
        /\ gate' = gate /\ blind' = blind /\ flushing' = flushing /\ active' = active
        /\ worker' = worker /\ cutoff' = cutoff /\ UNCHANGED clocks /\ fwd' = fwd
        /\ UNCHANGED restOfWriter
    BY <1>11 DEF PrivacyCommand
  <2>2. PICK op \in Ops : Send(op, 0)
    BY <1>11 DEF PrivacyCommand, Ops
  <2>3. ProducerOK'
    BY <2>1, <1>t, Zenon DEF ProducerOK
  <2>4. 0 \in Nat
    OBVIOUS
  <2>5. QED
    BY <2>1, <2>2, <2>3, <2>4, Sent, WriterKept, Kept, Zenon DEF TypeOK
<1>12. CASE Shutdown
  <2>1. /\ pc' = "shutdown" /\ UNCHANGED clocks /\ UNCHANGED producer
        /\ UNCHANGED <<fwd, rx, cmds>> /\ cmd' = cmd /\ todo' = todo /\ sq' = sq
        /\ UNCHANGED policy /\ UNCHANGED pending /\ UNCHANGED record /\ UNCHANGED erasure
        /\ UNCHANGED openness /\ UNCHANGED catalog /\ rows' = rows /\ used' = used
    BY <1>12 DEF Shutdown
  <2>2. UNCHANGED <<sq, lost>> /\ UNCHANGED <<batch, actions, rows>>
    BY <2>1 DEF pending
  <2>3. ControlOK'
    BY <2>1 DEF TypeOK, ControlOK
  <2>4. QED
    BY <2>1, <2>2, <2>3, Kept, Zenon DEF TypeOK
<1>13. QED
  BY <1>1, <1>2, <1>3, <1>4, <1>5, <1>6, <1>7, <1>8, <1>9, <1>10, <1>11, <1>12
-----------------------------------------------------------------------------
(* queue_captured: a capture is dropped, with or without a trace in the     *)
(* policy, or numbered and batched.                                         *)
LEMMA QueueCapturedType ==
    ASSUME TypeOK, NEW c \in Captures, QueueCaptured(c)
    PROVE  /\ PolicyOK' /\ NumbersOK' /\ BatchesOK' /\ RecordOK' /\ OpennessOK'
<1>t. /\ latch \in Latches /\ reasons \in SUBSET Reason /\ sq \in Sequencers
      /\ lost \subseteq Nat /\ now \in Int /\ skew \in Int /\ gapOpen \in BOOLEAN
      /\ recording \in Nat /\ paused \in Nat /\ masked \subseteq Nat
      /\ BatchesOK /\ OpennessOK /\ RecordOK /\ PolicyOK
  BY DEF TypeOK, PolicyOK, NumbersOK, ClocksOK, RecordOK
<1>p. ASSUME ApplyPolicyState(c) PROVE PolicyOK' /\ gapOpen' \in BOOLEAN
  <2>1. latch' = LatchAfter(c, latch) /\ reasons' = ReasonsAfter(c, reasons)
    BY <1>p DEF ApplyPolicyState
  <2>2. PolicyOK'
    BY <2>1, <1>t, PolicyType DEF PolicyOK
  <2>3. gapOpen' = FALSE \/ gapOpen' = gapOpen
    BY <1>p, Zenon DEF ApplyPolicyState
  <2>4. QED
    BY <2>2, <2>3, <1>t, Zenon
<1>r. ASSUME gapOpen' \in BOOLEAN, recording' = recording, paused' = paused, masked' = masked
      PROVE  RecordOK'
  BY <1>r, <1>t, Zenon DEF RecordOK
<1>1. CASE DropStale(c)
  <2>1. /\ sq' = sq /\ UNCHANGED policy /\ UNCHANGED pending /\ UNCHANGED record
        /\ UNCHANGED openness /\ rows' = rows
    BY <1>1 DEF DropStale
  <2>2. UNCHANGED <<sq, lost>> /\ UNCHANGED <<batch, actions, rows>>
    BY <2>1 DEF pending
  <2>3. QED
    BY <2>1, <2>2, Kept
<1>2. CASE DropExcluded(c)
  <2>1. /\ ApplyPolicyState(c) /\ sq' = sq /\ UNCHANGED pending
        /\ recording' = recording /\ paused' = paused /\ masked' = masked /\ rows' = rows
    BY <1>2 DEF DropExcluded
  <2>2. UNCHANGED <<sq, lost>> /\ UNCHANGED <<batch, actions, rows>>
    BY <2>1 DEF pending
  <2>3. ClearOpenFocus \/ UNCHANGED openness
    BY <1>2, Zenon DEF DropExcluded
  <2>4. OpennessOK'
    BY <2>3, <1>t, OpenFocusCleared, Kept
  <2>5. QED
    BY <2>1, <2>2, <2>4, <1>p, <1>r, Kept, Zenon
<1>3. CASE StoreCaptured(c)
  <2> DEFINE s == SequencerFor(c)
             row == Row(s, Scrubbed(c), Redacts(c, ReasonsAfter(c, reasons)))
  <2>1. /\ ApplyPolicyState(c) /\ sq' = Stamped(s, c.at) /\ NoteOpenFocus(row)
        /\ PushEvent(row) /\ actions' = actions
        /\ recording' = recording /\ paused' = paused /\ masked' = masked
    BY <1>3, Zenon DEF StoreCaptured
  <2>2. s \in Sequencers
    <3>1. Wall \in Int /\ Threshold \in Nat
      BY <1>t, WriterAssumption DEF Wall
    <3>2. Resynced(sq, now, Wall, Threshold) \in Sequencers
      BY <1>t, <3>1, ResyncedType
    <3>3. QED
      BY <1>t, <3>2, Zenon DEF SequencerFor
  <2>3. c.at \in Int
    BY DEF Captures, CaptureFields
  <2>4. row \in Rows
    <3>1. ReasonsAfter(c, reasons) \in SUBSET Reason
      BY <1>t, PolicyType
    <3>2. Redacts(c, ReasonsAfter(c, reasons)) \in BOOLEAN
      BY <3>1, <1>t, PolicyType
    <3>3. Scrubbed(c) \in Captures
      BY ScrubbedType
    <3>4. QED
      BY <2>2, <3>2, <3>3, RowType
  <2>5. sq' \in Sequencers
    BY <2>1, <2>2, <2>3, StampedType
  <2>6. BatchesOK' /\ lost' \subseteq Nat
    BY <2>1, <2>4, <1>t, EventPushed
  <2>7. OpennessOK'
    BY <2>1, <2>4, <1>t, OpenFocusNoted
  <2>8. NumbersOK'
    BY <2>5, <2>6 DEF NumbersOK
  <2>9. QED
    BY <2>1, <2>6, <2>7, <2>8, <1>p, <1>r, Zenon
<1>4. QED
  BY <1>1, <1>2, <1>3 DEF QueueCaptured

(* The marker of an excluded action keeps its instant and its recording. *)
LEMMA GapType ==
    ASSUME NEW a \in Captures, a.kind = "action"
    PROVE  [a EXCEPT !.kind = "gap", !.app = NoApp] \in Captures
<1> DEFINE g == [a EXCEPT !.kind = "gap", !.app = NoApp]
<1>1. a \in CaptureFields /\ a.rec # 0
  BY DEF Captures
<1>2. /\ "gap" \in Kinds /\ NoApp \in App \cup {NoApp} /\ 0 \in Int /\ 0 \in Nat
      /\ NoReason \in Reason \cup {NoReason} /\ TRUE \in BOOLEAN
  BY DEF Kinds
<1>3. g \in CaptureFields
  BY <1>1, <1>2, CaptureUpdates, Zenon
<1>4. g.kind = "gap" /\ g.rec = a.rec
  BY <1>1 DEF CaptureFields
<1>5. QED
  BY <1>1, <1>3, <1>4 DEF Captures

(* queue_action: an action is dropped, hidden behind a marker, or numbered. *)
LEMMA QueueActionType ==
    ASSUME TypeOK, NEW a \in Captures, a.kind = "action",
           DropAction(a) \/ MarkGap(a) \/ StoreAction(a)
    PROVE  PolicyOK' /\ NumbersOK' /\ BatchesOK' /\ RecordOK' /\ OpennessOK'
<1>t. /\ sq \in Sequencers /\ lost \subseteq Nat /\ gapOpen \in BOOLEAN
      /\ recording \in Nat /\ paused \in Nat /\ masked \subseteq Nat
      /\ BatchesOK /\ OpennessOK /\ RecordOK /\ PolicyOK
  BY DEF TypeOK, PolicyOK, NumbersOK, RecordOK
<1>a. a \in CaptureFields /\ a.at \in Int /\ a.rec \in Nat /\ a.rec # 0
  BY DEF Captures, CaptureFields
<1>1. CASE DropAction(a)
  <2>1. /\ sq' = sq /\ UNCHANGED policy /\ UNCHANGED pending /\ UNCHANGED record
        /\ UNCHANGED openness /\ rows' = rows
    BY <1>1 DEF DropAction
  <2>2. UNCHANGED <<sq, lost>> /\ UNCHANGED <<batch, actions, rows>>
    BY <2>1 DEF pending
  <2>3. QED
    BY <2>1, <2>2, Kept
<1>2. CASE MarkGap(a)
  <2> DEFINE g == [a EXCEPT !.kind = "gap", !.app = NoApp]
  <2>1. /\ gapOpen' = TRUE /\ masked' = masked \cup {a.rec} /\ UNCHANGED policy
        /\ batch' = batch /\ recording' = recording /\ paused' = paused
        /\ UNCHANGED openness
    BY <1>2 DEF MarkGap
  <2>2. \/ UNCHANGED <<sq, actions, lost, rows>>
        \/ sq' = Stamped(sq, a.at) /\ PushAction(Row(sq, g, FALSE))
    BY <1>2, Zenon DEF MarkGap
  <2>5. g \in Captures
    BY GapType
  <2>6. Row(sq, g, FALSE) \in Rows
    BY <1>t, <2>5, RowType
  <2>7. sq' \in Sequencers
    BY <1>t, <1>a, <2>2, StampedType
  <2>8. BatchesOK' /\ lost' \subseteq Nat
    <3>1. CASE UNCHANGED <<sq, actions, lost, rows>>
      BY <3>1, <2>1, <1>t, Zenon DEF BatchesOK
    <3>2. CASE PushAction(Row(sq, g, FALSE))
      BY <3>2, <2>1, <2>6, <1>t, ActionPushed
    <3>3. QED
      BY <2>2, <3>1, <3>2
  <2>9. masked' \subseteq Nat
    BY <2>1, <1>t, <1>a
  <2>10. RecordOK'
    BY <2>1, <2>9, <1>t, Zenon DEF RecordOK
  <2>11. NumbersOK'
    BY <2>7, <2>8 DEF NumbersOK
  <2>12. QED
    BY <2>1, <2>8, <2>10, <2>11, Kept
<1>3. CASE StoreAction(a)
  <2>1. /\ gapOpen' = FALSE /\ sq' = Stamped(sq, a.at) /\ PushAction(Row(sq, a, FALSE))
        /\ UNCHANGED policy /\ batch' = batch /\ recording' = recording
        /\ paused' = paused /\ masked' = masked /\ UNCHANGED openness
    BY <1>3 DEF StoreAction
  <2>2. Row(sq, a, FALSE) \in Rows
    BY <1>t, RowType
  <2>3. sq' \in Sequencers
    BY <1>t, <1>a, <2>1, StampedType
  <2>4. BatchesOK' /\ lost' \subseteq Nat
    BY <2>1, <2>2, <1>t, ActionPushed
  <2>5. RecordOK'
    BY <2>1, <1>t, Zenon DEF RecordOK
  <2>6. NumbersOK'
    BY <2>3, <2>4 DEF NumbersOK
  <2>7. QED
    BY <2>1, <2>4, <2>5, <2>6, Kept
<1>4. QED
  BY <1>1, <1>2, <1>3

(* A turn of the writer: an input, or one of its tickers. *)
LEMMA TurnType ==
    ASSUME TypeOK, TakeInput \/ FlushTick \/ Heartbeat \/ BeatOpenFocus
    PROVE  TypeOK'
<1>t. /\ now \in Int /\ skew \in Int /\ sq \in Sequencers /\ lost \subseteq Nat
      /\ BatchesOK /\ ChannelsOK /\ OpennessOK
  BY DEF TypeOK, ClocksOK, NumbersOK
<1>1. CASE TakeInput
  <2>1. /\ rx # <<>> /\ rx' = Tail(rx) /\ Queue(Head(rx))
        /\ UNCHANGED clocks /\ UNCHANGED producer /\ fwd' = fwd /\ cmds' = cmds
        /\ UNCHANGED <<pc, cmd, todo>> /\ UNCHANGED erasure /\ UNCHANGED catalog
        /\ used' = used
    BY <1>1 DEF TakeInput
  <2>2. fwd \in Seq(Captures) /\ rx \in Seq(Captures) /\ cmds \in Seq(CommandRecords)
    BY <1>t DEF ChannelsOK
  <2>3. Head(rx) \in Captures /\ Tail(rx) \in Seq(Captures)
    BY <2>1, <2>2, HeadTailProperties
  <2>4. ChannelsOK'
    BY <2>1, <2>2, <2>3, Zenon DEF ChannelsOK
  <2>5. PolicyOK' /\ NumbersOK' /\ BatchesOK' /\ RecordOK' /\ OpennessOK'
    <3>1. CASE Head(rx).kind = "action"
      BY <3>1, <2>1, <2>3, QueueActionType DEF Queue
    <3>2. CASE Head(rx).kind # "action"
      BY <3>2, <2>1, <2>3, QueueCapturedType DEF Queue
    <3>3. QED
      BY <3>1, <3>2
  <2>6. QED
    BY <2>1, <2>4, <2>5, Kept, Zenon DEF TypeOK
<1>2. CASE FlushTick
  <2>1. /\ FlushAll /\ UNCHANGED clocks /\ UNCHANGED producer /\ UNCHANGED <<fwd, rx, cmds>>
        /\ UNCHANGED <<pc, cmd, todo>> /\ sq' = sq /\ UNCHANGED policy /\ UNCHANGED record
        /\ UNCHANGED erasure /\ UNCHANGED openness /\ UNCHANGED catalog /\ used' = used
    BY <1>2 DEF FlushTick
  <2>2. BatchesOK' /\ NumbersOK'
    BY <2>1, <1>t, AllFlushed DEF NumbersOK
  <2>3. QED
    BY <2>1, <2>2, Kept, Zenon DEF TypeOK
<1>3. CASE Heartbeat
  <2>1. /\ sq' = Resynced(sq, now, Wall, Threshold)
        /\ UNCHANGED clocks /\ UNCHANGED producer /\ UNCHANGED <<fwd, rx, cmds>>
        /\ UNCHANGED <<pc, cmd, todo>> /\ UNCHANGED policy /\ UNCHANGED pending
        /\ UNCHANGED record /\ UNCHANGED erasure /\ UNCHANGED openness
        /\ UNCHANGED catalog /\ rows' = rows /\ used' = used
    BY <1>3 DEF Heartbeat
  <2>2. UNCHANGED <<batch, actions, rows>> /\ lost' = lost
    BY <2>1 DEF pending
  <2>3. Wall \in Int /\ Threshold \in Nat
    BY <1>t, WriterAssumption DEF Wall
  <2>4. NumbersOK'
    BY <2>1, <2>2, <2>3, <1>t, ResyncedType DEF NumbersOK
  <2>5. QED
    BY <2>1, <2>2, <2>4, Kept, Zenon DEF TypeOK
<1>4. CASE BeatOpenFocus
  <2> DEFINE ts == TimestampFor(sq, now)
             high == IF ts < segment.start THEN segment.start ELSE ts
  <2>1. /\ focusRow' = [sess |-> segment.sess, app |-> segment.app,
                        start |-> segment.start, high |-> high]
        /\ rowWritten' = TRUE /\ segment' = segment
        /\ UNCHANGED clocks /\ UNCHANGED producer /\ UNCHANGED <<fwd, rx, cmds>>
        /\ UNCHANGED <<pc, cmd, todo>> /\ sq' = sq /\ UNCHANGED policy /\ UNCHANGED pending
        /\ UNCHANGED record /\ UNCHANGED erasure
        /\ UNCHANGED catalog /\ rows' = rows /\ used' = used
    BY <1>4 DEF BeatOpenFocus
  <2>2. UNCHANGED <<batch, actions, rows>> /\ UNCHANGED <<sq, lost>>
    BY <2>1 DEF pending
  <2>3. ts \in Int
    BY <1>t, TimestampsAreInts
  <2>4. segment \in [sess : Nat, app : App \cup {NoApp}, start : Int]
    BY <1>t DEF OpennessOK
  <2>5. high \in Int
    BY <2>3, <2>4
  <2>6. focusRow' \in [sess : Nat, app : App \cup {NoApp}, start : Int, high : Int]
    <3> HIDE DEF high
    <3>1. QED
      BY <2>1, <2>4, <2>5
  <2>7. OpennessOK'
    BY <2>1, <2>4, <2>6, Zenon DEF OpennessOK
  <2>8. QED
    BY <2>1, <2>2, <2>7, Kept, Zenon DEF TypeOK
<1>5. QED
  BY <1>1, <1>2, <1>3, <1>4
-----------------------------------------------------------------------------
(* The loop takes a command from its channel. *)
LEMMA CommandTaken ==
    ASSUME TypeOK, NEW op, Next1(op), fwd' = fwd, rx' = rx
    PROVE  ChannelsOK' /\ Head(cmds) \in CommandRecords
<1>1. cmds # <<>> /\ cmds' = Tail(cmds)
  BY DEF Next1
<1>2. fwd \in Seq(Captures) /\ rx \in Seq(Captures) /\ cmds \in Seq(CommandRecords)
  BY DEF TypeOK, ChannelsOK
<1>3. Head(cmds) \in CommandRecords /\ Tail(cmds) \in Seq(CommandRecords)
  BY <1>1, <1>2, HeadTailProperties
<1>4. QED
  BY <1>1, <1>2, <1>3, Zenon DEF ChannelsOK

(* A command that drained the input is answered. *)
LEMMA CommandDone ==
    ASSUME TypeOK, Done, todo' = todo
    PROVE  ControlOK'
<1>1. NoCmd \in CommandRecords
  BY DEF NoCmd, CommandRecords, Ops
<1>2. QED
  BY <1>1 DEF Done, TypeOK, ControlOK

(* The commands the writer answers at once. *)
LEMMA SimpleCommandType ==
    ASSUME TypeOK,
           StartRecording \/ PauseRecording \/ ResumeRecording \/ RefusePrivacy \/ BeginDrain
    PROVE  TypeOK'
<1>t. /\ recording \in Nat /\ paused \in Nat /\ gapOpen \in BOOLEAN /\ masked \subseteq Nat
      /\ sessions \in Nat /\ ended \subseteq Nat /\ recs \in Nat /\ openRecs \subseteq Nat
      /\ todo \subseteq Reason
  BY DEF TypeOK, RecordOK, CatalogOK, ControlOK
<1>r. ASSUME recording' \in Nat, paused' \in Nat, gapOpen' = gapOpen, masked' = masked
      PROVE  RecordOK'
  BY <1>r, <1>t, Zenon DEF RecordOK
<1>1. CASE StartRecording
  <2>1. /\ Next1("start") /\ UNCHANGED clocks /\ UNCHANGED producer /\ fwd' = fwd /\ rx' = rx
        /\ UNCHANGED <<pc, cmd, todo>> /\ sq' = sq /\ UNCHANGED policy /\ UNCHANGED pending
        /\ gapOpen' = gapOpen /\ masked' = masked /\ UNCHANGED erasure
        /\ UNCHANGED openness /\ sessions' = sessions /\ ended' = ended /\ rows' = rows
        /\ used' = used
    BY <1>1 DEF StartRecording
  <2>2. \/ /\ recs' = recs + 1 /\ openRecs' = openRecs \cup {recs + 1}
           /\ recording' = recs + 1 /\ paused' = 0
        \/ UNCHANGED <<recs, openRecs, recording, paused>>
    BY <1>1 DEF StartRecording
  <2>3. recs' \in Nat /\ openRecs' \subseteq Nat /\ recording' \in Nat /\ paused' \in Nat
    <3>1. recs + 1 \in Nat /\ 0 \in Nat
      BY <1>t
    <3>2. openRecs \cup {recs + 1} \subseteq Nat
      BY <1>t, <3>1
    <3>3. QED
      BY <1>t, <2>2, <3>1, <3>2, Zenon
  <2>4. RecordOK' /\ CatalogOK'
    BY <1>t, <1>r, <2>1, <2>3 DEF CatalogOK
  <2>5. UNCHANGED <<sq, lost>> /\ UNCHANGED <<batch, actions, rows>>
    BY <2>1 DEF pending
  <2>6. QED
    BY <2>1, <2>4, <2>5, CommandTaken, Kept, Zenon DEF TypeOK
<1>2. CASE PauseRecording
  <2>1. /\ Next1("pause") /\ UNCHANGED clocks /\ UNCHANGED producer /\ fwd' = fwd /\ rx' = rx
        /\ UNCHANGED <<pc, cmd, todo>> /\ sq' = sq /\ UNCHANGED policy /\ UNCHANGED pending
        /\ recording' = recording /\ gapOpen' = gapOpen /\ masked' = masked
        /\ UNCHANGED erasure /\ UNCHANGED openness /\ UNCHANGED catalog /\ rows' = rows
        /\ used' = used
        /\ paused' = IF Head(cmds).rec \in 1 .. recs THEN Head(cmds).rec ELSE paused
    BY <1>2 DEF PauseRecording
  <2>2. paused' \in Nat
    BY <2>1, <1>t
  <2>3. UNCHANGED <<sq, lost>> /\ UNCHANGED <<batch, actions, rows>>
    BY <2>1 DEF pending
  <2>4. RecordOK'
    BY <1>t, <1>r, <2>1, <2>2
  <2>5. QED
    BY <2>1, <2>3, <2>4, CommandTaken, Kept, Zenon DEF TypeOK
<1>3. CASE ResumeRecording
  <2>1. /\ Next1("resume") /\ UNCHANGED clocks /\ UNCHANGED producer /\ fwd' = fwd /\ rx' = rx
        /\ UNCHANGED <<pc, cmd, todo>> /\ sq' = sq /\ UNCHANGED policy /\ UNCHANGED pending
        /\ recording' = recording /\ gapOpen' = gapOpen /\ masked' = masked
        /\ UNCHANGED erasure /\ UNCHANGED openness /\ UNCHANGED catalog /\ rows' = rows
        /\ used' = used
        /\ paused' = IF paused = Head(cmds).rec THEN 0 ELSE paused
    BY <1>3 DEF ResumeRecording
  <2>2. paused' \in Nat
    BY <2>1, <1>t
  <2>3. UNCHANGED <<sq, lost>> /\ UNCHANGED <<batch, actions, rows>>
    BY <2>1 DEF pending
  <2>4. RecordOK'
    BY <1>t, <1>r, <2>1, <2>2
  <2>5. QED
    BY <2>1, <2>3, <2>4, CommandTaken, Kept, Zenon DEF TypeOK
<1>4. CASE RefusePrivacy
  <2>1. /\ Next1("erase") \/ Next1("archive")
        /\ UNCHANGED clocks /\ UNCHANGED producer /\ fwd' = fwd /\ rx' = rx
        /\ UNCHANGED <<pc, cmd, todo>> /\ sq' = sq /\ UNCHANGED policy /\ UNCHANGED pending
        /\ UNCHANGED record /\ UNCHANGED erasure /\ UNCHANGED openness
        /\ UNCHANGED catalog /\ rows' = rows /\ used' = used
    BY <1>4 DEF RefusePrivacy
  <2>2. UNCHANGED <<sq, lost>> /\ UNCHANGED <<batch, actions, rows>>
    BY <2>1 DEF pending
  <2>3. QED
    BY <2>1, <2>2, CommandTaken, Kept, Zenon DEF TypeOK
<1>5. CASE BeginDrain
  <2>1. /\ pc' = "drain" /\ cmd' = Head(cmds) /\ todo' = todo
        /\ UNCHANGED clocks /\ UNCHANGED producer /\ fwd' = fwd /\ rx' = rx
        /\ sq' = sq /\ UNCHANGED policy /\ UNCHANGED pending
        /\ UNCHANGED record /\ UNCHANGED erasure /\ UNCHANGED openness
        /\ UNCHANGED catalog /\ rows' = rows /\ used' = used
    BY <1>5 DEF BeginDrain
  <2>2. PICK op \in Ops : Next1(op)
    BY <1>5 DEF BeginDrain, Ops
  <2>3. ChannelsOK' /\ Head(cmds) \in CommandRecords
    BY <2>1, <2>2, CommandTaken
  <2>4. ControlOK'
    BY <2>1, <2>3, <1>t DEF ControlOK
  <2>5. UNCHANGED <<sq, lost>> /\ UNCHANGED <<batch, actions, rows>>
    BY <2>1 DEF pending
  <2>6. QED
    BY <2>1, <2>3, <2>4, <2>5, Kept, Zenon DEF TypeOK
<1>6. QED
  BY <1>1, <1>2, <1>3, <1>4, <1>5

(* The commands that drained the input first. *)
LEMMA DrainedCommandType ==
    ASSUME TypeOK, FinishForget \/ FinishStop \/ Reset
    PROVE  TypeOK'
<1>t. /\ recording \in Nat /\ paused \in Nat /\ gapOpen \in BOOLEAN /\ masked \subseteq Nat
      /\ sessions \in Nat /\ ended \subseteq Nat /\ recs \in Nat /\ openRecs \subseteq Nat
      /\ todo \subseteq Reason /\ cmd \in CommandRecords /\ reasons \subseteq Reason
      /\ sq \in Sequencers /\ lost \subseteq Nat
      /\ focus \in App \cup {NoApp} /\ BatchesOK /\ OpennessOK /\ ProducerOK
  BY DEF TypeOK, RecordOK, CatalogOK, ControlOK, PolicyOK, NumbersOK, ProducerOK
<1>1. CASE FinishForget
  <2>1. /\ Done /\ latch' = "unknown" /\ reasons' = reasons /\ ClearOpenFocus
        /\ UNCHANGED clocks /\ since' = since /\ gate' = gate /\ active' = active
        /\ suspended' = suspended /\ worker' = worker /\ cutoff' = cutoff
        /\ flushing' = flushing /\ UNCHANGED <<fwd, rx, cmds>> /\ todo' = todo /\ sq' = sq
        /\ UNCHANGED pending /\ UNCHANGED record /\ UNCHANGED erasure
        /\ UNCHANGED catalog /\ rows' = rows /\ used' = used
    BY <1>1 DEF FinishForget
  <2>2. blind' \in BOOLEAN /\ (focus' = NoApp \/ focus' = focus)
    BY <1>1, Zenon DEF FinishForget
  <2>3. focus' \in App \cup {NoApp}
    BY <2>2, <1>t
  <2>4. ProducerOK'
    BY <2>1, <2>2, <2>3, <1>t, Zenon DEF ProducerOK
  <2>5. PolicyOK'
    BY <2>1, <1>t DEF PolicyOK, Latches
  <2>6. OpennessOK'
    BY <2>1, <1>t, OpenFocusCleared
  <2>7. UNCHANGED <<sq, lost>> /\ UNCHANGED <<batch, actions, rows>>
    BY <2>1 DEF pending
  <2>8. QED
    BY <2>1, <2>4, <2>5, <2>6, <2>7, CommandDone, Kept, Zenon DEF TypeOK
<1>2. CASE FinishStop
  <2>1. /\ Done /\ FlushAll
        /\ UNCHANGED clocks /\ UNCHANGED producer /\ UNCHANGED <<fwd, rx, cmds>>
        /\ todo' = todo /\ sq' = sq /\ UNCHANGED policy /\ gapOpen' = gapOpen
        /\ masked' = masked /\ UNCHANGED erasure /\ UNCHANGED openness
        /\ sessions' = sessions /\ ended' = ended /\ recs' = recs /\ used' = used
    BY <1>2 DEF FinishStop
  <2>2. \/ /\ openRecs' = openRecs \ {cmd.rec}
           /\ recording' = IF recording = cmd.rec THEN 0 ELSE recording
           /\ paused' = IF paused = cmd.rec THEN 0 ELSE paused
        \/ UNCHANGED <<openRecs, recording, paused>>
    BY <1>2, Zenon DEF FinishStop
  <2>3. openRecs' \subseteq Nat /\ recording' \in Nat /\ paused' \in Nat
    <3>1. openRecs \ {cmd.rec} \subseteq Nat /\ 0 \in Nat
      BY <1>t
    <3>2. QED
      BY <1>t, <2>2, <3>1, Zenon
  <2>4. RecordOK'
    BY <2>1, <2>3, <1>t, Zenon DEF RecordOK
  <2>5. CatalogOK'
    BY <2>1, <2>3, <1>t DEF CatalogOK
  <2>6. BatchesOK' /\ NumbersOK'
    BY <2>1, <1>t, AllFlushed DEF NumbersOK
  <2>7. QED
    BY <2>1, <2>4, <2>5, <2>6, CommandDone, Kept, Zenon DEF TypeOK
<1>3. CASE Reset
  <2>1. /\ UNCHANGED clocks /\ UNCHANGED producer /\ UNCHANGED <<fwd, rx, cmds>>
        /\ todo' = todo /\ sq' = sq /\ UNCHANGED policy /\ gapOpen' = gapOpen
        /\ UNCHANGED erasure /\ segment' = segment /\ rowWritten' = rowWritten
        /\ used' = used
    BY <1>3 DEF Reset
  <2>2. \/ FlushAll /\ Done /\ UNCHANGED <<recording, paused, masked, catalog, focusRow>>
        \/ /\ FlushAll /\ Done
           /\ recording' = 0 /\ paused' = 0 /\ openRecs' = {}
           /\ UNCHANGED <<masked, sessions, ended, recs, focusRow>>
        \/ /\ rows' = {} /\ sessions' = 0 /\ ended' = {}
           /\ recs' = 0 /\ openRecs' = {} /\ focusRow' = NoFocusRow
           /\ recording' = 0 /\ paused' = 0
           /\ batch' = {} /\ actions' = {} /\ lost' = {} /\ masked' = {}
           /\ pc' = "replace" /\ cmd' = cmd
    BY <1>3, Zenon DEF Reset
  <2>3. ControlOK'
    <3>1. CASE Done
      BY <3>1, <2>1, CommandDone
    <3>2. CASE pc' = "replace" /\ cmd' = cmd
      BY <3>2, <2>1, <1>t DEF ControlOK
    <3>3. QED
      BY <2>2, <3>1, <3>2
  <2>4. BatchesOK' /\ NumbersOK'
    <3>1. CASE FlushAll
      BY <3>1, <2>1, <1>t, AllFlushed DEF NumbersOK
    <3>2. CASE rows' = {} /\ batch' = {} /\ actions' = {} /\ lost' = {}
      <4>1. {} \subseteq Rows /\ {} \subseteq Nat
        OBVIOUS
      <4>2. BatchesOK'
        BY <3>2, <4>1, NoRows, Zenon DEF BatchesOK
      <4>3. QED
        BY <3>2, <4>1, <4>2, <2>1, <1>t DEF NumbersOK
    <3>3. QED
      BY <2>2, <3>1, <3>2, Zenon
  <2>5. recording' \in Nat /\ paused' \in Nat /\ masked' \subseteq Nat
    <3>1. 0 \in Nat /\ {} \subseteq Nat
      OBVIOUS
    <3>2. QED
      BY <2>2, <1>t, <3>1, Zenon
  <2>6. RecordOK'
    BY <2>1, <2>5, <1>t, Zenon DEF RecordOK
  <2>7. CatalogOK'
    <3>1. CASE UNCHANGED catalog
      BY <3>1, Kept
    <3>2. CASE openRecs' = {} /\ UNCHANGED <<sessions, ended, recs>>
      BY <3>2, <1>t DEF CatalogOK
    <3>3. CASE sessions' = 0 /\ ended' = {} /\ recs' = 0 /\ openRecs' = {}
      BY <3>3 DEF CatalogOK
    <3>4. QED
      BY <2>2, <3>1, <3>2, <3>3
  <2>8. OpennessOK'
    <3>1. NoFocusRow \in [sess : Nat, app : App \cup {NoApp}, start : Int, high : Int]
      BY DEF NoFocusRow
    <3>2. focusRow' = focusRow \/ focusRow' = NoFocusRow
      BY <2>2, Zenon
    <3>3. QED
      BY <2>1, <3>1, <3>2, <1>t, Zenon DEF OpennessOK
  <2>9. QED
    BY <2>1, <2>3, <2>4, <2>6, <2>7, <2>8, Kept, Zenon DEF TypeOK
<1>4. QED
  BY <1>1, <1>2, <1>3
-----------------------------------------------------------------------------
(* A context that is re-emitted is a capture like the one that began it. *)
LEMMA ReemittedType ==
    ASSUME TypeOK, NEW r \in todo
    PROVE  [Capture("entered", NoApp) EXCEPT !.reason = r, !.at = cmd.at, !.dark = FALSE]
              \in Captures
<1> DEFINE c == [Capture("entered", NoApp) EXCEPT !.reason = r, !.at = cmd.at, !.dark = FALSE]
<1>1. now \in Int /\ cmd \in CommandRecords /\ todo \subseteq Reason
  BY DEF TypeOK, ClocksOK, ControlOK
<1>2. Capture("entered", NoApp) \in CaptureFields
  BY <1>1, CaptureType DEF Kinds
<1>3. /\ cmd.at \in Int /\ r \in Reason /\ r \in Reason \cup {NoReason}
      /\ "entered" \in Kinds /\ NoApp \in App \cup {NoApp} /\ 0 \in Nat /\ FALSE \in BOOLEAN
  BY <1>1 DEF CommandRecords, Kinds
<1>4. c \in CaptureFields
  BY <1>2, <1>3, CaptureUpdates, Zenon
<1>5. c.kind = "entered" /\ c.rec = 0 /\ c.reason = r
  BY DEF Capture
<1>6. QED
  BY <1>3, <1>4, <1>5 DEF Captures

(* The fresh session after an erase or an archive, its contexts, the end.   *)
LEMMA ReplacementType ==
    ASSUME TypeOK, Replace \/ ReplaceFails \/ Reemit \/ Stop
    PROVE  TypeOK'
<1>t. /\ now \in Int /\ skew \in Int /\ reasons \in SUBSET Reason /\ todo \in SUBSET Reason
      /\ cmd \in CommandRecords /\ sq \in Sequencers /\ lost \subseteq Nat
      /\ sessions \in Nat /\ ended \subseteq Nat /\ recs \in Nat /\ openRecs \subseteq Nat
      /\ focusRow \in [sess : Nat, app : App \cup {NoApp}, start : Int, high : Int]
      /\ BatchesOK /\ OpennessOK
  BY DEF TypeOK, ClocksOK, PolicyOK, ControlOK, NumbersOK, CatalogOK, OpennessOK
<1>w. Wall \in Int /\ 0 \in Nat /\ 1 \in Nat
  BY <1>t DEF Wall
<1>1. CASE Replace
  <2>1. /\ sessions' = 1 /\ sq' = NewSequencer(1, now, Wall)
        /\ segment' = NoSegment /\ rowWritten' = FALSE /\ focusRow' = focusRow
        /\ pc' = "reemit" /\ cmd' = [cmd EXCEPT !.at = now] /\ todo' = ToReemit
        /\ UNCHANGED clocks /\ UNCHANGED producer /\ UNCHANGED <<fwd, rx, cmds>>
        /\ UNCHANGED policy /\ UNCHANGED pending /\ UNCHANGED record
        /\ ended' = ended /\ recs' = recs /\ openRecs' = openRecs /\ rows' = rows
        /\ used' = used
    BY <1>1 DEF Replace
  <2>2. ErasureOK'
    <3>1. boundary' \in {Wall, NoTs} /\ erasedAt' \in {now, NoTs}
      BY <1>1 DEF Replace
    <3>2. QED
      BY <3>1, <1>t, <1>w DEF ErasureOK
  <2>3. UNCHANGED <<batch, actions, rows>> /\ lost' = lost
    BY <2>1 DEF pending
  <2>4. NumbersOK'
    BY <2>1, <2>3, <1>t, <1>w, NewSequencerType DEF NumbersOK
  <2>5. OpennessOK'
    <3>1. NoSegment \in [sess : Nat, app : App \cup {NoApp}, start : Int]
      BY DEF NoSegment
    <3>2. QED
      BY <2>1, <3>1, <1>t, Zenon DEF OpennessOK
  <2>6. CatalogOK'
    BY <2>1, <1>t, <1>w, Zenon DEF CatalogOK
  <2>7. ControlOK'
    <3>1. [cmd EXCEPT !.at = now] \in CommandRecords
      BY <1>t DEF CommandRecords
    <3>2. ToReemit \subseteq Reason
      BY <1>t DEF ToReemit
    <3>3. QED
      BY <2>1, <3>1, <3>2 DEF ControlOK
  <2>8. QED
    BY <2>1, <2>2, <2>3, <2>4, <2>5, <2>6, <2>7, Kept, Zenon DEF TypeOK
<1>2. CASE ReplaceFails
  <2>1. /\ Done /\ UNCHANGED clocks /\ UNCHANGED producer /\ UNCHANGED <<fwd, rx, cmds>>
        /\ todo' = todo /\ sq' = sq /\ UNCHANGED policy /\ UNCHANGED pending
        /\ UNCHANGED record /\ UNCHANGED erasure /\ UNCHANGED openness
        /\ UNCHANGED catalog /\ rows' = rows /\ used' = used
    BY <1>2 DEF ReplaceFails
  <2>2. UNCHANGED <<sq, lost>> /\ UNCHANGED <<batch, actions, rows>>
    BY <2>1 DEF pending
  <2>3. QED
    BY <2>1, <2>2, CommandDone, Kept, Zenon DEF TypeOK
<1>3. CASE Reemit
  <2>1. /\ UNCHANGED clocks /\ UNCHANGED producer /\ UNCHANGED <<fwd, rx, cmds>>
        /\ UNCHANGED erasure /\ UNCHANGED catalog /\ used' = used
    BY <1>3 DEF Reemit
  <2>2. CASE /\ Done /\ todo' = todo /\ sq' = sq /\ UNCHANGED policy /\ UNCHANGED pending
             /\ UNCHANGED record /\ UNCHANGED openness /\ rows' = rows
    <3>1. UNCHANGED <<sq, lost>> /\ UNCHANGED <<batch, actions, rows>>
      BY <2>2 DEF pending
    <3>2. QED
      BY <2>1, <2>2, <3>1, CommandDone, Kept, Zenon DEF TypeOK
  <2>3. ASSUME NEW r \in todo,
               QueueCaptured([Capture("entered", NoApp) EXCEPT
                                 !.reason = r, !.at = cmd.at, !.dark = FALSE]),
               todo' = todo \ {r}, pc' = pc, cmd' = cmd
        PROVE  TypeOK'
    <3> DEFINE c == [Capture("entered", NoApp) EXCEPT
                        !.reason = r, !.at = cmd.at, !.dark = FALSE]
    <3>5. c \in Captures
      BY ReemittedType
    <3>6. PolicyOK' /\ NumbersOK' /\ BatchesOK' /\ RecordOK' /\ OpennessOK'
      <4> HIDE DEF c
      <4>1. QueueCaptured(c)
        BY <2>3 DEF c
      <4>2. QED
        BY <3>5, <4>1, QueueCapturedType
    <3>7. ControlOK'
      BY <2>3, <1>t DEF ControlOK, TypeOK
    <3>8. QED
      BY <2>1, <3>6, <3>7, Kept, Zenon DEF TypeOK
  <2>4. QED
    BY <1>3, <2>2, <2>3, Zenon DEF Reemit
<1>4. CASE Stop
  <2>1. /\ pc' = "stopped" /\ FlushAll /\ ClearOpenFocus
        /\ UNCHANGED clocks /\ UNCHANGED producer /\ UNCHANGED <<fwd, rx, cmds>>
        /\ cmd' = cmd /\ todo' = todo /\ sq' = sq /\ UNCHANGED policy /\ UNCHANGED record
        /\ UNCHANGED erasure /\ sessions' = sessions /\ recs' = recs /\ used' = used
    BY <1>4 DEF Stop
  <2>2. openRecs' \in {{}, openRecs} /\ ended' \in {ended, ended \cup {sq.session}}
    BY <1>4, Zenon DEF Stop
  <2>3. CatalogOK'
    <3>1. sq.session \in Nat
      BY <1>t DEF Sequencers
    <3>2. QED
      BY <2>1, <2>2, <3>1, <1>t DEF CatalogOK
  <2>4. BatchesOK' /\ NumbersOK'
    BY <2>1, <1>t, AllFlushed DEF NumbersOK
  <2>5. OpennessOK'
    BY <2>1, <1>t, OpenFocusCleared
  <2>6. ControlOK'
    BY <2>1, <1>t DEF ControlOK
  <2>7. QED
    BY <2>1, <2>3, <2>4, <2>5, <2>6, Kept, Zenon DEF TypeOK
<1>5. QED
  BY <1>1, <1>2, <1>3, <1>4

(* GilbrethStore::open numbers the row it recovers after those it found. *)
LEMMA RepairType ==
    ASSUME rows \subseteq Rows, Repair,
           focusRow \in [sess : Nat, app : App \cup {NoApp}, start : Int, high : Int]
    PROVE  rows' \subseteq Rows
<1>1. ASSUME NEW n \in {1} \cup {r.seq + 1 : r \in RowsOf(focusRow.sess)},
             rows' = rows \cup {Recovered(n)}
      PROVE  rows' \subseteq Rows
  <2>1. n \in Nat
    BY <1>1 DEF RowsOf, Rows
  <2>2. /\ focusRow.sess \in Nat /\ focusRow.app \in App \cup {NoApp}
        /\ focusRow.high \in Int /\ focusRow.start \in Int
        /\ focusRow.high - focusRow.start \in Int
    OBVIOUS
  <2>3. Recovered(n).cap \in CaptureFields
    <3>1. /\ "focus" \in Kinds /\ NoReason \in Reason \cup {NoReason} /\ 0 \in Nat
          /\ FALSE \in BOOLEAN
      BY DEF Kinds
    <3>2. QED
      BY <2>2, <3>1, Zenon DEF Recovered, CaptureFields
  <2>4. Recovered(n).cap.kind = "focus" /\ Recovered(n).cap.rec = 0
    BY DEF Recovered
  <2>5. Recovered(n).cap \in Captures
    BY <2>3, <2>4 DEF Captures
  <2>6. /\ Recovered(n).sess \in Nat /\ Recovered(n).seq \in Nat /\ Recovered(n).ts \in Int
        /\ Recovered(n).sens \in BOOLEAN
    BY <2>1, <2>2 DEF Recovered
  <2>7. Recovered(n) = [sess |-> Recovered(n).sess, seq |-> Recovered(n).seq,
                        ts |-> Recovered(n).ts, sens |-> Recovered(n).sens,
                        cap |-> Recovered(n).cap]
    BY DEF Recovered
  <2>8. Recovered(n) \in Rows
    BY <2>5, <2>6, <2>7, Zenon DEF Rows
  <2>9. QED
    BY <1>1, <2>8
<1>2. QED
  BY <1>1, Zenon DEF Repair

(* A process that has just started, or is gone. *)
LEMMA FreshType ==
    ASSUME FreshMemory
    PROVE  /\ ProducerOK' /\ ChannelsOK' /\ PolicyOK' /\ RecordOK' /\ ErasureOK'
           /\ cmd' \in CommandRecords /\ todo' \subseteq Reason /\ lost' \subseteq Nat
           /\ segment' \in [sess : Nat, app : App \cup {NoApp}, start : Int]
           /\ rowWritten' \in BOOLEAN
<1>1. NoCutoff \in [rec : Nat, at : Int] /\ 0 \in Int /\ 0 \in Nat
      /\ NoApp \in App \cup {NoApp} /\ {} \subseteq Reason /\ {} \subseteq Nat
  BY DEF NoCutoff
<1>2. ProducerOK'
  BY <1>1, Zenon DEF FreshMemory, ProducerOK
<1>3. ChannelsOK'
  BY DEF FreshMemory, ChannelsOK
<1>4. PolicyOK' /\ ErasureOK'
  BY DEF FreshMemory, PolicyOK, ErasureOK, Latches
<1>5. RecordOK'
  BY <1>1, Zenon DEF FreshMemory, RecordOK
<1>6. cmd' \in CommandRecords /\ todo' \subseteq Reason /\ lost' \subseteq Nat
  BY DEF FreshMemory, NoCmd, CommandRecords, Ops
<1>7. segment' \in [sess : Nat, app : App \cup {NoApp}, start : Int]
  BY DEF FreshMemory, NoSegment
<1>8. rowWritten' \in BOOLEAN
  BY Zenon DEF FreshMemory
<1>9. QED
  BY <1>2, <1>3, <1>4, <1>5, <1>6, <1>7, <1>8

(* The process dies and starts again. *)
LEMMA LifeType ==
    ASSUME TypeOK, Crash \/ Start
    PROVE  TypeOK'
<1>t. /\ now \in Int /\ skew \in Int /\ sq \in Sequencers /\ sessions \in Nat /\ recs \in Nat
      /\ focusRow \in [sess : Nat, app : App \cup {NoApp}, start : Int, high : Int]
      /\ BatchesOK /\ UsedOK /\ rows \subseteq Rows
  BY DEF TypeOK, ClocksOK, NumbersOK, CatalogOK, OpennessOK, BatchesOK
<1>f. FreshMemory
  BY DEF Crash, Start
<1>u. used' = [used EXCEPT !.run = @ + 1]
  BY DEF Crash, Start
<1>v. UsedOK'
  BY <1>u, <1>t, UsedGrows DEF UsedOK
<1>p. pc' = "down" \/ pc' = "loop"
  BY DEF Crash, Start
<1>q. ControlOK'
  BY <1>f, <1>p, FreshType DEF ControlOK
<1>e. batch' = {} /\ actions' = {} /\ {} \subseteq Rows
  BY <1>f DEF FreshMemory
<1>1. CASE Crash
  <2>1. UNCHANGED clocks /\ sq' = sq /\ focusRow' = focusRow /\ UNCHANGED catalog /\ rows' = rows
    BY <1>1 DEF Crash
  <2>2. BatchesOK'
    BY <2>1, <1>e, <1>t, NoRows, Zenon DEF BatchesOK
  <2>3. NumbersOK'
    BY <2>1, <1>f, <1>t, FreshType DEF NumbersOK
  <2>4. OpennessOK'
    BY <2>1, <1>f, <1>t, FreshType, Zenon DEF OpennessOK
  <2>5. QED
    BY <2>1, <2>2, <2>3, <2>4, <1>f, <1>v, <1>q, FreshType, Kept, Zenon DEF TypeOK
<1>2. CASE Start
  <2>1. /\ Repair /\ focusRow' = NoFocusRow /\ ended' = 1 .. sessions
        /\ sessions' = sessions + 1 /\ sq' = NewSequencer(sessions + 1, now, Wall)
        /\ openRecs' = {} /\ UNCHANGED clocks /\ recs' = recs
    BY <1>2 DEF Start
  <2>2. rows' \subseteq Rows
    BY <2>1, <1>t, RepairType
  <2>3. BatchesOK'
    BY <2>2, <1>e, NoRows, Zenon DEF BatchesOK
  <2>4. Wall \in Int /\ sessions + 1 \in Nat
    BY <1>t DEF Wall
  <2>5. NumbersOK'
    BY <2>1, <2>4, <1>f, <1>t, FreshType, NewSequencerType DEF NumbersOK
  <2>6. NoFocusRow \in [sess : Nat, app : App \cup {NoApp}, start : Int, high : Int]
    BY DEF NoFocusRow
  <2>7. OpennessOK'
    BY <2>1, <2>6, <1>f, FreshType, Zenon DEF OpennessOK
  <2>8. CatalogOK'
    BY <2>1, <2>4, <1>t DEF CatalogOK
  <2>9. QED
    BY <2>1, <2>3, <2>5, <2>7, <2>8, <1>f, <1>v, <1>q, FreshType, Kept, Zenon DEF TypeOK
<1>3. QED
  BY <1>1, <1>2
-----------------------------------------------------------------------------
(***************************************************************************)
(* Type correctness.  Beyond the sets the variables range over: a batch    *)
(* stays below config.batch_size after every step, since pushing the row   *)
(* that fills it flushes it; and every row that is queued, pending or      *)
(* stored names a recording if and only if it is an action or its marker.  *)
(***************************************************************************)
THEOREM WriterTypeCorrect == Spec => []TypeOK
<1>1. Init => TypeOK
  <2> SUFFICES ASSUME Init PROVE TypeOK
    OBVIOUS
  <2>1. /\ 0 \in Int /\ 0 \in Nat /\ 1 \in Nat /\ NoApp \in App \cup {NoApp}
        /\ {} \subseteq Reason /\ {} \subseteq Nat /\ {} \subseteq Rows
        /\ NoCutoff \in [rec : Nat, at : Int]
    BY DEF NoCutoff
  <2>2. ClocksOK /\ ChannelsOK /\ PolicyOK /\ ErasureOK
    BY DEF Init, ClocksOK, ChannelsOK, PolicyOK, ErasureOK, Latches
  <2>3. ProducerOK
    BY <2>1, Zenon DEF Init, ProducerOK
  <2>4. ControlOK
    BY DEF Init, ControlOK, NoCmd, CommandRecords, Ops
  <2>5. NumbersOK
    <3>1. NewSequencer(1, 0, 0) \in Sequencers
      BY <2>1, NewSequencerType, Zenon
    <3>2. QED
      BY <2>1, <3>1, Zenon DEF Init, NumbersOK
  <2>6. BatchesOK
    BY <2>1, NoRows, Zenon DEF Init, BatchesOK
  <2>7. RecordOK
    BY <2>1, Zenon DEF Init, RecordOK
  <2>8. OpennessOK
    <3>1. /\ NoSegment \in [sess : Nat, app : App \cup {NoApp}, start : Int]
          /\ NoFocusRow \in [sess : Nat, app : App \cup {NoApp}, start : Int, high : Int]
      BY DEF NoSegment, NoFocusRow
    <3>2. QED
      BY <3>1, Zenon DEF Init, OpennessOK
  <2>9. CatalogOK /\ UsedOK
    BY DEF Init, CatalogOK, UsedOK
  <2>10. QED
    BY <2>2, <2>3, <2>4, <2>5, <2>6, <2>7, <2>8, <2>9 DEF TypeOK
<1>2. TypeOK /\ [Next]_vars => TypeOK'
  <2> SUFFICES ASSUME TypeOK, [Next]_vars PROVE TypeOK'
    OBVIOUS
  <2>1. CASE Next
    BY <2>1, CaptureSideType, ResumeType, TrayType, TurnType, SimpleCommandType,
       DrainedCommandType, ReplacementType, LifeType, Zenon DEF Next
  <2>2. CASE UNCHANGED vars
    <3>1. /\ UNCHANGED clocks /\ UNCHANGED producer /\ UNCHANGED <<fwd, rx, cmds>>
          /\ UNCHANGED <<pc, cmd, todo>> /\ sq' = sq /\ UNCHANGED policy
          /\ UNCHANGED pending /\ UNCHANGED record /\ UNCHANGED erasure
          /\ UNCHANGED openness /\ UNCHANGED catalog /\ rows' = rows /\ used' = used
      BY <2>2 DEF vars
    <3>2. UNCHANGED <<sq, lost>> /\ UNCHANGED <<batch, actions, rows>>
      BY <3>1 DEF pending
    <3>3. QED
      BY <3>1, <3>2, Kept, Zenon DEF TypeOK
  <2>3. QED
    BY <2>1, <2>2
<1>3. QED
  BY <1>1, <1>2, PTL DEF Spec
-----------------------------------------------------------------------------
(* Actions come from the record worker, whose way to the writer is not that  *)
(* of the captures.                                                         *)
Events == {c \in Captures : c.rec = 0}
Acts == {c \in Captures : c.kind = "action"}

Apart == fwd \in Seq(Events) /\ rx \in Seq(Events \cup Acts)

LEMMA ApartStep == TypeOK /\ TypeOK' /\ Apart /\ [Next]_vars => Apart'
<1> SUFFICES ASSUME TypeOK, TypeOK', Apart, [Next]_vars PROVE Apart'
  OBVIOUS
<1>0. fwd' \in Seq(Captures) /\ rx' \in Seq(Captures)
  BY DEF TypeOK, ChannelsOK
<1>e. ASSUME NEW c, Emit(c), c.rec = 0, rx' = rx PROVE Apart'
  <2>1. fwd' = Append(fwd, c) /\ fwd \in Seq(Events)
    BY <1>e DEF Emit, Apart
  <2>2. c = fwd'[Len(fwd) + 1] /\ Len(fwd) + 1 \in 1 .. Len(fwd')
    BY <2>1
  <2>3. c \in Events
    BY <2>2, <1>0, <1>e DEF Events
  <2>4. QED
    BY <2>1, <2>3, <1>e DEF Apart
<1>w. ASSUME UNCHANGED writerVars PROVE rx' = rx
  BY <1>w DEF writerVars
<1>1. ASSUME NEW app \in App, FocusTo(app) PROVE Apart'
  <2> DEFINE c == [Capture("focus", app) EXCEPT !.prev = focus,
                      !.dur = IF focus = NoApp THEN 0 ELSE now - since]
  <2>1. Emit(c) /\ UNCHANGED writerVars
    BY <1>1 DEF FocusTo
  <2>2. c.rec = 0
    BY DEF Capture
  <2>3. QED
    BY <2>1, <2>2, <1>e, <1>w
<1>2. CASE FocusClosed
  <2> DEFINE c == [Capture("focus", focus) EXCEPT !.prev = focus, !.dur = now - since]
  <2>1. Emit(c) /\ UNCHANGED writerVars
    BY <1>2 DEF FocusClosed
  <2>2. c.rec = 0
    BY DEF Capture
  <2>3. QED
    BY <2>1, <2>2, <1>e, <1>w
<1>3. CASE PlainCapture \/ CutCapture
  <2>1. (\E kind, app : Emit(Capture(kind, app))) /\ UNCHANGED writerVars
    BY <1>3, Zenon DEF PlainCapture, CutCapture
  <2>2. \A kind, app : Capture(kind, app).rec = 0
    BY DEF Capture
  <2>3. QED
    BY <2>1, <2>2, <1>e, <1>w
<1>b. \A kind, r : Boundary(kind, r).rec = 0
  BY DEF Boundary, Capture
<1>4. ASSUME NEW r \in Reason, SensitiveBoundary(r) PROVE Apart'
  <2>1. (fwd' = fwd \/ \E kind : Emit(Boundary(kind, r))) /\ UNCHANGED writerVars
    BY <1>4, Zenon DEF SensitiveBoundary
  <2>2. QED
    BY <2>1, <1>b, <1>e, <1>w DEF Apart
<1>5. CASE ResumeCapture
  <2>1. (fwd' = fwd \/ Reconcile) /\ rx' = rx
    BY <1>5, <1>w, Zenon DEF ResumeCapture
  <2>2. CASE Reconcile
    <3>1. PICK out \in Orders(Reason), back \in Orders(active) :
             fwd' = fwd \o [i \in DOMAIN out |-> Boundary("exited", out[i])]
                        \o [i \in DOMAIN back |-> Boundary("entered", back[i])]
      BY <2>2, Zenon DEF Reconcile
    <3> DEFINE p == [i \in DOMAIN out |-> Boundary("exited", out[i])]
               q == [i \in DOMAIN back |-> Boundary("entered", back[i])]
    <3>2. p \in Seq(Captures) /\ q \in Seq(Captures)
      <4>1. now \in Int /\ active \in SUBSET Reason
        BY DEF TypeOK, ClocksOK, ProducerOK
      <4>2. QED
        BY <4>1, BoundariesType
    <3>3. (\A i \in DOMAIN p : p[i].rec = 0) /\ (\A i \in DOMAIN q : q[i].rec = 0)
      BY <1>b
    <3>4. fwd' = fwd \o p \o q
      BY <3>1
    <3> HIDE DEF p, q
    <3>5. p \in Seq(Events) /\ q \in Seq(Events)
      BY <3>2, <3>3 DEF Events
    <3>6. QED
      BY <3>4, <3>5, <2>1, ConcatProperties DEF Apart
  <2>3. QED
    BY <2>1, <2>2 DEF Apart
<1>6. CASE Forward
  <2>1. /\ fwd # <<>> /\ rx' = Append(rx, Head(fwd)) /\ fwd' = Tail(fwd)
        /\ fwd \in Seq(Events) /\ rx \in Seq(Events \cup Acts)
    BY <1>6 DEF Forward, Apart
  <2>2. QED
    BY <2>1 DEF Apart
<1>7. ASSUME NEW app \in App \cup {NoApp}, ActionCaptured(app) PROVE Apart'
  <2> DEFINE c == [Capture("action", app) EXCEPT !.rec = worker, !.dark = cutoff.rec = worker]
  <2>1. rx' = Append(rx, c) /\ fwd' = fwd /\ rx \in Seq(Events \cup Acts)
    BY <1>7 DEF ActionCaptured, Apart
  <2>2. c.kind = "action"
    BY DEF Capture
  <2> HIDE DEF c
  <2>3. c = rx'[Len(rx) + 1] /\ Len(rx) + 1 \in 1 .. Len(rx')
    BY <2>1
  <2>4. c \in Acts
    BY <2>2, <2>3, <1>0 DEF Acts
  <2>5. QED
    BY <2>1, <2>4 DEF Apart
<1>8. CASE TakeInput
  <2>1. rx # <<>> /\ rx' = Tail(rx) /\ fwd' = fwd
    BY <1>8 DEF TakeInput
  <2>2. QED
    BY <2>1 DEF Apart
<1>9. CASE Crash \/ Start
  <2>1. fwd' = <<>> /\ rx' = <<>>
    BY <1>9 DEF Crash, Start, FreshMemory
  <2>2. QED
    BY <2>1 DEF Apart
<1>10. CASE \/ CloseGate \/ SendForget \/ OpenGate \/ Tick \/ WallStep
            \/ RecordCommand \/ PanicArm \/ PanicStop \/ WorkerStarts \/ WorkerStops
            \/ PrivacyCommand \/ Shutdown
  BY <1>10 DEF CloseGate, SendForget, OpenGate, Tick, WallStep, RecordCommand, PanicArm,
     PanicStop, WorkerStarts, WorkerStops, PrivacyCommand, Shutdown, writerVars, restOfWriter, Apart
<1>11. CASE \/ FlushTick \/ Heartbeat \/ BeatOpenFocus
            \/ StartRecording \/ PauseRecording \/ ResumeRecording
            \/ RefusePrivacy \/ BeginDrain
            \/ FinishForget \/ FinishStop \/ Reset \/ Replace \/ ReplaceFails \/ Reemit \/ Stop
  BY <1>11 DEF FlushTick, Heartbeat, BeatOpenFocus, StartRecording, PauseRecording,
     ResumeRecording, RefusePrivacy, BeginDrain, FinishForget, FinishStop, Reset, Replace,
     ReplaceFails, Reemit, Stop, Apart
<1>12. CASE UNCHANGED vars
  BY <1>12 DEF vars, Apart
<1>13. QED
  BY <1>1, <1>2, <1>3, <1>4, <1>5, <1>6, <1>7, <1>8, <1>9, <1>10, <1>11, <1>12, Zenon DEF Next

LEMMA ActionsApart == Spec => []Apart
<1>1. Init => Apart
  BY DEF Init, Apart
<1>2. QED
  BY <1>1, ApartStep, WriterTypeCorrect, PTL DEF Spec
-----------------------------------------------------------------------------
(* A row that is pushed is all that is kept anew. *)
LEMMA RowPushed ==
    ASSUME NEW row,
           \/ PushEvent(row) /\ actions' = actions
           \/ PushAction(row) /\ batch' = batch
    PROVE  Held' \subseteq Held \cup {row}
<1>1. CASE PushEvent(row) /\ actions' = actions
  <2> DEFINE full == batch \cup {row}
  <2>1. \/ batch' = full /\ rows' = rows
        \/ \E ok : rows' = rows \cup CommitOf(full, ok) /\ batch' = {}
    BY <1>1, Zenon DEF PushEvent
  <2>2. \A ok : CommitOf(full, ok) \subseteq full
    BY DEF CommitOf
  <2>3. QED
    BY <1>1, <2>1, <2>2 DEF Held
<1>2. CASE PushAction(row) /\ batch' = batch
  <2> DEFINE full == actions \cup {row}
  <2>1. \/ actions' = full /\ rows' = rows
        \/ \E ok : rows' = rows \cup CommitOf(full, ok) /\ actions' = {}
    BY <1>2, Zenon DEF PushAction
  <2>2. \A ok : CommitOf(full, ok) \subseteq full
    BY DEF CommitOf
  <2>3. QED
    BY <1>2, <2>1, <2>2 DEF Held
<1>3. QED
  BY <1>1, <1>2

(* What a capture that is taken adds. *)
CapturedRow(c) == Row(SequencerFor(c), Scrubbed(c), Redacts(c, ReasonsAfter(c, reasons)))

LEMMA CapturedHeld ==
    ASSUME NEW c, QueueCaptured(c)
    PROVE  \/ sq' = sq /\ gapOpen' = gapOpen /\ UNCHANGED pending /\ rows' = rows
           \/ sq' = Stamped(SequencerFor(c), c.at) /\ Held' \subseteq Held \cup {CapturedRow(c)}
<1>1. CASE DropStale(c)
  BY <1>1 DEF DropStale, record
<1>2. CASE DropExcluded(c)
  <2>1. sq' = sq /\ UNCHANGED pending /\ rows' = rows
    BY <1>2 DEF DropExcluded
  <2>2. Excludes(c, latch) /\ ApplyPolicyState(c)
    BY <1>2 DEF DropExcluded
  <2>3. gapOpen' = gapOpen
    BY <2>2 DEF ApplyPolicyState, Excludes, Unattributed
  <2>4. QED
    BY <2>1, <2>3
<1>3. CASE StoreCaptured(c)
  <2>1. /\ sq' = Stamped(SequencerFor(c), c.at)
        /\ PushEvent(CapturedRow(c)) /\ actions' = actions
    BY <1>3, Zenon DEF StoreCaptured, CapturedRow
  <2>2. QED
    BY <2>1, RowPushed
<1>4. QED
  BY <1>1, <1>2, <1>3 DEF QueueCaptured

(* The other turns of the writer and of those around it keep what they find, *)
(* or less; a start may add the row it recovers.                            *)
LEMMA NothingGained ==
    ASSUME [Next]_vars
    PROVE  TakeInput \/ Reemit \/ Start \/ Held' \subseteq Held
<1>p. ASSUME UNCHANGED pending, rows' = rows PROVE Held' \subseteq Held
  BY <1>p DEF pending, Held
<1>w. ASSUME UNCHANGED writerVars PROVE Held' \subseteq Held
  BY <1>w DEF writerVars, pending, Held
<1>r. ASSUME UNCHANGED restOfWriter PROVE Held' \subseteq Held
  BY <1>r DEF restOfWriter, pending, Held
<1>f. ASSUME FlushAll PROVE Held' \subseteq Held
  <2>1. PICK okE, okA :
           /\ rows' = rows \cup (CommitOf(batch, okE) \cup CommitOf(actions, okA))
           /\ batch' = {} /\ actions' = {}
    BY <1>f, Zenon DEF FlushAll
  <2>2. QED
    BY <2>1 DEF CommitOf, Held
<1>1. CASE \/ \E app \in App : FocusTo(app)
           \/ FocusClosed \/ PlainCapture \/ CutCapture
           \/ \E r \in Reason : SensitiveBoundary(r)
           \/ ResumeCapture
           \/ Tick \/ WallStep \/ CloseGate \/ OpenGate \/ PanicArm
           \/ WorkerStarts \/ WorkerStops
  <2>1. UNCHANGED writerVars
    BY <1>1 DEF FocusTo, FocusClosed, PlainCapture, CutCapture, SensitiveBoundary,
       ResumeCapture, Tick, WallStep, CloseGate, OpenGate, PanicArm, WorkerStarts, WorkerStops
  <2>2. QED
    BY <2>1, <1>w
<1>2. CASE SendForget \/ RecordCommand \/ PanicStop \/ PrivacyCommand
  <2>1. UNCHANGED restOfWriter
    BY <1>2 DEF SendForget, RecordCommand, PanicStop, PrivacyCommand
  <2>2. QED
    BY <2>1, <1>r
<1>3. CASE \/ Forward \/ (\E app \in App \cup {NoApp} : ActionCaptured(app)) \/ Shutdown
           \/ Heartbeat \/ BeatOpenFocus \/ StartRecording \/ PauseRecording \/ ResumeRecording
           \/ RefusePrivacy \/ BeginDrain \/ FinishForget \/ Replace \/ ReplaceFails
  <2>1. UNCHANGED pending /\ rows' = rows
    BY <1>3 DEF Forward, ActionCaptured, Shutdown, Heartbeat, BeatOpenFocus, StartRecording,
       PauseRecording, ResumeRecording, RefusePrivacy, BeginDrain, FinishForget, Replace,
       ReplaceFails
  <2>2. QED
    BY <2>1, <1>p
<1>4. CASE FlushTick \/ FinishStop \/ Stop
  <2>1. FlushAll
    BY <1>4 DEF FlushTick, FinishStop, Stop
  <2>2. QED
    BY <2>1, <1>f
<1>5. CASE Reset
  <2>1. FlushAll \/ (rows' = {} /\ batch' = {} /\ actions' = {})
    BY <1>5, Zenon DEF Reset
  <2>2. QED
    BY <2>1, <1>f DEF Held
<1>6. CASE Crash
  BY <1>6 DEF Crash, FreshMemory, Held
<1>7. CASE UNCHANGED vars
  BY <1>7, <1>p DEF vars
<1>8. QED
  BY <1>1, <1>2, <1>3, <1>4, <1>5, <1>6, <1>7, Zenon DEF Next

(* The row that Repair adds is a focus row of a session that did not end. *)
LEMMA StartGains ==
    ASSUME Start
    PROVE  \/ rows' = rows
           \/ \E n : /\ rows' = rows \cup {Recovered(n)}
                     /\ focusRow.sess \in (1 .. sessions) \ ended
BY Zenon DEF Start, Repair

-----------------------------------------------------------------------------
Waiting == batch \cup actions
Stored == RowsOf(sq.session)

(* The numbers N are those of the stored rows, S, of the rows of Q and of    *)
(* the lost ones, L, and no number counts twice.                            *)
Account(N, S, Q, L) ==
    /\ N = S \cup Seqs(Q) \cup L
    /\ S \cap (Seqs(Q) \cup L) = {}
    /\ L \cap Seqs(Q) = {}

Unique(Q) == \A r, s \in Q : r.seq = s.seq => r = s

(* Where the rows are: stored ones in a session there is, pending ones in   *)
(* the session under way, each below the next number and of its own.        *)
RowsPlaced ==
    /\ \A r \in rows : r.sess \in 1 .. sessions /\ (r.sess = sq.session => r.seq < sq.next)
    /\ \A r \in Waiting : r.sess = sq.session /\ r.seq < sq.next
    /\ batch \cap actions = {}
    /\ Unique(Waiting)

(* The erase leaves nothing to number again, and neither does the end of a  *)
(* process.                                                                 *)
RowsGone ==
    /\ ~Running => Waiting = {}
    /\ pc = "replace" => rows = {} /\ Waiting = {} /\ lost = {}

(* The last timestamp given out is the latest. *)
LastIsLatest ==
    \A r \in Held : r.sess = sq.session => sq.last \in Int /\ r.ts <= sq.last

Accounted ==
    Running /\ sq.session \in 1 .. sessions =>
        Account(1 .. sq.next - 1, Seqs(Stored), Waiting, lost)

NumbersInv ==
    RowsPlaced /\ RowsGone /\ LastIsLatest /\ TimestampsFollowSeqs /\ Accounted
             /\ sq.next # 0

numbering == <<sq, lost, batch, actions, rows, sessions>>

(* Where no row, number or session changes, and no process ends. *)
LEMMA NumbersKept ==
    ASSUME NumbersInv, UNCHANGED numbering, Running' = Running, pc' # "replace" \/ pc' = pc
    PROVE  NumbersInv'
<1>1. Waiting' = Waiting /\ Stored' = Stored /\ Held' = Held /\ rows' = rows
      /\ sq' = sq /\ lost' = lost /\ sessions' = sessions /\ batch' = batch /\ actions' = actions
  BY DEF numbering, Waiting, Stored, RowsOf, Held
<1>2. RowsPlaced' /\ LastIsLatest' /\ TimestampsFollowSeqs' /\ Accounted' /\ sq'.next # 0
  BY <1>1, Zenon DEF NumbersInv, RowsPlaced, LastIsLatest, TimestampsFollowSeqs, Accounted, Unique, Account
<1>3. RowsGone'
  BY <1>1, Zenon DEF NumbersInv, RowsGone
<1>4. QED
  BY <1>2, <1>3 DEF NumbersInv
-----------------------------------------------------------------------------
(* Numbers of rows are those of its parts. *)
LEMMA SeqsOfParts ==
    ASSUME NEW A, NEW B PROVE Seqs(A \cup B) = Seqs(A) \cup Seqs(B)
BY DEF Seqs

(* Of rows with different numbers, some leave the batch: those committed    *)
(* are stored, the others lost, and the account still closes.               *)
LEMMA AccountMoved ==
    ASSUME NEW N, NEW S, NEW L, NEW Q, NEW F \in SUBSET Q, NEW D \in SUBSET F,
           Unique(Q), Account(N, S, Q, L)
    PROVE  Account(N, S \cup Seqs(D), Q \ F, L \cup Seqs(F \ D))
<1>1. Seqs(Q) = Seqs(D) \cup Seqs(F \ D) \cup Seqs(Q \ F)
  <2>1. Q = (D \cup (F \ D)) \cup (Q \ F)
    OBVIOUS
  <2>2. /\ Seqs((D \cup (F \ D)) \cup (Q \ F)) = Seqs(D \cup (F \ D)) \cup Seqs(Q \ F)
        /\ Seqs(D \cup (F \ D)) = Seqs(D) \cup Seqs(F \ D)
    BY SeqsOfParts, Zenon
  <2>3. QED
    BY <2>1, <2>2, Zenon
<1>2. ASSUME NEW A \in SUBSET Q, NEW B \in SUBSET Q, A \cap B = {}
      PROVE  Seqs(A) \cap Seqs(B) = {}
  BY <1>2, Zenon DEF Seqs, Unique
<1>3. Seqs(D) \cap Seqs(F \ D) = {} /\ Seqs(D) \cap Seqs(Q \ F) = {}
      /\ Seqs(F \ D) \cap Seqs(Q \ F) = {}
  BY <1>2
<1>4. QED
  <2> DEFINE SD == Seqs(D)  SL == Seqs(F \ D)  SQ == Seqs(Q \ F)
  <2>1. /\ Seqs(Q) = SD \cup SL \cup SQ
        /\ SD \cap SL = {} /\ SD \cap SQ = {} /\ SL \cap SQ = {}
    BY <1>1, <1>3
  <2> HIDE DEF SD, SL, SQ
  <2>2. /\ N = (S \cup SD) \cup SQ \cup (L \cup SL)
        /\ (S \cup SD) \cap (SQ \cup (L \cup SL)) = {}
        /\ (L \cup SL) \cap SQ = {}
    BY <2>1 DEF Account
  <2>3. QED
    BY <2>2 DEF SD, SL, SQ, Account

(* A flush of the rows F of Q, where D is what the commit took.             *)
Moves(Q, F, D) ==
    /\ D \subseteq F /\ F \subseteq Q
    /\ \A r \in D : r.sess \in 1 .. sessions
    /\ rows' = rows \cup D /\ lost' = lost \cup Seqs(F \ D)
    /\ Waiting' = Q \ F

(* Whatever a flush does with the pending rows, among them one that has     *)
(* just been numbered, preserves the account and the order.                 *)
LEMMA FlushNumbers ==
    ASSUME NEW Q, NEW F, NEW D, Moves(Q, F, D), rows \subseteq Rows, Q \subseteq Rows,
           (batch \cap actions = {})', sessions' = sessions, sq' \in Sequencers,
           sq'.session = sq.session,
           \A r \in rows : r.sess \in 1 .. sessions /\ (r.sess = sq.session => r.seq < sq'.next),
           \A r \in Q : r.sess = sq.session /\ r.seq < sq'.next,
           Unique(Q),
           \A r \in rows \cup Q : r.sess = sq.session => sq'.last \in Int /\ r.ts <= sq'.last,
           \A r, s \in rows \cup Q :
               r.sess = sq.session /\ s.sess = sq.session /\ r.seq < s.seq => r.ts <= s.ts,
           sq.session \in 1 .. sessions =>
               Account(1 .. sq'.next - 1, Seqs(Stored), Q, lost)
    PROVE  RowsPlaced' /\ LastIsLatest' /\ TimestampsFollowSeqs' /\ Accounted'
<1>1. D \subseteq Q /\ F \subseteq Q /\ rows' = rows \cup D /\ Waiting' = Q \ F
      /\ lost' = lost \cup Seqs(F \ D) /\ Held' \subseteq rows \cup Q
  BY DEF Moves, Held, Waiting
<1>2. RowsPlaced'
  <2>1. \A r \in rows' : r.sess \in 1 .. sessions' /\ (r.sess = sq'.session => r.seq < sq'.next)
    BY <1>1, Zenon DEF Moves
  <2>2. \A r \in Waiting' : r.sess = sq'.session /\ r.seq < sq'.next
    BY <1>1
  <2>3. Unique(Waiting')
    BY <1>1 DEF Unique
  <2>4. QED
    BY <2>1, <2>2, <2>3 DEF RowsPlaced
<1>3. LastIsLatest'
  <2>1. \A r \in Held' : r.sess = sq'.session => sq'.last \in Int /\ r.ts <= sq'.last
    BY <1>1, Zenon
  <2>2. QED
    BY <2>1 DEF LastIsLatest
<1>4. TimestampsFollowSeqs'
  <2>1. \A r, s \in Held' :
           r.sess = sq'.session /\ s.sess = sq'.session /\ r.seq < s.seq => r.ts <= s.ts
    BY <1>1, Zenon
  <2>2. QED
    BY <2>1 DEF TimestampsFollowSeqs
<1>5. Accounted'
  <2> SUFFICES ASSUME sq.session \in 1 .. sessions
               PROVE  Account(1 .. sq'.next - 1, Seqs(Stored'), Waiting', lost')
    BY DEF Accounted
  <2>1. Stored' = Stored \cup D
    BY <1>1 DEF Stored, RowsOf
  <2>2. Seqs(Stored') = Seqs(Stored) \cup Seqs(D)
    BY <2>1, SeqsOfParts
  <2>3. F \in SUBSET Q /\ D \in SUBSET F
    BY DEF Moves
  <2>4. Account(1 .. sq'.next - 1, Seqs(Stored), Q, lost)
    OBVIOUS
  <2>5. Account(1 .. sq'.next - 1, Seqs(Stored) \cup Seqs(D), Q \ F, lost \cup Seqs(F \ D))
    BY <2>3, <2>4, AccountMoved, Zenon
  <2>6. QED
    BY <2>5, <2>2, <1>1
<1>6. QED
  BY <1>2, <1>3, <1>4, <1>5
-----------------------------------------------------------------------------
(* The two ways a flush comes about, as moves of rows: a batch that is full *)
(* once a row is pushed, ...                                                *)
LEMMA PushMoves ==
    ASSUME NEW row, batch \cap actions = {}, row \notin Waiting,
           \/ PushEvent(row) /\ actions' = actions
           \/ PushAction(row) /\ batch' = batch
    PROVE  /\ (batch \cap actions = {})'
           /\ \E F, D : Moves(Waiting \cup {row}, F, D)
<1>1. CASE PushEvent(row) /\ actions' = actions
  <2> DEFINE full == batch \cup {row}
  <2>1. CASE HasRoom(full)
    <3>1. batch' = full /\ rows' = rows /\ lost' = lost
      BY <1>1, <2>1 DEF PushEvent
    <3>2. Seqs({} \ {}) = {}
      BY DEF Seqs
    <3>3. Moves(Waiting \cup {row}, {}, {})
      BY <3>1, <3>2, <1>1 DEF Moves, Waiting
    <3>4. (batch \cap actions = {})'
      BY <3>1, <1>1 DEF Waiting
    <3>5. QED
      BY <3>3, <3>4
  <2>2. CASE ~HasRoom(full)
    <3>1. PICK ok \in Outcomes("busy") :
             /\ rows' = rows \cup CommitOf(full, ok)
             /\ lost' = lost \cup Seqs(full \ CommitOf(full, ok))
             /\ batch' = {}
      BY <1>1, <2>2, Zenon DEF PushEvent
    <3>2. /\ CommitOf(full, ok) \subseteq full
          /\ \A r \in CommitOf(full, ok) : r.sess \in 1 .. sessions
      BY DEF CommitOf, Insertable
    <3>3. Moves(Waiting \cup {row}, full, CommitOf(full, ok))
      BY <3>1, <3>2, <1>1 DEF Moves, Waiting
    <3>4. QED
      BY <3>1, <3>3
  <2>3. QED
    BY <2>1, <2>2
<1>2. CASE PushAction(row) /\ batch' = batch
  <2> DEFINE full == actions \cup {row}
  <2>1. CASE HasRoom(full)
    <3>1. actions' = full /\ rows' = rows /\ lost' = lost
      BY <1>2, <2>1 DEF PushAction
    <3>2. Seqs({} \ {}) = {}
      BY DEF Seqs
    <3>3. Moves(Waiting \cup {row}, {}, {})
      BY <3>1, <3>2, <1>2 DEF Moves, Waiting
    <3>4. (batch \cap actions = {})'
      BY <3>1, <1>2 DEF Waiting
    <3>5. QED
      BY <3>3, <3>4
  <2>2. CASE ~HasRoom(full)
    <3>1. PICK ok \in Outcomes("busy") :
             /\ rows' = rows \cup CommitOf(full, ok)
             /\ lost' = lost \cup Seqs(full \ CommitOf(full, ok))
             /\ actions' = {}
      BY <1>2, <2>2, Zenon DEF PushAction
    <3>2. /\ CommitOf(full, ok) \subseteq full
          /\ \A r \in CommitOf(full, ok) : r.sess \in 1 .. sessions
      BY DEF CommitOf, Insertable
    <3>3. Moves(Waiting \cup {row}, full, CommitOf(full, ok))
      BY <3>1, <3>2, <1>2 DEF Moves, Waiting
    <3>4. QED
      BY <3>1, <3>3
  <2>3. QED
    BY <2>1, <2>2
<1>3. QED
  BY <1>1, <1>2

(* ... and flush_all_batches.                                               *)
LEMMA FlushAllMoves ==
    ASSUME FlushAll
    PROVE  /\ (batch \cap actions = {})' /\ Waiting' = {}
           /\ \E D : Moves(Waiting, Waiting, D)
<1>1. PICK okE \in Outcomes("busy"), okA \in Outcomes("busy") :
         LET done == CommitOf(batch, okE) \cup CommitOf(actions, okA)
         IN  /\ rows' = rows \cup done
             /\ lost' = lost \cup Seqs((batch \cup actions) \ done)
             /\ batch' = {} /\ actions' = {}
  BY Zenon DEF FlushAll
<1> DEFINE done == CommitOf(batch, okE) \cup CommitOf(actions, okA)
<1>2. done \subseteq Waiting /\ \A r \in done : r.sess \in 1 .. sessions
  BY DEF CommitOf, Insertable, Waiting
<1>3. Waiting' = {}
  BY <1>1 DEF Waiting
<1>4. Moves(Waiting, Waiting, done)
  BY <1>1, <1>2, <1>3 DEF Moves, Waiting
<1>5. QED
  BY <1>1, <1>3, <1>4

(* The committed and the pending rows after flush_all_batches.              *)
LEMMA FlushedNumbers ==
    ASSUME TypeOK, NumbersInv, Running, FlushAll, sq' = sq, sessions' = sessions, pc' # "replace"
    PROVE  NumbersInv'
<1>1. PICK D : Moves(Waiting, Waiting, D)
  BY FlushAllMoves
<1>2. (batch \cap actions = {})' /\ Waiting' = {}
  BY FlushAllMoves
<1>3. /\ rows \subseteq Rows /\ batch \subseteq Rows /\ actions \subseteq Rows /\ sq \in Sequencers
  BY DEF TypeOK, BatchesOK, NumbersOK
<1>4. /\ \A r \in rows : r.sess \in 1 .. sessions /\ (r.sess = sq.session => r.seq < sq.next)
      /\ \A r \in Waiting : r.sess = sq.session /\ r.seq < sq.next
      /\ Unique(Waiting)
  BY DEF NumbersInv, RowsPlaced
<1>5. Held = rows \cup Waiting
  BY DEF Held, Waiting
<1>6. sq.session \in 1 .. sessions => Account(1 .. sq.next - 1, Seqs(Stored), Waiting, lost)
  BY DEF NumbersInv, Accounted
<1>7. RowsPlaced' /\ LastIsLatest' /\ TimestampsFollowSeqs' /\ Accounted'
  BY <1>1, <1>2, <1>3, <1>4, <1>5, <1>6, FlushNumbers
     DEF NumbersInv, LastIsLatest, TimestampsFollowSeqs, Waiting
<1>8. QED
  BY <1>7, <1>2 DEF NumbersInv, RowsGone

(* A row takes the next number and the latest timestamp, and its place in a *)
(* batch.                                                                   *)
LEMMA RowNumbered ==
    ASSUME TypeOK, NumbersInv, Running, pc # "replace", pc' = pc, sessions' = sessions,
           NEW s \in Sequencers, s.session = sq.session, s.next = sq.next, s.last = sq.last,
           NEW c \in Captures, NEW b \in BOOLEAN, sq' = Stamped(s, c.at),
           \/ PushEvent(Row(s, c, b)) /\ actions' = actions
           \/ PushAction(Row(s, c, b)) /\ batch' = batch
    PROVE  NumbersInv'
<1> DEFINE row == Row(s, c, b)
           Q == Waiting \cup {row}
<1>1. /\ rows \subseteq Rows /\ batch \subseteq Rows /\ actions \subseteq Rows /\ sq \in Sequencers
      /\ row \in Rows /\ c.at \in Int
  BY RowType DEF TypeOK, BatchesOK, NumbersOK, Captures, CaptureFields
<1>2. /\ sq' \in Sequencers /\ sq'.session = sq.session /\ sq'.next = sq.next + 1
      /\ sq'.last = TimestampFor(s, c.at)
  BY <1>1, StampedType
<1>3. row.sess = sq.session /\ row.seq = sq.next /\ row.ts = sq'.last /\ sq'.last \in Int
  BY <1>1, <1>2, TimestampsAreInts DEF Row
<1>4. sq.next \in Nat /\ sq.next # 0
  BY <1>1 DEF NumbersInv, Sequencers
<1>5. sq.last \in Int => sq.last <= sq'.last
  <2> SUFFICES ASSUME sq.last \in Int PROVE sq.last <= sq'.last
    OBVIOUS
  <2>1. sq.last # NoTs
    BY NoTsAssumption
  <2>2. Projected(s, c.at) \in Int
    BY <1>1, TimestampsAreInts
  <2>3. QED
    BY <1>2, <2>1, <2>2 DEF TimestampFor, Clamped
<1>6. /\ \A r \in rows : r.sess \in 1 .. sessions /\ (r.sess = sq.session => r.seq < sq.next)
      /\ \A r \in Waiting : r.sess = sq.session /\ r.seq < sq.next
      /\ Unique(Waiting) /\ batch \cap actions = {}
  BY DEF NumbersInv, RowsPlaced
<1>7. \A r \in rows \cup Waiting : r.sess = sq.session => sq.last \in Int /\ r.ts <= sq.last
  BY DEF NumbersInv, LastIsLatest, Held, Waiting
<1>8. \A r \in rows \cup Waiting : r.seq \in Nat /\ r.ts \in Int
  BY <1>1 DEF Rows, Waiting
<1>9. row \notin Waiting
  BY <1>3, <1>4, <1>6
<1>10. (batch \cap actions = {})' /\ \E F, D : Moves(Q, F, D)
  BY <1>6, <1>9, PushMoves
<1>11. PICK F, D : Moves(Q, F, D)
  BY <1>10
<1>12. \A r \in rows : r.sess \in 1 .. sessions /\ (r.sess = sq.session => r.seq < sq'.next)
  BY <1>2, <1>4, <1>6, <1>8
<1>13. \A r \in Q : r.sess = sq.session /\ r.seq < sq'.next
  BY <1>2, <1>3, <1>4, <1>6, <1>8
<1>14. Unique(Q)
  BY <1>3, <1>4, <1>6, <1>8 DEF Unique
<1>15. \A r \in rows \cup Q : r.sess = sq.session => sq'.last \in Int /\ r.ts <= sq'.last
  <2>1. ASSUME NEW r \in rows \cup Waiting, r.sess = sq.session PROVE r.ts <= sq'.last
    BY <2>1, <1>3, <1>5, <1>7, <1>8
  <2>2. row.ts <= sq'.last
    BY <1>3
  <2>3. QED
    BY <2>1, <2>2, <1>3
<1>16. ASSUME NEW x \in rows \cup Q, NEW y \in rows \cup Q,
              x.sess = sq.session, y.sess = sq.session, x.seq < y.seq
       PROVE  x.ts <= y.ts
  <2>1. CASE x = row
    BY <2>1, <1>16, <1>3, <1>4, <1>6, <1>8
  <2>2. CASE x # row /\ y = row
    BY <2>2, <1>15, <1>3, <1>16
  <2>3. CASE x # row /\ y # row
    <3>1. x \in Held /\ y \in Held
      BY <2>3, <1>16 DEF Held, Waiting
    <3>2. QED
      BY <3>1, <1>16 DEF NumbersInv, TimestampsFollowSeqs
  <2>4. QED
    BY <2>1, <2>2, <2>3
<1>17. sq.session \in 1 .. sessions => Account(1 .. sq'.next - 1, Seqs(Stored), Q, lost)
  <2> SUFFICES ASSUME sq.session \in 1 .. sessions
               PROVE  Account(1 .. sq'.next - 1, Seqs(Stored), Q, lost)
    OBVIOUS
  <2>1. Account(1 .. sq.next - 1, Seqs(Stored), Waiting, lost)
    BY DEF NumbersInv, Accounted
  <2>2. Seqs(Q) = Seqs(Waiting) \cup {sq.next}
    BY <1>3 DEF Seqs
  <2>3. 1 .. sq'.next - 1 = (1 .. sq.next - 1) \cup {sq.next} /\ sq.next \notin 1 .. sq.next - 1
    BY <1>2, <1>4
  <2> DEFINE N == 1 .. sq.next - 1
             M == 1 .. sq'.next - 1
             S == Seqs(Stored)
             W == Seqs(Waiting)
             X == Seqs(Q)
             k == sq.next
  <2>4. /\ N = S \cup W \cup lost /\ S \cap (W \cup lost) = {} /\ lost \cap W = {}
        /\ X = W \cup {k} /\ M = N \cup {k} /\ k \notin N
    BY <2>1, <2>2, <2>3 DEF Account
  <2> HIDE DEF N, M, S, W, X, k
  <2>5. M = S \cup X \cup lost /\ S \cap (X \cup lost) = {} /\ lost \cap X = {}
    BY <2>4
  <2>6. QED
    BY <2>5 DEF Account, M, S, X
<1>18. Q \subseteq Rows
  BY <1>1 DEF Waiting
<1>19. RowsPlaced' /\ LastIsLatest' /\ TimestampsFollowSeqs' /\ Accounted'
  <2> HIDE DEF Q
  <2>1. \A r, t \in rows \cup Q :
           r.sess = sq.session /\ t.sess = sq.session /\ r.seq < t.seq => r.ts <= t.ts
    BY <1>16
  <2>2. QED
    BY <1>1, <1>2, <1>10, <1>11, <1>12, <1>13, <1>14, <1>15, <1>17, <1>18, <2>1, FlushNumbers
<1>20. RowsGone'
  BY DEF RowsGone, Running
<1>21. QED
  BY <1>2, <1>4, <1>19, <1>20 DEF NumbersInv
-----------------------------------------------------------------------------
(* The capture side and the tray number nothing. *)
LEMMA ProducersNumbers ==
    ASSUME NumbersInv,
           \/ \E app \in App : FocusTo(app)
           \/ FocusClosed \/ PlainCapture \/ CutCapture
           \/ \E r \in Reason : SensitiveBoundary(r)
           \/ ResumeCapture \/ Forward
           \/ \E app \in App \cup {NoApp} : ActionCaptured(app)
           \/ Tick \/ WallStep \/ CloseGate \/ SendForget \/ OpenGate
           \/ RecordCommand \/ PanicArm \/ PanicStop \/ WorkerStarts \/ WorkerStops
           \/ PrivacyCommand \/ Shutdown
    PROVE  NumbersInv'
<1>1. ASSUME UNCHANGED writerVars PROVE UNCHANGED numbering /\ pc' = pc
  BY <1>1 DEF writerVars, numbering, pending, catalog
<1>2. ASSUME UNCHANGED restOfWriter PROVE UNCHANGED numbering /\ pc' = pc
  BY <1>2 DEF restOfWriter, numbering, pending, catalog
<1>3. ASSUME sq' = sq, rows' = rows, UNCHANGED pending, UNCHANGED catalog
      PROVE  UNCHANGED numbering
  BY <1>3 DEF numbering, pending, catalog
<1>4. ASSUME pc' = pc PROVE Running' = Running
  BY <1>4 DEF Running
<1>5. CASE \/ \E app \in App : FocusTo(app)
           \/ FocusClosed \/ PlainCapture \/ CutCapture
           \/ \E r \in Reason : SensitiveBoundary(r)
           \/ ResumeCapture
           \/ Tick \/ WallStep \/ CloseGate \/ OpenGate \/ PanicArm
           \/ WorkerStarts \/ WorkerStops
  <2>1. UNCHANGED writerVars
    BY <1>5 DEF FocusTo, FocusClosed, PlainCapture, CutCapture, SensitiveBoundary,
       ResumeCapture, Tick, WallStep, CloseGate, OpenGate, PanicArm, WorkerStarts, WorkerStops
  <2>2. QED
    BY <2>1, <1>1, <1>4, NumbersKept
<1>6. CASE SendForget \/ RecordCommand \/ PanicStop \/ PrivacyCommand
  <2>1. UNCHANGED restOfWriter
    BY <1>6 DEF SendForget, RecordCommand, PanicStop, PrivacyCommand
  <2>2. QED
    BY <2>1, <1>2, <1>4, NumbersKept
<1>7. CASE Forward \/ \E app \in App \cup {NoApp} : ActionCaptured(app)
  <2>1. pc' = pc /\ sq' = sq /\ rows' = rows /\ UNCHANGED pending /\ UNCHANGED catalog
    BY <1>7 DEF Forward, ActionCaptured
  <2>2. QED
    BY <2>1, <1>3, <1>4, NumbersKept
<1>8. CASE Shutdown
  <2>1. /\ sq' = sq /\ rows' = rows /\ UNCHANGED pending /\ UNCHANGED catalog
        /\ Running' = Running /\ pc' # "replace"
    BY <1>8 DEF Shutdown, Running
  <2>2. QED
    BY <2>1, <1>3, NumbersKept
<1>9. QED
  BY <1>5, <1>6, <1>7, <1>8

(* A capture that is dropped takes no number, one that is kept takes the next. *)
LEMMA CapturedNumbers ==
    ASSUME TypeOK, NumbersInv, NEW c \in Captures, QueueCaptured(c),
           Running, pc # "replace", pc' = pc, sessions' = sessions
    PROVE  NumbersInv'
<1>r. Running' = Running
  BY DEF Running
<1>1. CASE DropStale(c) \/ DropExcluded(c)
  <2>1. UNCHANGED numbering
    BY <1>1 DEF DropStale, DropExcluded, numbering, pending
  <2>2. QED
    BY <2>1, <1>r, NumbersKept
<1>2. CASE StoreCaptured(c)
  <2> DEFINE s == SequencerFor(c)
             b == Redacts(c, ReasonsAfter(c, reasons))
             row == Row(s, Scrubbed(c), b)
  <2>1. sq' = Stamped(s, c.at) /\ PushEvent(row) /\ actions' = actions
    BY <1>2, Zenon DEF StoreCaptured
  <2>2. s \in Sequencers /\ s.session = sq.session /\ s.next = sq.next /\ s.last = sq.last
    <3>1. now \in Int /\ skew \in Int /\ sq \in Sequencers
      BY DEF TypeOK, ClocksOK, NumbersOK
    <3>2. Wall \in Int /\ Threshold \in Nat
      BY <3>1, WriterAssumption DEF Wall
    <3>3. QED
      BY <3>1, <3>2, ResyncedType DEF SequencerFor
  <2>3. Scrubbed(c) \in Captures /\ Scrubbed(c).at = c.at
    <3>1. [c EXCEPT !.prev = NoApp, !.dur = 0].at = c.at
      BY DEF Captures, CaptureFields
    <3>2. QED
      BY <3>1, ScrubbedType DEF Scrubbed
  <2>4. b \in BOOLEAN
    BY Zenon DEF Redacts
  <2>5. QED
    <3> HIDE DEF s, b
    <3>1. QED
      BY <2>1, <2>2, <2>3, <2>4, RowNumbered
<1>3. QED
  BY <1>1, <1>2 DEF QueueCaptured

(* An action that is dropped or behind a marker that is there takes no       *)
(* number; one that is kept, and a new marker, take the next.                *)
LEMMA ActionNumbers ==
    ASSUME TypeOK, NumbersInv, NEW a \in Captures, a.kind = "action",
           DropAction(a) \/ MarkGap(a) \/ StoreAction(a),
           Running, pc # "replace", pc' = pc, sessions' = sessions
    PROVE  NumbersInv'
<1>r. Running' = Running
  BY DEF Running
<1>s. sq \in Sequencers
  BY DEF TypeOK, NumbersOK
<1>1. CASE DropAction(a)
  <2>1. UNCHANGED numbering
    BY <1>1 DEF DropAction, numbering, pending
  <2>2. QED
    BY <2>1, <1>r, NumbersKept
<1>2. CASE MarkGap(a)
  <2> DEFINE g == [a EXCEPT !.kind = "gap", !.app = NoApp]
  <2>1. batch' = batch
    BY <1>2 DEF MarkGap
  <2>2. \/ UNCHANGED <<sq, actions, lost, rows>>
        \/ sq' = Stamped(sq, a.at) /\ PushAction(Row(sq, g, FALSE))
    BY <1>2, Zenon DEF MarkGap
  <2>3. g \in Captures
    BY GapType
  <2>4. g.at = a.at
    BY DEF Captures, CaptureFields
  <2>5. CASE UNCHANGED <<sq, actions, lost, rows>>
    <3>1. UNCHANGED numbering
      BY <2>1, <2>5 DEF numbering
    <3>2. QED
      BY <3>1, <1>r, NumbersKept
  <2>6. CASE sq' = Stamped(sq, a.at) /\ PushAction(Row(sq, g, FALSE))
    <3> HIDE DEF g
    <3>1. FALSE \in BOOLEAN /\ sq' = Stamped(sq, g.at)
      BY <2>4, <2>6
    <3>2. QED
      BY <1>s, <2>1, <2>3, <2>6, <3>1, RowNumbered
  <2>7. QED
    BY <2>2, <2>5, <2>6
<1>3. CASE StoreAction(a)
  <2>1. sq' = Stamped(sq, a.at) /\ PushAction(Row(sq, a, FALSE)) /\ batch' = batch
    BY <1>3 DEF StoreAction
  <2>2. FALSE \in BOOLEAN
    OBVIOUS
  <2>3. QED
    BY <1>s, <2>1, <2>2, RowNumbered
<1>4. QED
  BY <1>1, <1>2, <1>3

(* A process that starts goes on with a session of its own, whose numbers    *)
(* begin at one; the row it recovers belongs to an earlier session.          *)
LEMMA StartNumbers == TypeOK /\ NumbersInv /\ Start => NumbersInv'
<1> SUFFICES ASSUME TypeOK, NumbersInv, Start PROVE NumbersInv'
  OBVIOUS
<1>1. /\ batch' = {} /\ actions' = {} /\ lost' = {} /\ pc' = "loop" /\ Repair
      /\ sessions' = sessions + 1 /\ sq' = NewSequencer(sessions + 1, now, Wall)
  BY DEF Start, FreshMemory
<1>2. sessions \in Nat
  BY DEF TypeOK, CatalogOK
<1>3. sq'.session = sessions + 1 /\ sq'.next = 1
  BY <1>1 DEF NewSequencer
<1>4. \A r \in rows' : r.sess \in 1 .. sessions
  <2>1. \A r \in rows : r.sess \in 1 .. sessions
    BY DEF NumbersInv, RowsPlaced
  <2>2. CASE rows' = rows
    BY <2>1, <2>2
  <2>3. CASE focusRow # NoFocusRow /\ focusRow.sess \in (1 .. sessions) \ ended
    <3>1. PICK n : rows' = rows \cup {Recovered(n)}
      BY <1>1, <2>3, Zenon DEF Repair
    <3>2. Recovered(n).sess \in 1 .. sessions
      BY <2>3 DEF Recovered
    <3>3. QED
      BY <2>1, <3>1, <3>2
  <2>4. QED
    BY <1>1, <2>2, <2>3 DEF Repair
<1>5. \A r \in rows' : r.sess \in 1 .. sessions' /\ r.sess # sq'.session
  BY <1>1, <1>2, <1>3, <1>4
<1>6. Waiting' = {} /\ Held' = rows' /\ Stored' = {}
  BY <1>1, <1>5 DEF Waiting, Held, Stored, RowsOf
<1>7. RowsPlaced'
  BY <1>1, <1>5, <1>6 DEF RowsPlaced, Unique
<1>8. RowsGone'
  BY <1>1, <1>6 DEF RowsGone, Running
<1>9. LastIsLatest' /\ TimestampsFollowSeqs'
  BY <1>5, <1>6 DEF LastIsLatest, TimestampsFollowSeqs
<1>10. Accounted'
  BY <1>1, <1>3, <1>6 DEF Accounted, Account, Seqs
<1>11. QED
  BY <1>3, <1>7, <1>8, <1>9, <1>10 DEF NumbersInv

(* The replacement session numbers from one in an empty database. *)
LEMMA ReplaceNumbers == TypeOK /\ NumbersInv /\ Replace => NumbersInv'
<1> SUFFICES ASSUME TypeOK, NumbersInv, Replace PROVE NumbersInv'
  OBVIOUS
<1>1. /\ pc = "replace" /\ pc' = "reemit" /\ sessions' = 1
      /\ sq' = NewSequencer(1, now, Wall)
      /\ batch' = batch /\ actions' = actions /\ lost' = lost /\ rows' = rows
  BY DEF Replace, pending
<1>2. rows' = {} /\ Waiting' = {} /\ lost' = {} /\ Held' = {} /\ Stored' = {}
  BY <1>1 DEF NumbersInv, RowsGone, Waiting, Held, Stored, RowsOf
<1>3. sq'.session = 1 /\ sq'.next = 1
  BY <1>1 DEF NewSequencer
<1>4. RowsPlaced'
  BY <1>2 DEF RowsPlaced, Unique, Waiting
<1>5. RowsGone'
  BY <1>1, <1>2 DEF RowsGone, Running
<1>6. LastIsLatest' /\ TimestampsFollowSeqs'
  BY <1>2 DEF LastIsLatest, TimestampsFollowSeqs
<1>7. Accounted'
  BY <1>2, <1>3 DEF Accounted, Account, Seqs
<1>8. QED
  BY <1>3, <1>4, <1>5, <1>6, <1>7 DEF NumbersInv

(* The committed delete of an erase or an archive empties everything. *)
LEMMA ResetNumbers == TypeOK /\ NumbersInv /\ Reset => NumbersInv'
<1> SUFFICES ASSUME TypeOK, NumbersInv, Reset PROVE NumbersInv'
  OBVIOUS
<1>1. Running /\ sq' = sq
  BY DEF Reset, Drained, Running
<1>2. \/ FlushAll /\ Done /\ sessions' = sessions
      \/ /\ rows' = {} /\ sessions' = 0
         /\ batch' = {} /\ actions' = {} /\ lost' = {} /\ pc' = "replace"
  BY Zenon DEF Reset, catalog
<1>3. CASE FlushAll /\ Done /\ sessions' = sessions
  <2>1. pc' # "replace"
    BY <1>3 DEF Done
  <2>2. QED
    BY <1>1, <1>3, <2>1, FlushedNumbers
<1>4. CASE /\ rows' = {} /\ sessions' = 0
           /\ batch' = {} /\ actions' = {} /\ lost' = {} /\ pc' = "replace"
  <2>1. Waiting' = {} /\ Held' = {} /\ Stored' = {}
    BY <1>4 DEF Waiting, Held, Stored, RowsOf
  <2>2. RowsPlaced'
    BY <1>4, <2>1 DEF RowsPlaced, Unique
  <2>3. RowsGone'
    BY <1>4, <2>1 DEF RowsGone
  <2>4. LastIsLatest' /\ TimestampsFollowSeqs'
    BY <2>1 DEF LastIsLatest, TimestampsFollowSeqs
  <2>5. Accounted'
    BY <1>4 DEF Accounted
  <2>6. QED
    BY <1>1, <2>2, <2>3, <2>4, <2>5 DEF NumbersInv
<1>5. QED
  BY <1>2, <1>3, <1>4

(* Every step of the writer, its producers and its crashes preserves the account*)
(* of the numbers.                                                           *)
LEMMA NumbersStep == TypeOK /\ NumbersInv /\ [Next]_vars => NumbersInv'
<1> SUFFICES ASSUME TypeOK, NumbersInv, [Next]_vars PROVE NumbersInv'
  OBVIOUS
<1>k. ASSUME sq' = sq, rows' = rows, UNCHANGED pending, UNCHANGED catalog
      PROVE  UNCHANGED numbering
  BY <1>k DEF numbering, pending, catalog
<1>1. CASE TakeInput
  <2>1. /\ pc \in {"loop", "drain", "shutdown"} /\ rx # <<>> /\ Queue(Head(rx))
        /\ pc' = pc /\ UNCHANGED catalog
    BY <1>1 DEF TakeInput
  <2>2. Running /\ pc # "replace" /\ sessions' = sessions
    BY <2>1 DEF Running, catalog
  <2>3. Head(rx) \in Captures
    BY <2>1, HeadTailProperties DEF TypeOK, ChannelsOK
  <2>4. CASE Head(rx).kind = "action"
    BY <2>1, <2>2, <2>3, <2>4, ActionNumbers DEF Queue
  <2>5. CASE Head(rx).kind # "action"
    BY <2>1, <2>2, <2>3, <2>5, CapturedNumbers DEF Queue
  <2>6. QED
    BY <2>4, <2>5
<1>2. CASE FlushTick \/ FinishStop \/ Stop
  <2>1. FlushAll /\ sq' = sq /\ sessions' = sessions
    BY <1>2 DEF FlushTick, FinishStop, Stop, catalog
  <2>2. Running /\ pc' # "replace"
    BY <1>2 DEF FlushTick, FinishStop, Stop, Drained, Done, Running
  <2>3. QED
    BY <2>1, <2>2, FlushedNumbers
<1>3. CASE Heartbeat
  <2>1. /\ sq' = Resynced(sq, now, Wall, Threshold) /\ pc' = pc
        /\ UNCHANGED pending /\ UNCHANGED catalog /\ rows' = rows
    BY <1>3 DEF Heartbeat
  <2>2. /\ batch' = batch /\ actions' = actions /\ lost' = lost /\ rows' = rows
        /\ sessions' = sessions
    BY <2>1 DEF pending, catalog
  <2>3. now \in Int /\ Wall \in Int /\ Threshold \in Nat /\ sq \in Sequencers
    BY WriterAssumption DEF TypeOK, ClocksOK, NumbersOK, Wall
  <2>4. sq'.session = sq.session /\ sq'.next = sq.next /\ sq'.last = sq.last
    BY <2>1, <2>3, ResyncedType
  <2>5. Waiting' = Waiting /\ Stored' = Stored /\ Held' = Held /\ Running' = Running
    BY <2>1, <2>2, <2>4 DEF Waiting, Stored, RowsOf, Held, Running
  <2>6. RowsPlaced' /\ LastIsLatest' /\ TimestampsFollowSeqs' /\ Accounted'
    BY <2>2, <2>4, <2>5, Zenon
       DEF NumbersInv, RowsPlaced, LastIsLatest, TimestampsFollowSeqs, Accounted, Unique, Account
  <2>7. RowsGone'
    BY <2>1, <2>2, <2>5, Zenon DEF NumbersInv, RowsGone
  <2>8. QED
    BY <2>4, <2>6, <2>7 DEF NumbersInv
<1>4. CASE \/ BeatOpenFocus \/ RefusePrivacy \/ PauseRecording \/ ResumeRecording
           \/ StartRecording
  <2>1. UNCHANGED numbering
    BY <1>4 DEF BeatOpenFocus, RefusePrivacy, PauseRecording, ResumeRecording,
       StartRecording, numbering, pending, catalog
  <2>2. pc' = pc /\ Running' = Running
    BY <1>4 DEF BeatOpenFocus, RefusePrivacy, PauseRecording, ResumeRecording,
       StartRecording, Running
  <2>3. QED
    BY <2>1, <2>2, NumbersKept
<1>5. CASE BeginDrain \/ FinishForget \/ ReplaceFails
  <2>1. sq' = sq /\ rows' = rows /\ UNCHANGED pending /\ UNCHANGED catalog
    BY <1>5 DEF BeginDrain, FinishForget, ReplaceFails
  <2>2. Running' = Running /\ pc' # "replace"
    BY <1>5 DEF BeginDrain, FinishForget, ReplaceFails, Next1, Drained, Done, Running
  <2>3. QED
    BY <2>1, <2>2, <1>k, NumbersKept
<1>6. CASE Reemit
  <2>1. pc = "reemit" /\ UNCHANGED catalog /\ sessions' = sessions
    BY <1>6 DEF Reemit, catalog
  <2>2. CASE Done /\ sq' = sq /\ UNCHANGED pending /\ rows' = rows
    <3>1. Running' = Running /\ pc' # "replace"
      BY <2>1, <2>2 DEF Done, Running
    <3>2. QED
      BY <2>1, <2>2, <3>1, <1>k, NumbersKept
  <2>3. CASE \E r \in todo :
                /\ QueueCaptured([Capture("entered", NoApp) EXCEPT
                                     !.reason = r, !.at = cmd.at, !.dark = FALSE])
                /\ pc' = pc
    <3>1. PICK r \in todo :
             /\ QueueCaptured([Capture("entered", NoApp) EXCEPT
                                  !.reason = r, !.at = cmd.at, !.dark = FALSE])
             /\ pc' = pc
      BY <2>3
    <3>2. [Capture("entered", NoApp) EXCEPT !.reason = r, !.at = cmd.at, !.dark = FALSE]
             \in Captures
      BY ReemittedType
    <3>3. Running /\ pc # "replace"
      BY <2>1 DEF Running
    <3>4. QED
      BY <2>1, <3>1, <3>2, <3>3, CapturedNumbers
  <2>4. QED
    BY <1>6, <2>2, <2>3, Zenon DEF Reemit
<1>7. CASE Crash
  <2>1. /\ batch' = {} /\ actions' = {} /\ pc' = "down" /\ sq' = sq /\ rows' = rows
        /\ sessions' = sessions
    BY <1>7 DEF Crash, FreshMemory, catalog
  <2>2. Waiting' = {} /\ Held' \subseteq Held
    BY <2>1 DEF Waiting, Held
  <2>3. RowsPlaced'
    BY <2>1, <2>2 DEF NumbersInv, RowsPlaced, Unique
  <2>4. LastIsLatest' /\ TimestampsFollowSeqs'
    BY <2>1, <2>2, Zenon DEF NumbersInv, LastIsLatest, TimestampsFollowSeqs
  <2>5. RowsGone' /\ Accounted'
    BY <2>1, <2>2 DEF RowsGone, Accounted, Running
  <2>6. QED
    BY <2>1, <2>3, <2>4, <2>5 DEF NumbersInv
<1>8. CASE UNCHANGED vars
  <2>1. sq' = sq /\ rows' = rows /\ UNCHANGED pending /\ UNCHANGED catalog /\ pc' = pc
    BY <1>8 DEF vars
  <2>2. QED
    BY <2>1, <1>k, NumbersKept DEF Running
<1>9. QED
  BY <1>1, <1>2, <1>3, <1>4, <1>5, <1>6, <1>7, <1>8, ProducersNumbers, StartNumbers,
     ReplaceNumbers, ResetNumbers, Zenon DEF Next

(* The account of the numbers holds throughout. *)
LEMMA NumbersInvariant == Spec => []NumbersInv
<1>1. Init => NumbersInv
  <2> SUFFICES ASSUME Init PROVE NumbersInv
    OBVIOUS
  <2>1. /\ rows = {} /\ Waiting = {} /\ lost = {} /\ Held = {} /\ Stored = {}
        /\ batch = {} /\ pc = "loop" /\ sq.next = 1
    BY DEF Init, Waiting, Held, Stored, RowsOf, NewSequencer
  <2>2. RowsPlaced /\ RowsGone
    BY <2>1 DEF RowsPlaced, RowsGone, Unique, Running
  <2>3. LastIsLatest /\ TimestampsFollowSeqs
    BY <2>1 DEF LastIsLatest, TimestampsFollowSeqs
  <2>4. Accounted
    BY <2>1 DEF Accounted, Account, Seqs
  <2>5. QED
    BY <2>1, <2>2, <2>3, <2>4 DEF NumbersInv
<1>2. TypeOK /\ NumbersInv /\ [Next]_vars => NumbersInv'
  BY NumbersStep
<1>3. QED
  BY <1>1, <1>2, WriterTypeCorrect, PTL DEF Spec
-----------------------------------------------------------------------------
(***************************************************************************)
(* One number, one row.  Every number the sequencer of the session under    *)
(* way has given out is that of one row, an event or an action, stored or   *)
(* pending, or is counted by the writer's skip counters: after drops at     *)
(* the exclusion boundary, failed commits, stops, erases and restarts.      *)
(***************************************************************************)
THEOREM EveryNumberAccounted == Spec => []SeqsAccounted
<1>1. NumbersInv => SeqsAccounted
  <2> SUFFICES ASSUME NumbersInv, Running, sq.session \in 1 .. sessions
               PROVE  LET stored == Seqs(RowsOf(sq.session))
                      IN  /\ 1 .. sq.next - 1 = stored \cup Seqs(batch) \cup Seqs(actions) \cup lost
                          /\ stored \cap (Seqs(batch) \cup Seqs(actions) \cup lost) = {}
                          /\ Seqs(batch) \cap Seqs(actions) = {}
                          /\ lost \cap Seqs(batch \cup actions) = {}
    BY DEF SeqsAccounted
  <2>1. Account(1 .. sq.next - 1, Seqs(RowsOf(sq.session)), batch \cup actions, lost)
    BY DEF NumbersInv, Accounted, Stored, Waiting
  <2>2. Seqs(batch \cup actions) = Seqs(batch) \cup Seqs(actions)
    BY SeqsOfParts
  <2>3. Seqs(batch) \cap Seqs(actions) = {}
    BY DEF NumbersInv, RowsPlaced, Unique, Waiting, Seqs
  <2> DEFINE N == 1 .. sq.next - 1
             S == Seqs(RowsOf(sq.session))
             E == Seqs(batch)
             A == Seqs(actions)
             W == Seqs(batch \cup actions)
  <2>4. /\ N = S \cup W \cup lost /\ S \cap (W \cup lost) = {} /\ lost \cap W = {}
        /\ W = E \cup A /\ E \cap A = {}
    BY <2>1, <2>2, <2>3 DEF Account
  <2> HIDE DEF N, S, E, A, W
  <2>5. /\ N = S \cup E \cup A \cup lost /\ S \cap (E \cup A \cup lost) = {}
        /\ E \cap A = {} /\ lost \cap W = {}
    BY <2>4
  <2>6. QED
    BY <2>5 DEF N, S, E, A, W
<1>2. QED
  BY <1>1, NumbersInvariant, PTL

(***************************************************************************)
(* The clamp of Sequencer::stamp: in the session under way a row of a       *)
(* higher number, event or action, never has an earlier timestamp, however  *)
(* the wall clock moves, the base is resynchronised and captures are late.  *)
(***************************************************************************)
THEOREM TimestampsInOrder == Spec => []TimestampsFollowSeqs
<1>1. NumbersInv => TimestampsFollowSeqs
  BY DEF NumbersInv
<1>2. QED
  BY <1>1, NumbersInvariant, PTL
-----------------------------------------------------------------------------
(* A marker whose number is the last one given out stands for the run of      *)
(* excluded actions that is still open.                                      *)
LastMarkerOpen ==
    Running => \A r \in Held : r.cap.kind = "gap" /\ r.sess = sq.session /\ r.seq + 1 = sq.next
                                  => gapOpen

MarkersInv == GapMarkersApart /\ LastMarkerOpen

(* Where nothing is added and neither the numbers nor the run change. *)
LEMMA MarkersKept ==
    ASSUME MarkersInv, Running' => Running, Held' \subseteq Held,
           Running' => sq'.session = sq.session /\ sq'.next = sq.next /\ (gapOpen => gapOpen')
    PROVE  MarkersInv'
<1>1. GapMarkersApart'
  BY DEF MarkersInv, GapMarkersApart
<1>2. LastMarkerOpen'
  BY DEF MarkersInv, LastMarkerOpen
<1>3. QED
  BY <1>1, <1>2 DEF MarkersInv

(* A row that takes a number follows no marker, unless it is none itself. *)
LEMMA MarkersNumbered ==
    ASSUME TypeOK, NumbersInv, MarkersInv, Running, NEW row, Held' \subseteq Held \cup {row},
           row.sess = sq.session, row.seq = sq.next,
           sq'.session = sq.session, sq'.next = sq.next + 1,
           row.cap.kind = "gap" => ~gapOpen /\ gapOpen'
    PROVE  MarkersInv'
<1>1. /\ sq.next \in Nat /\ rows \subseteq Rows /\ batch \subseteq Rows /\ actions \subseteq Rows
  BY DEF TypeOK, NumbersOK, BatchesOK, Sequencers
<1>2. \A r \in Held : r.seq \in Nat /\ (r.sess = sq.session => r.seq < sq.next)
  BY <1>1 DEF NumbersInv, RowsPlaced, Waiting, Held, Rows
<1>3. LastMarkerOpen'
  <2> SUFFICES ASSUME NEW r \in Held', r.cap.kind = "gap", r.sess = sq.session,
                      r.seq + 1 = sq.next + 1
               PROVE  gapOpen'
    BY DEF LastMarkerOpen
  <2>1. r \notin Held
    BY <1>1, <1>2
  <2>2. QED
    BY <2>1
<1>4. GapMarkersApart'
  <2> SUFFICES ASSUME NEW r \in Held', NEW s \in Held', r.cap.kind = "gap", s.cap.kind = "gap",
                      r.sess = s.sess, s.seq = r.seq + 1
               PROVE  FALSE
    BY DEF GapMarkersApart
  <2>1. CASE r \in Held /\ s \in Held
    BY <2>1 DEF MarkersInv, GapMarkersApart
  <2>2. CASE r \notin Held
    BY <2>2, <1>1, <1>2
  <2>3. CASE r \in Held /\ s \notin Held
    BY <2>3, <1>1, <1>2 DEF MarkersInv, LastMarkerOpen
  <2>4. QED
    BY <2>1, <2>2, <2>3
<1>5. QED
  BY <1>3, <1>4 DEF MarkersInv

(* A capture ends no run without a number, and is no marker. *)
LEMMA CapturedMarkers ==
    ASSUME TypeOK, NumbersInv, MarkersInv, Running, pc' = pc \/ Running' = Running,
           NEW c \in Captures, c.kind # "gap", QueueCaptured(c)
    PROVE  MarkersInv'
<1>r. sq \in Sequencers /\ c.at \in Int
  BY DEF TypeOK, NumbersOK, Captures, CaptureFields
<1>s. SequencerFor(c) \in Sequencers /\ SequencerFor(c).session = sq.session
      /\ SequencerFor(c).next = sq.next
  <2>1. now \in Int /\ skew \in Int
    BY DEF TypeOK, ClocksOK
  <2>2. Wall \in Int /\ Threshold \in Nat
    BY <2>1, WriterAssumption DEF Wall
  <2>3. QED
    BY <1>r, <2>1, <2>2, ResyncedType DEF SequencerFor
<1>1. CASE sq' = sq /\ gapOpen' = gapOpen /\ UNCHANGED pending /\ rows' = rows
  <2>1. Held' = Held
    BY <1>1 DEF pending, Held
  <2>2. QED
    BY <1>1, <2>1, MarkersKept
<1>2. CASE sq' = Stamped(SequencerFor(c), c.at) /\ Held' \subseteq Held \cup {CapturedRow(c)}
  <2>1. sq'.session = sq.session /\ sq'.next = sq.next + 1
    BY <1>2, <1>r, <1>s, StampedType
  <2>2. CapturedRow(c).sess = sq.session /\ CapturedRow(c).seq = sq.next
    BY <1>s DEF CapturedRow, Row
  <2>3. Scrubbed(c).kind = c.kind
    BY DEF Scrubbed, Captures, CaptureFields
  <2>4. CapturedRow(c).cap.kind # "gap"
    BY <2>3 DEF CapturedRow, Row
  <2>5. QED
    BY <1>2, <2>1, <2>2, <2>4, MarkersNumbered
<1>3. QED
  BY <1>1, <1>2, CapturedHeld

(* An excluded action leaves a marker when no run is open, and opens one. *)
LEMMA ActionMarkers ==
    ASSUME TypeOK, NumbersInv, MarkersInv, Running, Running' = Running,
           NEW a \in Captures, a.kind = "action",
           DropAction(a) \/ MarkGap(a) \/ StoreAction(a)
    PROVE  MarkersInv'
<1>r. sq \in Sequencers /\ a.at \in Int
  BY DEF TypeOK, NumbersOK, Captures, CaptureFields
<1>s. Stamped(sq, a.at).session = sq.session /\ Stamped(sq, a.at).next = sq.next + 1
  BY <1>r, StampedType
<1>1. CASE DropAction(a)
  <2>1. sq' = sq /\ gapOpen' = gapOpen /\ Held' = Held
    BY <1>1 DEF DropAction, pending, record, Held
  <2>2. QED
    BY <2>1, MarkersKept
<1>2. CASE MarkGap(a)
  <2> DEFINE g == [a EXCEPT !.kind = "gap", !.app = NoApp]
  <2>1. /\ gapOpen' = TRUE /\ batch' = batch
        /\ \/ UNCHANGED <<sq, actions, lost, rows>>
           \/ ~gapOpen /\ sq' = Stamped(sq, a.at) /\ PushAction(Row(sq, g, FALSE))
    BY <1>2, Zenon DEF MarkGap
  <2>2. CASE UNCHANGED <<sq, actions, lost, rows>>
    <3>1. sq' = sq /\ Held' = Held
      BY <2>1, <2>2 DEF Held
    <3>2. QED
      BY <2>1, <3>1, MarkersKept
  <2>3. CASE ~gapOpen /\ sq' = Stamped(sq, a.at) /\ PushAction(Row(sq, g, FALSE))
    <3> DEFINE row == Row(sq, g, FALSE)
    <3>1. row.sess = sq.session /\ row.seq = sq.next
      BY DEF Row
    <3> HIDE DEF row
    <3>2. Held' \subseteq Held \cup {row}
      BY <2>1, <2>3, RowPushed DEF row
    <3>3. QED
      BY <1>s, <2>1, <2>3, <3>1, <3>2, MarkersNumbered
  <2>4. QED
    BY <2>1, <2>2, <2>3
<1>3. CASE StoreAction(a)
  <2> DEFINE row == Row(sq, a, FALSE)
  <2>1. sq' = Stamped(sq, a.at) /\ PushAction(row) /\ batch' = batch
    BY <1>3 DEF StoreAction
  <2>2. row.sess = sq.session /\ row.seq = sq.next /\ row.cap.kind # "gap"
    BY DEF Row
  <2> HIDE DEF row
  <2>3. Held' \subseteq Held \cup {row}
    BY <2>1, RowPushed
  <2>4. QED
    BY <1>s, <2>1, <2>2, <2>3, MarkersNumbered
<1>4. QED
  BY <1>1, <1>2, <1>3

LEMMA MarkersStep == TypeOK /\ Apart /\ NumbersInv /\ MarkersInv /\ [Next]_vars => MarkersInv'
<1> SUFFICES ASSUME TypeOK, Apart, NumbersInv, MarkersInv, [Next]_vars PROVE MarkersInv'
  OBVIOUS
<1>1. CASE TakeInput
  <2> DEFINE c == Head(rx)
  <2>1. rx # <<>> /\ Queue(c) /\ pc \in {"loop", "drain", "shutdown"} /\ pc' = pc
    BY <1>1 DEF TakeInput
  <2>2. c \in Events \cup Acts
    BY <2>1 DEF Apart
  <2> HIDE DEF c
  <2>3. Running /\ Running' = Running
    BY <2>1 DEF Running
  <2>4. CASE c \in Acts
    <3>1. c \in Captures /\ c.kind = "action"
      BY <2>4 DEF Acts
    <3>2. QED
      BY <2>1, <2>3, <3>1, ActionMarkers DEF Queue
  <2>5. CASE c \in Events
    <3>1. c \in Captures /\ c.kind \notin {"action", "gap"}
      BY <2>5 DEF Events, Captures
    <3>2. QED
      BY <2>1, <2>3, <3>1, CapturedMarkers DEF Queue
  <2>6. QED
    BY <2>2, <2>4, <2>5
<1>2. CASE Reemit
  <2>1. pc = "reemit" /\ pc' \in {"reemit", "loop"}
    BY <1>2, Zenon DEF Reemit, Done
  <2>2. Running /\ Running' = Running
    BY <2>1 DEF Running
  <2>3. \/ sq' = sq /\ UNCHANGED pending /\ UNCHANGED record /\ rows' = rows
        \/ \E r \in todo : QueueCaptured([Capture("entered", NoApp) EXCEPT
                                             !.reason = r, !.at = cmd.at, !.dark = FALSE])
    BY <1>2, Zenon DEF Reemit
  <2>4. CASE sq' = sq /\ UNCHANGED pending /\ UNCHANGED record /\ rows' = rows
    <3>1. Held' = Held /\ gapOpen' = gapOpen
      BY <2>4 DEF pending, record, Held
    <3>2. QED
      BY <2>2, <2>4, <3>1, MarkersKept
  <2>5. ASSUME NEW r \in todo, QueueCaptured([Capture("entered", NoApp) EXCEPT
                                                 !.reason = r, !.at = cmd.at, !.dark = FALSE])
        PROVE  MarkersInv'
    <3> DEFINE c == [Capture("entered", NoApp) EXCEPT !.reason = r, !.at = cmd.at, !.dark = FALSE]
    <3>1. c \in Captures
      BY ReemittedType
    <3>2. c.kind # "gap"
      BY DEF Capture
    <3> HIDE DEF c
    <3>3. QED
      BY <2>2, <2>5, <3>1, <3>2, CapturedMarkers DEF c
  <2>6. QED
    BY <2>3, <2>4, <2>5
<1>3. CASE Start
  <2>1. /\ batch' = {} /\ actions' = {}
        /\ sq' = NewSequencer(sessions + 1, now, Wall)
    BY <1>3 DEF Start, FreshMemory
  <2>2. Held' = rows' /\ (rows' = rows \/ \E n : rows' = rows \cup {Recovered(n)})
    BY <2>1, <1>3, StartGains DEF Held
  <2>3. \A n : Recovered(n).cap.kind = "focus"
    BY DEF Recovered
  <2>4. \A r \in Held' : r.cap.kind = "gap" => r \in Held /\ r \in rows
    BY <2>2, <2>3 DEF Held
  <2>5. GapMarkersApart'
    BY <2>4 DEF MarkersInv, GapMarkersApart
  <2>6. sq'.session = sessions + 1 /\ sessions \in Nat
    BY <2>1 DEF NewSequencer, TypeOK, CatalogOK
  <2>7. \A r \in rows : r.sess \in 1 .. sessions
    BY DEF NumbersInv, RowsPlaced
  <2>8. LastMarkerOpen'
    BY <2>4, <2>6, <2>7 DEF LastMarkerOpen
  <2>9. QED
    BY <2>5, <2>8 DEF MarkersInv
<1>4. CASE Reset \/ Replace
  <2>1. CASE Held' = {}
    BY <2>1 DEF MarkersInv, GapMarkersApart, LastMarkerOpen
  <2>2. Replace => Held' = {}
    BY DEF Replace, NumbersInv, RowsGone, Waiting, Held, pending
  <2>3. CASE Reset
    <3>1. /\ sq' = sq /\ gapOpen' = gapOpen /\ Running
          /\ FlushAll \/ (rows' = {} /\ batch' = {} /\ actions' = {})
      BY <2>3, Zenon DEF Reset, Drained, Running
    <3>2. CASE FlushAll
      <4>1. Held' \subseteq Held
        BY <2>3, NothingGained DEF Reset, TakeInput, Reemit, Start, Drained, Running, FreshMemory
      <4>2. QED
        BY <3>1, <4>1, MarkersKept
    <3>3. QED
      BY <3>1, <3>2, <2>1 DEF Held
  <2>4. QED
    BY <1>4, <2>1, <2>2, <2>3
<1>5. CASE Crash
  <2>1. Held' \subseteq Held /\ ~Running'
    BY <1>5 DEF Crash, FreshMemory, Held, Running
  <2>2. QED
    BY <2>1, MarkersKept
<1>6. CASE Heartbeat
  <2>1. sq' = Resynced(sq, now, Wall, Threshold) /\ gapOpen' = gapOpen /\ pc' = pc /\ Held' = Held
    BY <1>6 DEF Heartbeat, record, pending, Held
  <2>2. now \in Int /\ Wall \in Int /\ Threshold \in Nat /\ sq \in Sequencers
    BY WriterAssumption DEF TypeOK, ClocksOK, NumbersOK, Wall
  <2>3. sq'.session = sq.session /\ sq'.next = sq.next
    BY <2>1, <2>2, ResyncedType
  <2>4. QED
    BY <2>1, <2>3, MarkersKept DEF Running
<1>7. CASE FlushTick \/ FinishStop \/ Stop
  <2>1. /\ FlushAll /\ sq' = sq /\ gapOpen' = gapOpen /\ Running
    BY <1>7 DEF FlushTick, FinishStop, Stop, record, Drained, Running
  <2>2. Held' \subseteq Held
    BY <2>1, FlushAllMoves DEF Moves, Held, Waiting
  <2>3. QED
    BY <2>1, <2>2, MarkersKept
<1>8. ASSUME sq' = sq, gapOpen' = gapOpen, UNCHANGED pending, rows' = rows, Running' => Running
      PROVE  MarkersInv'
  <2>1. Held' = Held
    BY <1>8 DEF pending, Held
  <2>2. QED
    BY <2>1, <1>8, MarkersKept
<1>9. CASE \/ (\E app \in App : FocusTo(app))
           \/ FocusClosed \/ PlainCapture \/ CutCapture
           \/ (\E r \in Reason : SensitiveBoundary(r))
           \/ ResumeCapture \/ Tick \/ WallStep \/ CloseGate \/ OpenGate \/ PanicArm
           \/ WorkerStarts \/ WorkerStops
  <2>1. UNCHANGED writerVars
    BY <1>9 DEF FocusTo, FocusClosed, PlainCapture, CutCapture, SensitiveBoundary,
       ResumeCapture, Tick, WallStep, CloseGate, OpenGate, PanicArm, WorkerStarts, WorkerStops
  <2>2. QED
    BY <2>1, <1>8 DEF writerVars, record, Running
<1>10. CASE SendForget \/ RecordCommand \/ PanicStop \/ PrivacyCommand
  <2>1. UNCHANGED restOfWriter
    BY <1>10 DEF SendForget, RecordCommand, PanicStop, PrivacyCommand
  <2>2. QED
    BY <2>1, <1>8 DEF restOfWriter, record, Running
<1>11. CASE \/ Forward \/ (\E app \in App \cup {NoApp} : ActionCaptured(app))
            \/ BeatOpenFocus \/ StartRecording \/ PauseRecording \/ ResumeRecording
            \/ RefusePrivacy
  <2>1. sq' = sq /\ gapOpen' = gapOpen /\ UNCHANGED pending /\ rows' = rows /\ pc' = pc
    BY <1>11 DEF Forward, ActionCaptured, BeatOpenFocus, StartRecording, PauseRecording,
       ResumeRecording, RefusePrivacy, record
  <2>2. QED
    BY <2>1, <1>8 DEF Running
<1>12. CASE Shutdown \/ BeginDrain \/ FinishForget \/ ReplaceFails
  <2>1. sq' = sq /\ gapOpen' = gapOpen /\ UNCHANGED pending /\ rows' = rows
    BY <1>12 DEF Shutdown, BeginDrain, FinishForget, ReplaceFails, record
  <2>2. Running
    BY <1>12 DEF Shutdown, BeginDrain, FinishForget, ReplaceFails, Next1, Drained, Running
  <2>3. QED
    BY <2>1, <2>2, <1>8
<1>13. CASE UNCHANGED vars
  BY <1>13, <1>8 DEF vars, record, Running
<1>14. QED
  BY <1>1, <1>2, <1>3, <1>4, <1>5, <1>6, <1>7, <1>9, <1>10, <1>11, <1>12, <1>13, Zenon DEF Next

(***************************************************************************)
(* queue_action writes one marker for a run of excluded actions: no marker   *)
(* has the number after another's.  The flag that says a run is open is      *)
(* lowered only where a row takes a number, although the policy lowers it    *)
(* before it is known whether the row is kept, and a flush, a failed commit   *)
(* or an erase may take the marker away meanwhile.                           *)
(***************************************************************************)
THEOREM MarkersApart == Spec => []GapMarkersApart
<1>1. Init => MarkersInv
  BY DEF Init, MarkersInv, GapMarkersApart, LastMarkerOpen, Held
<1>2. TypeOK /\ Apart /\ NumbersInv /\ MarkersInv /\ [Next]_vars => MarkersInv'
  BY MarkersStep
<1>3. MarkersInv => GapMarkersApart
  BY DEF MarkersInv
<1>4. QED
  BY <1>1, <1>2, <1>3, WriterTypeCorrect, ActionsApart, NumbersInvariant, PTL DEF Spec
-----------------------------------------------------------------------------
(***************************************************************************)
(* Sessions that ended.                                                    *)
(***************************************************************************)
(* The session the writer numbers for has not ended, and an erase leaves    *)
(* none that has.                                                          *)
LiveSession ==
    /\ Running => sq.session \notin ended
    /\ pc = "replace" => ended = {}

(* Turns that leave rows alone, or commit some of those that wait. *)
RowsStay == rows \subseteq rows' /\ rows' \subseteq rows \cup Waiting

LEMMA FlushStays ==
    ASSUME FlushAll PROVE RowsStay
<1>1. PICK okE, okA : rows' = rows \cup (CommitOf(batch, okE) \cup CommitOf(actions, okA))
  BY Zenon DEF FlushAll
<1>2. QED
  BY <1>1 DEF CommitOf, RowsStay, Waiting

(* A push stores rows that waited, or the one that is pushed. *)
LEMMA PushStays ==
    ASSUME NEW row, PushEvent(row) \/ PushAction(row)
    PROVE  rows \subseteq rows' /\ rows' \subseteq rows \cup Waiting \cup {row}
<1>1. \/ rows' = rows
      \/ \E ok : rows' = rows \cup CommitOf(batch \cup {row}, ok)
      \/ \E ok : rows' = rows \cup CommitOf(actions \cup {row}, ok)
  BY Zenon DEF PushEvent, PushAction
<1>2. \A R, ok : CommitOf(R, ok) \subseteq R
  BY DEF CommitOf
<1>3. QED
  BY <1>1, <1>2 DEF Waiting

(* So what a captured input adds to the database is of the session under    *)
(* way, whichever way it goes.                                             *)
LEMMA CapturedStays ==
    ASSUME NEW c, TypeOK, QueueCaptured(c)
    PROVE  /\ sq'.session = sq.session /\ rows \subseteq rows'
           /\ \A r \in rows' \ rows : r \in Waiting \/ r.sess = sq.session
<1>1. CASE DropStale(c) \/ DropExcluded(c)
  BY <1>1 DEF DropStale, DropExcluded
<1>2. CASE StoreCaptured(c)
  <2>1. now \in Int /\ Wall \in Int /\ Threshold \in Nat /\ sq \in Sequencers
    BY WriterAssumption DEF TypeOK, ClocksOK, NumbersOK, Wall
  <2>2. SequencerFor(c) \in Sequencers /\ SequencerFor(c).session = sq.session
    BY <2>1, ResyncedType DEF SequencerFor
  <2>3. sq' = Stamped(SequencerFor(c), c.at) /\ PushEvent(CapturedRow(c))
    BY <1>2, Zenon DEF StoreCaptured, CapturedRow
  <2>4. sq'.session = sq.session /\ CapturedRow(c).sess = sq.session
    BY <2>2, <2>3 DEF Stamped, CapturedRow, Row, Sequencers
  <2>5. QED
    BY <2>3, <2>4, PushStays
<1>3. QED
  BY <1>1, <1>2 DEF QueueCaptured

LEMMA ActionStays ==
    ASSUME NEW a, TypeOK, DropAction(a) \/ MarkGap(a) \/ StoreAction(a)
    PROVE  /\ sq'.session = sq.session /\ rows \subseteq rows'
           /\ \A r \in rows' \ rows : r \in Waiting \/ r.sess = sq.session
<1>1. CASE rows' = rows /\ sq' = sq
  BY <1>1
<1>2. ASSUME NEW m, PushAction(Row(sq, m, FALSE)), sq' = Stamped(sq, a.at)
      PROVE  /\ sq'.session = sq.session /\ rows \subseteq rows'
             /\ \A r \in rows' \ rows : r \in Waiting \/ r.sess = sq.session
  <2>1. sq'.session = sq.session
    BY <1>2 DEF Stamped, TypeOK, NumbersOK, Sequencers
  <2>2. Row(sq, m, FALSE).sess = sq.session
    BY DEF Row
  <2>3. rows \subseteq rows' /\ rows' \subseteq rows \cup Waiting \cup {Row(sq, m, FALSE)}
    BY <1>2, PushStays, Zenon
  <2>4. QED
    BY <2>1, <2>2, <2>3
<1>3. CASE DropAction(a)
  BY <1>3, <1>1 DEF DropAction
<1>4. CASE MarkGap(a)
  <2>1. \/ rows' = rows /\ sq' = sq
        \/ sq' = Stamped(sq, a.at) /\ PushAction(Row(sq, [a EXCEPT !.kind = "gap", !.app = NoApp], FALSE))
    BY <1>4, Zenon DEF MarkGap
  <2>2. QED
    BY <2>1, <1>1, <1>2
<1>5. CASE StoreAction(a)
  <2>1. sq' = Stamped(sq, a.at) /\ PushAction(Row(sq, a, FALSE))
    BY <1>5, Zenon DEF StoreAction
  <2>2. QED
    BY <2>1, <1>2
<1>6. QED
  BY <1>3, <1>4, <1>5

(* What any step does to the rows of the database. *)
LEMMA RowsAdded ==
    ASSUME TypeOK, [Next]_vars
    PROVE  \/ sessions' = 0
           \/ Start
           \/ RowsStay /\ (Running \/ rows' = rows)
           \/ /\ Running /\ rows \subseteq rows'
              /\ \A r \in rows' \ rows : r \in Waiting \/ r.sess = sq.session
<1>1. CASE rows' = rows
  BY <1>1 DEF RowsStay
<1>2. CASE FlushAll /\ Running
  BY <1>2, FlushStays
<1>3. CASE TakeInput
  <2>1. Queue(Head(rx)) /\ Running
    BY <1>3 DEF TakeInput, Running
  <2>2. QED
    BY <2>1, CapturedStays, ActionStays DEF Queue
<1>4. CASE Reemit
  <2>1. Running
    BY <1>4 DEF Reemit, Running
  <2>2. \/ rows' = rows
        \/ \E r \in todo : QueueCaptured([Capture("entered", NoApp) EXCEPT
                                             !.reason = r, !.at = cmd.at, !.dark = FALSE])
    BY <1>4, Zenon DEF Reemit
  <2>3. QED
    BY <2>1, <2>2, <1>1, CapturedStays
<1>5. CASE FlushTick \/ FinishStop \/ Stop
  <2>1. FlushAll /\ Running
    BY <1>5 DEF FlushTick, FinishStop, Stop, Drained, Running
  <2>2. QED
    BY <2>1, <1>2
<1>6. CASE Reset
  <2>1. Running /\ (FlushAll \/ sessions' = 0)
    BY <1>6, Zenon DEF Reset, Drained, Running
  <2>2. QED
    BY <2>1, <1>2
<1>7. CASE \/ (\E app \in App : FocusTo(app))
           \/ FocusClosed \/ PlainCapture \/ CutCapture
           \/ (\E r \in Reason : SensitiveBoundary(r))
           \/ ResumeCapture \/ Tick \/ WallStep \/ CloseGate \/ OpenGate \/ PanicArm
           \/ WorkerStarts \/ WorkerStops
  <2>1. UNCHANGED writerVars
    BY <1>7 DEF FocusTo, FocusClosed, PlainCapture, CutCapture, SensitiveBoundary,
       ResumeCapture, Tick, WallStep, CloseGate, OpenGate, PanicArm, WorkerStarts, WorkerStops
  <2>2. QED
    BY <2>1, <1>1 DEF writerVars
<1>8. CASE SendForget \/ RecordCommand \/ PanicStop \/ PrivacyCommand
  <2>1. UNCHANGED restOfWriter
    BY <1>8 DEF SendForget, RecordCommand, PanicStop, PrivacyCommand
  <2>2. QED
    BY <2>1, <1>1 DEF restOfWriter
<1>9. CASE \/ Forward \/ (\E app \in App \cup {NoApp} : ActionCaptured(app)) \/ Shutdown
           \/ Heartbeat \/ BeatOpenFocus \/ StartRecording \/ PauseRecording \/ ResumeRecording
           \/ RefusePrivacy \/ BeginDrain \/ FinishForget \/ Replace \/ ReplaceFails \/ Crash
  <2>1. rows' = rows
    BY <1>9 DEF Forward, ActionCaptured, Shutdown, Heartbeat, BeatOpenFocus, StartRecording,
       PauseRecording, ResumeRecording, RefusePrivacy, BeginDrain, FinishForget, Replace,
       ReplaceFails, Crash
  <2>2. QED
    BY <2>1, <1>1
<1>10. CASE UNCHANGED vars
  BY <1>10, <1>1 DEF vars
<1>11. QED
  BY <1>3, <1>4, <1>5, <1>6, <1>7, <1>8, <1>9, <1>10, Zenon DEF Next

(* A step that lets the writer's session and the ended ones alone, or ends   *)
(* the process, keeps it so.                                               *)
LEMMA LiveKept ==
    ASSUME LiveSession, sq'.session = sq.session, ended' = ended,
           Running' => Running, pc' = "replace" => pc = "replace"
    PROVE  LiveSession'
BY Zenon DEF LiveSession

LEMMA LiveStep == TypeOK /\ LiveSession /\ [Next]_vars => LiveSession'
<1> SUFFICES ASSUME TypeOK, LiveSession, [Next]_vars
             PROVE  LiveSession'
  OBVIOUS
<1>0. ASSUME sq' = sq, ended' = ended, pc' = pc PROVE LiveSession'
  BY <1>0, LiveKept DEF Running
<1>1. CASE TakeInput \/ Reemit
  <2>1. ended' = ended /\ pc' \in {pc, "loop"} /\ Running
    BY <1>1, Zenon DEF TakeInput, Reemit, catalog, Done, Running
  <2>2. sq'.session = sq.session
    <3>1. CASE TakeInput
      BY <3>1, CapturedStays, ActionStays DEF TakeInput, Queue
    <3>2. CASE Reemit
      <4>1. \/ sq' = sq
            \/ \E r \in todo : QueueCaptured([Capture("entered", NoApp) EXCEPT
                                                 !.reason = r, !.at = cmd.at, !.dark = FALSE])
        BY <3>2, Zenon DEF Reemit
      <4>2. QED
        BY <4>1, CapturedStays
    <3>3. QED
      BY <1>1, <3>1, <3>2
  <2>3. QED
    BY <2>1, <2>2, LiveKept
<1>2. CASE Start
  <2>1. ended' = 1 .. sessions /\ sq' = NewSequencer(sessions + 1, now, Wall) /\ pc' = "loop"
    BY <1>2 DEF Start
  <2>2. sq'.session = sessions + 1 /\ sessions \in Nat
    BY <2>1 DEF NewSequencer, TypeOK, CatalogOK
  <2>3. QED
    BY <2>1, <2>2 DEF LiveSession
<1>3. CASE Reset
  <2>1. sq' = sq /\ Running /\ ((ended' = ended /\ pc' = "loop") \/ ended' = {})
    BY <1>3, Zenon DEF Reset, Done, catalog, Drained, Running
  <2>2. QED
    BY <2>1 DEF LiveSession
<1>4. CASE Replace
  BY <1>4 DEF Replace, LiveSession
<1>5. CASE Crash \/ Stop
  BY <1>5 DEF Crash, Stop, Running, LiveSession
<1>6. CASE Heartbeat
  <2>1. sq' = Resynced(sq, now, Wall, Threshold) /\ ended' = ended /\ pc' = pc
    BY <1>6 DEF Heartbeat, catalog
  <2>2. now \in Int /\ Wall \in Int /\ Threshold \in Nat /\ sq \in Sequencers
    BY WriterAssumption DEF TypeOK, ClocksOK, NumbersOK, Wall
  <2>3. sq'.session = sq.session
    BY <2>1, <2>2, ResyncedType
  <2>4. QED
    BY <2>1, <2>3, LiveKept DEF Running
<1>7. CASE \/ (\E app \in App : FocusTo(app))
           \/ FocusClosed \/ PlainCapture \/ CutCapture
           \/ (\E r \in Reason : SensitiveBoundary(r))
           \/ ResumeCapture \/ Tick \/ WallStep \/ CloseGate \/ OpenGate \/ PanicArm
           \/ WorkerStarts \/ WorkerStops
  <2>1. UNCHANGED writerVars
    BY <1>7 DEF FocusTo, FocusClosed, PlainCapture, CutCapture, SensitiveBoundary,
       ResumeCapture, Tick, WallStep, CloseGate, OpenGate, PanicArm, WorkerStarts, WorkerStops
  <2>2. QED
    BY <2>1, <1>0 DEF writerVars, catalog
<1>8. CASE SendForget \/ RecordCommand \/ PanicStop \/ PrivacyCommand
  <2>1. UNCHANGED restOfWriter
    BY <1>8 DEF SendForget, RecordCommand, PanicStop, PrivacyCommand
  <2>2. QED
    BY <2>1, <1>0 DEF restOfWriter, catalog
<1>9. CASE \/ Forward \/ (\E app \in App \cup {NoApp} : ActionCaptured(app))
           \/ FlushTick \/ BeatOpenFocus \/ StartRecording \/ PauseRecording
           \/ ResumeRecording \/ RefusePrivacy
  <2>1. sq' = sq /\ ended' = ended /\ pc' = pc
    BY <1>9 DEF Forward, ActionCaptured, FlushTick, BeatOpenFocus, StartRecording,
       PauseRecording, ResumeRecording, RefusePrivacy, catalog
  <2>2. QED
    BY <2>1, <1>0
<1>10. CASE Shutdown \/ BeginDrain \/ FinishForget \/ FinishStop \/ ReplaceFails
  <2>1. sq' = sq /\ ended' = ended /\ pc' # "replace" /\ Running
    BY <1>10 DEF Shutdown, BeginDrain, FinishForget, FinishStop, ReplaceFails, Drained, Done,
       Next1, Running, catalog
  <2>2. QED
    BY <2>1, LiveKept
<1>11. CASE UNCHANGED vars
  BY <1>11, <1>0 DEF vars, catalog
<1>12. QED
  BY <1>1, <1>2, <1>3, <1>4, <1>5, <1>6, <1>7, <1>8, <1>9, <1>10, <1>11, Zenon DEF Next

LEMMA EndedStay ==
    TypeOK /\ NumbersInv /\ LiveSession /\ [Next]_vars =>
        (sessions' # 0 => \A n \in ended : {r \in rows' : r.sess = n} = RowsOf(n))
<1> SUFFICES ASSUME TypeOK, NumbersInv, LiveSession, [Next]_vars, sessions' # 0, NEW n \in ended
             PROVE  {r \in rows' : r.sess = n} = RowsOf(n)
  OBVIOUS
<1>1. CASE Start
  <2>1. CASE rows' = rows
    BY <2>1 DEF RowsOf
  <2>2. ASSUME NEW m, rows' = rows \cup {Recovered(m)}, focusRow.sess \notin ended
        PROVE  {r \in rows' : r.sess = n} = RowsOf(n)
    <3>1. Recovered(m).sess # n
      BY <2>2 DEF Recovered
    <3>2. QED
      BY <2>2, <3>1 DEF RowsOf
  <2>3. QED
    BY <1>1, <2>1, <2>2, StartGains
<1>2. CASE ~Running /\ rows' = rows
  BY <1>2 DEF RowsOf
<1>3. CASE /\ Running /\ rows \subseteq rows'
           /\ \A r \in rows' \ rows : r \in Waiting \/ r.sess = sq.session
  <2>1. \A r \in rows' \ rows : r.sess = sq.session
    BY <1>3 DEF NumbersInv, RowsPlaced
  <2>2. sq.session # n
    BY <1>3 DEF LiveSession
  <2>3. QED
    BY <1>3, <2>1, <2>2 DEF RowsOf
<1>4. QED
  BY <1>1, <1>2, <1>3, RowsAdded DEF RowsStay

(***************************************************************************)
(* Short of an erase of everything, no row is added to a session that has   *)
(* ended and none of its rows is lost or rewritten: not by a late flush,    *)
(* not by the drain of a shutdown, and not by the repair that a start makes *)
(* of an open-focus row a crash left.                                      *)
(***************************************************************************)
THEOREM EndedSessionsStay == Spec => EndedSessionsFinal
<1>1. Init => LiveSession
  BY DEF Init, LiveSession
<1>2. TypeOK /\ LiveSession /\ [Next]_vars => LiveSession'
  BY LiveStep
<1>3. TypeOK /\ NumbersInv /\ LiveSession /\ [Next]_vars =>
          [sessions' # 0 => \A n \in ended : {r \in rows' : r.sess = n} = RowsOf(n)]_vars
  BY EndedStay
<1>4. QED
  BY <1>1, <1>2, <1>3, WriterTypeCorrect, NumbersInvariant, PTL DEF Spec, EndedSessionsFinal

-----------------------------------------------------------------------------
(* Recordings: open, closed, and cut by the panic key.                      *)

(* The recording the writer captures for is open. *)
RecordingOpen == Running /\ recording # 0 => recording \in openRecs

(* A process that ended has nothing pending. *)
NothingLeft == ~Running => actions = {}

OpenInv == PendingActionsOpen /\ RecordingOpen /\ NothingLeft

(* The state that says which recording an action waits for. *)
waiting == <<actions, recording, openRecs>>

(* Where that state is left alone and the process lives on, nothing changes. *)
LEMMA WaitingKept ==
    ASSUME OpenInv, UNCHANGED waiting, Running' = Running PROVE OpenInv'
BY Zenon DEF OpenInv, PendingActionsOpen, RecordingOpen, NothingLeft, waiting

(* An action takes a place in the batch, or the batch is committed. *)
LEMMA ActionPending ==
    ASSUME OpenInv, Running, NEW row, row.cap.rec \in openRecs, PushAction(row),
           recording' = recording, openRecs' = openRecs, pc' = pc
    PROVE  OpenInv'
<1>1. actions' \subseteq actions \cup {row}
  <2>1. actions' = actions \cup {row} \/ actions' = {}
    BY Zenon DEF PushAction
  <2>2. QED
    BY <2>1
<1>2. Running'
  BY DEF Running
<1>3. QED
  BY <1>1, <1>2 DEF OpenInv, PendingActionsOpen, RecordingOpen, NothingLeft

(* The capture side and the tray do not touch it. *)
LEMMA ProducersWait ==
    ASSUME OpenInv,
           \/ \E app \in App : FocusTo(app)
           \/ FocusClosed \/ PlainCapture \/ CutCapture
           \/ \E r \in Reason : SensitiveBoundary(r)
           \/ ResumeCapture \/ Forward
           \/ \E app \in App \cup {NoApp} : ActionCaptured(app)
           \/ Tick \/ WallStep \/ CloseGate \/ SendForget \/ OpenGate
           \/ RecordCommand \/ PanicArm \/ PanicStop \/ WorkerStarts \/ WorkerStops
           \/ PrivacyCommand \/ Shutdown
    PROVE  OpenInv'
<1>1. ASSUME UNCHANGED writerVars PROVE UNCHANGED waiting /\ pc' = pc
  BY <1>1 DEF writerVars, waiting, pending, record, catalog
<1>2. ASSUME UNCHANGED restOfWriter PROVE UNCHANGED waiting /\ pc' = pc
  BY <1>2 DEF restOfWriter, waiting, pending, record, catalog
<1>3. ASSUME UNCHANGED pending, UNCHANGED record, UNCHANGED catalog PROVE UNCHANGED waiting
  BY <1>3 DEF waiting, pending, record, catalog
<1>4. ASSUME pc' = pc PROVE Running' = Running
  BY <1>4 DEF Running
<1>5. CASE \/ \E app \in App : FocusTo(app)
           \/ FocusClosed \/ PlainCapture \/ CutCapture
           \/ \E r \in Reason : SensitiveBoundary(r)
           \/ ResumeCapture
           \/ Tick \/ WallStep \/ CloseGate \/ OpenGate \/ PanicArm
           \/ WorkerStarts \/ WorkerStops
  <2>1. UNCHANGED writerVars
    BY <1>5 DEF FocusTo, FocusClosed, PlainCapture, CutCapture, SensitiveBoundary,
       ResumeCapture, Tick, WallStep, CloseGate, OpenGate, PanicArm, WorkerStarts, WorkerStops
  <2>2. QED
    BY <2>1, <1>1, <1>4, WaitingKept
<1>6. CASE SendForget \/ RecordCommand \/ PanicStop \/ PrivacyCommand
  <2>1. UNCHANGED restOfWriter
    BY <1>6 DEF SendForget, RecordCommand, PanicStop, PrivacyCommand
  <2>2. QED
    BY <2>1, <1>2, <1>4, WaitingKept
<1>7. CASE Forward \/ \E app \in App \cup {NoApp} : ActionCaptured(app)
  <2>1. pc' = pc /\ UNCHANGED pending /\ UNCHANGED record /\ UNCHANGED catalog
    BY <1>7 DEF Forward, ActionCaptured
  <2>2. QED
    BY <2>1, <1>3, <1>4, WaitingKept
<1>8. CASE Shutdown
  <2>1. UNCHANGED pending /\ UNCHANGED record /\ UNCHANGED catalog /\ Running' = Running
    BY <1>8 DEF Shutdown, Running
  <2>2. QED
    BY <2>1, <1>3, WaitingKept
<1>9. QED
  BY <1>5, <1>6, <1>7, <1>8

(* Neither a row of the capture side nor a marker of the fresh session is an *)
(* action.                                                                   *)
LEMMA CapturedWaits ==
    ASSUME OpenInv, NEW c, QueueCaptured(c), openRecs' = openRecs, Running' = Running
    PROVE  OpenInv'
<1>1. actions' = actions /\ recording' = recording
  BY DEF QueueCaptured, DropStale, DropExcluded, StoreCaptured, pending, record
<1>2. QED
  BY <1>1, WaitingKept DEF waiting

(* An action is stamped only for the recording the writer has open, and all  *)
(* that are pending are committed before that recording closes.              *)
LEMMA OpenStep == TypeOK /\ OpenInv /\ [Next]_vars => OpenInv'
<1> SUFFICES ASSUME TypeOK, OpenInv, [Next]_vars PROVE OpenInv'
  OBVIOUS
<1>p. ASSUME UNCHANGED pending, UNCHANGED record, UNCHANGED catalog PROVE UNCHANGED waiting
  BY <1>p DEF waiting, pending, record, catalog
<1>e. ASSUME FlushAll PROVE actions' = {}
  BY <1>e, Zenon DEF FlushAll
<1>1. CASE TakeInput
  <2>1. /\ pc \in {"loop", "drain", "shutdown"} /\ rx # <<>> /\ Queue(Head(rx))
        /\ pc' = pc /\ UNCHANGED catalog
    BY <1>1 DEF TakeInput
  <2>2. Running /\ Running' = Running /\ openRecs' = openRecs
    BY <2>1 DEF Running, catalog
  <2>3. Head(rx) \in Captures
    BY <2>1, HeadTailProperties DEF TypeOK, ChannelsOK
  <2>4. CASE Head(rx).kind # "action"
    BY <2>1, <2>2, <2>4, CapturedWaits DEF Queue
  <2>5. CASE Head(rx).kind = "action"
    <3> DEFINE a == Head(rx)
               g == [a EXCEPT !.kind = "gap", !.app = NoApp]
    <3>1. a.rec # 0
      BY <2>3, <2>5 DEF Captures
    <3>2. DropAction(a) \/ MarkGap(a) \/ StoreAction(a)
      BY <2>1, <2>5 DEF Queue
    <3>3. ASSUME ~ActionDropped(a) PROVE a.rec \in openRecs
      BY <3>1, <3>3, <2>2 DEF ActionDropped, OpenInv, RecordingOpen
    <3>4. CASE DropAction(a)
      <4>1. UNCHANGED pending /\ UNCHANGED record
        BY <3>4 DEF DropAction
      <4>2. QED
        BY <4>1, <2>1, <2>2, <1>p, WaitingKept
    <3>5. CASE MarkGap(a)
      <4>1. /\ ~ActionDropped(a) /\ recording' = recording
            /\ actions' = actions \/ PushAction(Row(sq, g, FALSE))
        BY <3>5, Zenon DEF MarkGap
      <4>2. Row(sq, g, FALSE).cap.rec = a.rec
        BY <2>3 DEF Row, Captures, CaptureFields
      <4>3. QED
        BY <4>1, <4>2, <3>3, <2>1, <2>2, WaitingKept, ActionPending DEF waiting
    <3>6. CASE StoreAction(a)
      <4>1. /\ ~ActionDropped(a) /\ recording' = recording
            /\ PushAction(Row(sq, a, FALSE))
        BY <3>6, Zenon DEF StoreAction
      <4>2. Row(sq, a, FALSE).cap.rec = a.rec
        BY DEF Row
      <4>3. QED
        BY <4>1, <4>2, <3>3, <2>1, <2>2, ActionPending
    <3>7. QED
      BY <3>2, <3>4, <3>5, <3>6
  <2>6. QED
    BY <2>4, <2>5
<1>2. CASE FlushTick
  <2>1. actions' = {} /\ recording' = recording /\ openRecs' = openRecs /\ pc' = pc
    BY <1>2, <1>e DEF FlushTick, record, catalog
  <2>2. QED
    BY <2>1 DEF OpenInv, PendingActionsOpen, RecordingOpen, NothingLeft, Running
<1>3. CASE Heartbeat \/ BeatOpenFocus \/ RefusePrivacy \/ PauseRecording \/ ResumeRecording
  <2>1. pc' = pc /\ UNCHANGED pending /\ recording' = recording /\ UNCHANGED catalog
    BY <1>3 DEF Heartbeat, BeatOpenFocus, RefusePrivacy, PauseRecording, ResumeRecording, record
  <2>2. UNCHANGED waiting /\ Running' = Running
    BY <2>1 DEF waiting, pending, catalog, Running
  <2>3. QED
    BY <2>2, WaitingKept
<1>4. CASE BeginDrain \/ FinishForget \/ ReplaceFails \/ Replace
  <2>1. UNCHANGED waiting
    BY <1>4 DEF BeginDrain, FinishForget, ReplaceFails, Replace, waiting, pending, record, catalog
  <2>2. Running /\ Running'
    BY <1>4 DEF BeginDrain, FinishForget, ReplaceFails, Replace, Next1, Drained, Done, Running
  <2>3. QED
    BY <2>1, <2>2, WaitingKept
<1>5. CASE StartRecording
  <2>1. /\ actions' = actions /\ pc' = pc
        /\ \/ recording' \in openRecs' /\ openRecs \subseteq openRecs'
           \/ recording' = recording /\ openRecs' = openRecs
    BY <1>5 DEF StartRecording, pending
  <2>2. QED
    BY <2>1 DEF OpenInv, PendingActionsOpen, RecordingOpen, NothingLeft, Running
<1>6. CASE FinishStop
  <2>1. actions' = {}
    BY <1>6, <1>e DEF FinishStop
  <2>2. Running /\ Running'
    BY <1>6 DEF FinishStop, Drained, Done, Running
  <2>3. \/ /\ openRecs' = openRecs \ {cmd.rec}
           /\ recording' = IF recording = cmd.rec THEN 0 ELSE recording
        \/ openRecs' = openRecs /\ recording' = recording
    BY <1>6, Zenon DEF FinishStop
  <2>4. QED
    BY <2>1, <2>2, <2>3 DEF OpenInv, PendingActionsOpen, RecordingOpen, NothingLeft
<1>7. CASE Reset
  <2>1. actions' = {} /\ (recording' = 0 \/ (recording' = recording /\ openRecs' = openRecs))
    BY <1>7, <1>e, Zenon DEF Reset, catalog
  <2>2. Running
    BY <1>7 DEF Reset, Drained, Running
  <2>3. QED
    BY <2>1, <2>2 DEF OpenInv, PendingActionsOpen, RecordingOpen, NothingLeft
<1>8. CASE Reemit
  <2>1. pc = "reemit" /\ (pc' = pc \/ pc' = "loop") /\ UNCHANGED catalog
    BY <1>8, Zenon DEF Reemit, Done
  <2>2. Running /\ Running' /\ openRecs' = openRecs
    BY <2>1 DEF Running, catalog
  <2>3. (UNCHANGED pending /\ UNCHANGED record) \/ \E c : QueueCaptured(c)
    BY <1>8, Zenon DEF Reemit
  <2>4. QED
    BY <2>1, <2>2, <2>3, <1>p, WaitingKept, CapturedWaits
<1>9. CASE Stop
  <2>1. actions' = {} /\ pc' = "stopped"
    BY <1>9, <1>e DEF Stop
  <2>2. QED
    BY <2>1 DEF OpenInv, PendingActionsOpen, RecordingOpen, NothingLeft, Running
<1>10. CASE Start \/ Crash
  <2>1. actions' = {} /\ recording' = 0
    BY <1>10 DEF Start, Crash, FreshMemory
  <2>2. QED
    BY <2>1 DEF OpenInv, PendingActionsOpen, RecordingOpen, NothingLeft
<1>11. CASE UNCHANGED vars
  <2>1. UNCHANGED waiting /\ pc' = pc
    BY <1>11 DEF vars, waiting, pending, record, catalog
  <2>2. QED
    BY <2>1, WaitingKept DEF Running
<1>12. QED
  BY <1>1, <1>2, <1>3, <1>4, <1>5, <1>6, <1>7, <1>8, <1>9, <1>10, <1>11, ProducersWait, Zenon
     DEF Next

(***************************************************************************)
(* stop_recording, secure erase and archive/reset commit the pending        *)
(* actions before they close a recording, and queue_action stamps one only  *)
(* for the recording that is open: insert_actions never skips an action     *)
(* because its recording was closed over it.                                *)
(***************************************************************************)
THEOREM ActionsWaitForOpenRecordings == Spec => []PendingActionsOpen
<1>1. Init => OpenInv
  BY DEF Init, OpenInv, PendingActionsOpen, RecordingOpen, NothingLeft, Running
<1>2. TypeOK /\ OpenInv /\ [Next]_vars => OpenInv'
  BY OpenStep
<1>3. OpenInv => PendingActionsOpen
  BY DEF OpenInv
<1>4. QED
  BY <1>1, <1>2, <1>3, WriterTypeCorrect, PTL DEF Spec
-----------------------------------------------------------------------------
(* An action on its way to the writer is of a recording there has been; one   *)
(* captured after the panic key meets the fence, or its recording has ended.  *)
Past(a, fence, open, last) ==
    a.kind = "action" =>
        /\ a.rec <= last
        /\ a.dark => (fence.rec = a.rec /\ a.at >= fence.at) \/ open # a.rec

PastOnTheirWay(q, fence, open, last) == \A i \in DOMAIN q : Past(q[i], fence, open, last)

(* The fence and the worker: a worker the fence is not for never captures for *)
(* the recording the fence is for.                                           *)
Fenced ==
    /\ recording <= recs /\ worker <= recs
    /\ cutoff.rec # 0 => cutoff.at <= now
    /\ worker # 0 /\ cutoff.rec # worker => cutoff.rec = 0 \/ recording # cutoff.rec

(* Erase and archive restart the ids of the recordings.  By the time they    *)
(* drain the input the tray captures for none: it sent them when it did not,  *)
(* and it starts to only for a recording that is open, with which they are    *)
(* refused.                                                                  *)
Privacy == {"erase", "archive"}

StartsAlone(q, w, open) ==
    \A i \in DOMAIN q : q[i].op = "start" =>
        /\ w = 0 /\ open = 0
        /\ \A j \in DOMAIN q : q[j].op = "start" => j = i

(* No stop is ahead of them, unless the worker has stopped already. *)
PrivacyAlone(q, w, open) ==
    \A i \in DOMAIN q : q[i].op \in Privacy /\ w # 0 =>
        /\ open = w
        /\ \A j \in DOMAIN q : j <= i => q[j].op # "stop"

InLine ==
    /\ pc = "loop" => cmd.op = "none"
    /\ cmd.op \in Privacy => worker = 0 /\ recording = 0
    /\ StartsAlone(cmds, worker, recording)
    /\ PrivacyAlone(cmds, worker, recording)
    /\ cmd.op = "stop" /\ worker # 0 => \A i \in DOMAIN cmds : cmds[i].op \notin Privacy

PastInv ==
    NoActionPastPanic /\ PastOnTheirWay(rx, cutoff, recording, recs) /\ Fenced /\ InLine

(* Who changes what. *)
LEMMA ChangesRecording ==
    ASSUME [Next]_vars
    PROVE  \/ StartRecording \/ FinishStop \/ Reset \/ Crash \/ Start
           \/ recording' = recording /\ recs' = recs
<1>1. CASE \/ (\E app \in App : FocusTo(app)) \/ FocusClosed \/ PlainCapture \/ CutCapture
               \/ (\E r \in Reason : SensitiveBoundary(r)) \/ ResumeCapture \/ Tick
               \/ WallStep \/ CloseGate \/ OpenGate \/ PanicArm \/ WorkerStarts \/ WorkerStops
  BY <1>1 DEF FocusTo, FocusClosed, PlainCapture, CutCapture, SensitiveBoundary, ResumeCapture,
     Tick, WallStep, CloseGate, OpenGate, PanicArm, WorkerStarts, WorkerStops, writerVars,
     record, catalog, QueueCaptured, Queue, DropStale, DropExcluded, StoreCaptured, DropAction,
     MarkGap, StoreAction
<1>2. CASE \/ SendForget \/ RecordCommand \/ PanicStop \/ PrivacyCommand
  BY <1>2 DEF SendForget, RecordCommand, PanicStop, PrivacyCommand, restOfWriter, record,
     catalog, QueueCaptured, Queue, DropStale, DropExcluded, StoreCaptured, DropAction,
     MarkGap, StoreAction
<1>3. CASE \/ Forward \/ (\E app \in App \cup {NoApp} : ActionCaptured(app)) \/ Shutdown
               \/ TakeInput \/ FlushTick \/ Heartbeat \/ BeatOpenFocus \/ PauseRecording
               \/ ResumeRecording \/ RefusePrivacy \/ BeginDrain \/ FinishForget \/ Replace
               \/ ReplaceFails \/ Reemit \/ Stop
  BY <1>3 DEF Forward, ActionCaptured, Shutdown, TakeInput, FlushTick, Heartbeat,
     BeatOpenFocus, PauseRecording, ResumeRecording, RefusePrivacy, BeginDrain, FinishForget,
     Replace, ReplaceFails, Reemit, Stop, record, catalog, QueueCaptured, Queue, DropStale,
     DropExcluded, StoreCaptured, DropAction, MarkGap, StoreAction
<1>4. CASE UNCHANGED vars
  BY <1>4 DEF vars, record, catalog, QueueCaptured, Queue, DropStale, DropExcluded, StoreCaptured, DropAction, MarkGap, StoreAction
<1>5. QED
  BY <1>1, <1>2, <1>3, <1>4, Zenon DEF Next

LEMMA ChangesWorker ==
    ASSUME [Next]_vars
    PROVE  \/ PanicArm \/ PanicStop \/ WorkerStarts \/ WorkerStops \/ Crash \/ Start
           \/ worker' = worker /\ cutoff' = cutoff
<1>1. CASE \/ (\E app \in App : FocusTo(app)) \/ FocusClosed \/ PlainCapture \/ CutCapture
               \/ (\E r \in Reason : SensitiveBoundary(r)) \/ ResumeCapture \/ Tick
               \/ WallStep \/ CloseGate \/ OpenGate
  BY <1>1 DEF FocusTo, FocusClosed, PlainCapture, CutCapture, SensitiveBoundary, ResumeCapture,
     Tick, WallStep, CloseGate, OpenGate, writerVars, producer
<1>2. CASE \/ SendForget \/ RecordCommand \/ PrivacyCommand
  BY <1>2 DEF SendForget, RecordCommand, PrivacyCommand, restOfWriter, producer
<1>3. CASE \/ Forward \/ (\E app \in App \cup {NoApp} : ActionCaptured(app)) \/ Shutdown
               \/ TakeInput \/ FlushTick \/ Heartbeat \/ BeatOpenFocus \/ StartRecording
               \/ PauseRecording \/ ResumeRecording \/ RefusePrivacy \/ BeginDrain
               \/ FinishForget \/ FinishStop \/ Reset \/ Replace \/ ReplaceFails \/ Reemit
               \/ Stop
  BY <1>3 DEF Forward, ActionCaptured, Shutdown, TakeInput, FlushTick, Heartbeat,
     BeatOpenFocus, StartRecording, PauseRecording, ResumeRecording, RefusePrivacy, BeginDrain,
     FinishForget, FinishStop, Reset, Replace, ReplaceFails, Reemit, Stop, producer
<1>4. CASE UNCHANGED vars
  BY <1>4 DEF vars, producer
<1>5. QED
  BY <1>1, <1>2, <1>3, <1>4, Zenon DEF Next

LEMMA ChangesInput ==
    ASSUME [Next]_vars
    PROVE  \/ Forward \/ TakeInput \/ Crash \/ Start
           \/ (\E app \in App \cup {NoApp} : ActionCaptured(app))
           \/ rx' = rx
<1>1. CASE \/ (\E app \in App : FocusTo(app)) \/ FocusClosed \/ PlainCapture \/ CutCapture
               \/ (\E r \in Reason : SensitiveBoundary(r)) \/ ResumeCapture \/ Tick
               \/ WallStep \/ CloseGate \/ OpenGate \/ PanicArm \/ WorkerStarts \/ WorkerStops
  BY <1>1 DEF FocusTo, FocusClosed, PlainCapture, CutCapture, SensitiveBoundary, ResumeCapture,
     Tick, WallStep, CloseGate, OpenGate, PanicArm, WorkerStarts, WorkerStops, writerVars
<1>2. CASE \/ SendForget \/ RecordCommand \/ PanicStop \/ PrivacyCommand
  BY <1>2 DEF SendForget, RecordCommand, PanicStop, PrivacyCommand, restOfWriter
<1>3. CASE \/ Shutdown \/ FlushTick \/ Heartbeat \/ BeatOpenFocus \/ StartRecording
               \/ PauseRecording \/ ResumeRecording \/ RefusePrivacy \/ BeginDrain
               \/ FinishForget \/ FinishStop \/ Reset \/ Replace \/ ReplaceFails \/ Reemit
               \/ Stop
  BY <1>3 DEF Shutdown, FlushTick, Heartbeat, BeatOpenFocus, StartRecording, PauseRecording,
     ResumeRecording, RefusePrivacy, BeginDrain, FinishForget, FinishStop, Reset, Replace,
     ReplaceFails, Reemit, Stop
<1>4. CASE UNCHANGED vars
  BY <1>4 DEF vars
<1>5. QED
  BY <1>1, <1>2, <1>3, <1>4, Zenon DEF Next

LEMMA ChangesCommands ==
    ASSUME [Next]_vars
    PROVE  \/ SendForget \/ RecordCommand \/ PanicStop \/ PrivacyCommand \/ Crash \/ Start
           \/ StartRecording \/ PauseRecording \/ ResumeRecording \/ RefusePrivacy \/ BeginDrain
           \/ cmds' = cmds
<1>1. CASE \/ (\E app \in App : FocusTo(app)) \/ FocusClosed \/ PlainCapture \/ CutCapture
               \/ (\E r \in Reason : SensitiveBoundary(r)) \/ ResumeCapture \/ Tick
               \/ WallStep \/ CloseGate \/ OpenGate \/ PanicArm \/ WorkerStarts \/ WorkerStops
  BY <1>1 DEF FocusTo, FocusClosed, PlainCapture, CutCapture, SensitiveBoundary, ResumeCapture,
     Tick, WallStep, CloseGate, OpenGate, PanicArm, WorkerStarts, WorkerStops, writerVars
<1>2. CASE \/ Forward \/ (\E app \in App \cup {NoApp} : ActionCaptured(app)) \/ Shutdown
               \/ TakeInput \/ FlushTick \/ Heartbeat \/ BeatOpenFocus \/ FinishForget
               \/ FinishStop \/ Reset \/ Replace \/ ReplaceFails \/ Reemit \/ Stop
  BY <1>2 DEF Forward, ActionCaptured, Shutdown, TakeInput, FlushTick, Heartbeat,
     BeatOpenFocus, FinishForget, FinishStop, Reset, Replace, ReplaceFails, Reemit, Stop
<1>3. CASE UNCHANGED vars
  BY <1>3 DEF vars
<1>4. QED
  BY <1>1, <1>2, <1>3, Zenon DEF Next

LEMMA ChangesPlace ==
    ASSUME [Next]_vars
    PROVE  \/ Shutdown \/ BeginDrain \/ FinishForget \/ FinishStop \/ Reset
           \/ Replace \/ ReplaceFails \/ Reemit \/ Stop \/ Crash \/ Start
           \/ pc' = pc /\ cmd' = cmd
<1>1. CASE \/ (\E app \in App : FocusTo(app)) \/ FocusClosed \/ PlainCapture \/ CutCapture
               \/ (\E r \in Reason : SensitiveBoundary(r)) \/ ResumeCapture \/ Tick
               \/ WallStep \/ CloseGate \/ OpenGate \/ PanicArm \/ WorkerStarts \/ WorkerStops
  BY <1>1 DEF FocusTo, FocusClosed, PlainCapture, CutCapture, SensitiveBoundary, ResumeCapture,
     Tick, WallStep, CloseGate, OpenGate, PanicArm, WorkerStarts, WorkerStops, writerVars
<1>2. CASE \/ SendForget \/ RecordCommand \/ PanicStop \/ PrivacyCommand
  BY <1>2 DEF SendForget, RecordCommand, PanicStop, PrivacyCommand, restOfWriter
<1>3. CASE \/ Forward \/ (\E app \in App \cup {NoApp} : ActionCaptured(app)) \/ TakeInput
               \/ FlushTick \/ Heartbeat \/ BeatOpenFocus \/ StartRecording \/ PauseRecording
               \/ ResumeRecording \/ RefusePrivacy
  BY <1>3 DEF Forward, ActionCaptured, TakeInput, FlushTick, Heartbeat, BeatOpenFocus,
     StartRecording, PauseRecording, ResumeRecording, RefusePrivacy
<1>4. CASE UNCHANGED vars
  BY <1>4 DEF vars
<1>5. QED
  BY <1>1, <1>2, <1>3, <1>4, Zenon DEF Next

LEMMA ChangesNow == ASSUME [Next]_vars PROVE Tick \/ now' = now
<1>1. CASE \/ (\E app \in App : FocusTo(app)) \/ FocusClosed \/ PlainCapture \/ CutCapture
               \/ (\E r \in Reason : SensitiveBoundary(r)) \/ ResumeCapture \/ WallStep
               \/ CloseGate \/ OpenGate \/ PanicArm \/ WorkerStarts \/ WorkerStops
  BY <1>1 DEF FocusTo, FocusClosed, PlainCapture, CutCapture, SensitiveBoundary, ResumeCapture,
     WallStep, CloseGate, OpenGate, PanicArm, WorkerStarts, WorkerStops, writerVars, clocks
<1>2. CASE \/ SendForget \/ RecordCommand \/ PanicStop \/ PrivacyCommand
  BY <1>2 DEF SendForget, RecordCommand, PanicStop, PrivacyCommand, restOfWriter, clocks
<1>3. CASE \/ Forward \/ (\E app \in App \cup {NoApp} : ActionCaptured(app)) \/ Shutdown
               \/ Crash \/ TakeInput \/ FlushTick \/ Heartbeat \/ BeatOpenFocus
               \/ StartRecording \/ PauseRecording \/ ResumeRecording \/ RefusePrivacy
               \/ BeginDrain \/ FinishForget \/ FinishStop \/ Reset \/ Replace \/ ReplaceFails
               \/ Reemit \/ Stop \/ Start
  BY <1>3 DEF Forward, ActionCaptured, Shutdown, Crash, TakeInput, FlushTick, Heartbeat,
     BeatOpenFocus, StartRecording, PauseRecording, ResumeRecording, RefusePrivacy, BeginDrain,
     FinishForget, FinishStop, Reset, Replace, ReplaceFails, Reemit, Stop, Start, clocks
<1>4. CASE UNCHANGED vars
  BY <1>4 DEF vars, clocks
<1>5. QED
  BY <1>1, <1>2, <1>3, <1>4, Zenon DEF Next

(* A command joins the queue, or leaves it. *)
LEMMA CommandJoins ==
    ASSUME NEW q \in Seq(CommandRecords), NEW c \in CommandRecords, NEW w, NEW open,
           StartsAlone(q, w, open), PrivacyAlone(q, w, open)
    PROVE  /\ c.op # "start" \/ (w = 0 /\ open = 0 /\ \A i \in DOMAIN q : q[i].op # "start")
              => StartsAlone(Append(q, c), w, open)
           /\ (c.op \in Privacy => w = 0) => PrivacyAlone(Append(q, c), w, open)
           /\ (c.op \notin Privacy /\ \A i \in DOMAIN q : q[i].op \notin Privacy)
              => \A i \in DOMAIN Append(q, c) : Append(q, c)[i].op \notin Privacy
<1> DEFINE n == Append(q, c)
<1>1. /\ DOMAIN q = 1 .. Len(q) /\ Len(q) \in Nat /\ DOMAIN n = DOMAIN q \cup {Len(q) + 1}
      /\ \A i \in DOMAIN q : n[i] = q[i] /\ i < Len(q) + 1
      /\ n[Len(q) + 1] = c
  OBVIOUS
<1> HIDE DEF n
<1>2. ASSUME c.op # "start" \/ (w = 0 /\ open = 0 /\ \A i \in DOMAIN q : q[i].op # "start")
      PROVE  StartsAlone(n, w, open)
  BY <1>1, <1>2 DEF StartsAlone
<1>3. ASSUME c.op \in Privacy => w = 0 PROVE PrivacyAlone(n, w, open)
  <2>1. ASSUME NEW i \in DOMAIN n, n[i].op \in Privacy, w # 0, NEW j \in DOMAIN n, j <= i
        PROVE  i \in DOMAIN q /\ j \in DOMAIN q
    BY <1>1, <1>3, <2>1
  <2>2. QED
    BY <1>1, <2>1 DEF PrivacyAlone
<1>4. ASSUME c.op \notin Privacy, \A i \in DOMAIN q : q[i].op \notin Privacy
      PROVE  \A i \in DOMAIN n : n[i].op \notin Privacy
  BY <1>1, <1>4
<1>5. QED
  BY <1>2, <1>3, <1>4 DEF n

LEMMA CommandLeaves ==
    ASSUME NEW q \in Seq(CommandRecords), q # <<>>, NEW w, NEW open,
           StartsAlone(q, w, open), PrivacyAlone(q, w, open)
    PROVE  /\ StartsAlone(Tail(q), w, open) /\ PrivacyAlone(Tail(q), w, open)
           /\ (\A i \in DOMAIN q : q[i].op \notin Privacy)
              => \A i \in DOMAIN Tail(q) : Tail(q)[i].op \notin Privacy
           /\ Head(q).op = "start" =>
                 w = 0 /\ open = 0 /\ \A i \in DOMAIN Tail(q) : Tail(q)[i].op # "start"
           /\ Head(q).op \in Privacy => w = 0 \/ open = w
           /\ Head(q).op = "stop" /\ w # 0 => \A i \in DOMAIN Tail(q) : Tail(q)[i].op \notin Privacy
<1>1. /\ DOMAIN q = 1 .. Len(q) /\ Len(q) \in Nat \ {0} /\ DOMAIN Tail(q) = 1 .. Len(q) - 1
      /\ \A i \in DOMAIN Tail(q) : Tail(q)[i] = q[i + 1] /\ i + 1 \in DOMAIN q
      /\ Head(q) = q[1] /\ 1 \in DOMAIN q
  OBVIOUS
<1>2. \A i, j \in DOMAIN Tail(q) : (i + 1 = j + 1 => i = j) /\ (j <= i => j + 1 <= i + 1) /\ i + 1 # 1 /\ 1 <= i + 1
  BY <1>1
<1>3. StartsAlone(Tail(q), w, open) /\ PrivacyAlone(Tail(q), w, open)
  BY <1>1, <1>2 DEF StartsAlone, PrivacyAlone
<1>4. (\A i \in DOMAIN q : q[i].op \notin Privacy)
         => \A i \in DOMAIN Tail(q) : Tail(q)[i].op \notin Privacy
  BY <1>1
<1>5. Head(q).op = "start" =>
         w = 0 /\ open = 0 /\ \A i \in DOMAIN Tail(q) : Tail(q)[i].op # "start"
  BY <1>1, <1>2 DEF StartsAlone
<1>6. Head(q).op \in Privacy => w = 0 \/ open = w
  BY <1>1 DEF PrivacyAlone
<1>7. Head(q).op = "stop" /\ w # 0 => \A i \in DOMAIN Tail(q) : Tail(q)[i].op \notin Privacy
  BY <1>1, <1>2 DEF PrivacyAlone
<1>8. QED
  BY <1>3, <1>4, <1>5, <1>6, <1>7

(* Where neither the queue nor who captures and records changes. *)
LEMMA InLineKept ==
    ASSUME InLine, cmds' = cmds, worker' = worker, recording' = recording,
           cmd'.op = cmd.op \/ cmd'.op = "none", pc' = "loop" => cmd'.op = "none"
    PROVE  InLine'
BY DEF InLine, Privacy

(* The queue of commands, the worker and the recording stay in line. *)
LEMMA InLineStep ==
    ASSUME TypeOK, InLine, [Next]_vars
    PROVE  InLine'
<1>0. /\ cmds \in Seq(CommandRecords) /\ recording \in Nat /\ recs \in Nat /\ worker \in Nat
      /\ cmd \in CommandRecords
  BY DEF TypeOK, ChannelsOK, RecordOK, CatalogOK, ProducerOK, ControlOK
<1>i. /\ pc = "loop" => cmd.op = "none"
      /\ cmd.op \in Privacy => worker = 0 /\ recording = 0
      /\ StartsAlone(cmds, worker, recording) /\ PrivacyAlone(cmds, worker, recording)
      /\ cmd.op = "stop" /\ worker # 0 => \A i \in DOMAIN cmds : cmds[i].op \notin Privacy
  BY DEF InLine
<1>a. ASSUME ~Asked("start") PROVE \A i \in DOMAIN cmds : cmds[i].op # "start"
  BY <1>0, <1>a DEF Asked
<1>b. ASSUME ~Asked("stop") PROVE cmd.op # "stop" /\ \A i \in DOMAIN cmds : cmds[i].op # "stop"
  BY <1>0, <1>b DEF Asked
<1>n. NoCmd.op = "none"
  BY DEF NoCmd
<1>s. ASSUME NEW op \in Ops, NEW r \in Nat, Send(op, r), op \in Privacy => worker = 0,
             op # "start" \/ (worker = 0 /\ recording = 0 /\ ~Asked("start")),
             worker' = worker, recording' = recording, pc' = pc, cmd' = cmd
      PROVE  InLine'
  <2> DEFINE c == [op |-> op, rec |-> r, at |-> 0]
  <2>1. cmds' = Append(cmds, c) /\ c \in CommandRecords /\ c.op = op
    BY <1>s DEF Send, CommandRecords
  <2> HIDE DEF c
  <2>2. StartsAlone(cmds', worker, recording)
    BY <2>1, <1>0, <1>i, <1>s, <1>a, CommandJoins
  <2>3. PrivacyAlone(cmds', worker, recording)
    BY <2>1, <1>0, <1>i, <1>s, CommandJoins
  <2>4. cmd.op = "stop" /\ worker # 0 => \A i \in DOMAIN cmds' : cmds'[i].op \notin Privacy
    BY <2>1, <1>0, <1>i, <1>s, CommandJoins
  <2>5. QED
    BY <2>2, <2>3, <2>4, <1>i, <1>s DEF InLine
<1>w. \A op \in {"forget", "start", "pause", "resume", "stop", "erase", "archive"} : op \in Ops
  BY DEF Ops
<1>1. CASE SendForget
  <2>1. Send("forget", 0) /\ worker' = worker /\ recording' = recording /\ pc' = pc /\ cmd' = cmd
    BY <1>1 DEF SendForget, restOfWriter, record
  <2>2. QED
    BY <2>1, <1>s, <1>w DEF Privacy
<1>2. CASE RecordCommand
  <2>1. worker' = worker /\ recording' = recording /\ pc' = pc /\ cmd' = cmd
    BY <1>2 DEF RecordCommand, producer, restOfWriter, record
  <2>2. CASE worker = 0 /\ recording = 0 /\ ~Asked("start") /\ Send("start", 0)
    BY <2>1, <2>2, <1>s, <1>w DEF Privacy
  <2>3. ASSUME NEW op \in {"pause", "resume", "stop"}, Send(op, worker) PROVE InLine'
    BY <2>1, <2>3, <1>s, <1>w, <1>0 DEF Privacy
  <2>4. QED
    BY <1>2, <2>2, <2>3, Zenon DEF RecordCommand
<1>3. CASE PanicStop
  <2>1. worker # 0 /\ worker' = 0 /\ recording' = recording /\ pc' = pc /\ cmd' = cmd
    BY <1>3 DEF PanicStop, restOfWriter, record
  <2>2. cmds' = cmds \/ \E c : cmds' = Append(cmds, c) /\ c \in CommandRecords /\ c.op = "stop"
    BY <1>3, <1>0 DEF PanicStop, Send, CommandRecords, Ops
  <2>3. \A i \in DOMAIN cmds : cmds[i].op # "start"
    BY <2>1, <1>i DEF StartsAlone
  <2>4. \A i \in DOMAIN cmds' : cmds'[i].op # "start"
    BY <2>2, <2>3, <1>0
  <2>5. QED
    BY <2>1, <2>4, <1>i DEF InLine, StartsAlone, PrivacyAlone
<1>4. CASE PrivacyCommand
  <2>1. worker = 0 /\ worker' = worker /\ recording' = recording /\ pc' = pc /\ cmd' = cmd
        /\ \E op \in {"erase", "archive"} : Send(op, 0)
    BY <1>4 DEF PrivacyCommand, restOfWriter, record
  <2>2. QED
    BY <2>1, <1>s, <1>w
<1>5. CASE WorkerStarts
  <2>1. /\ recording # 0 /\ ~Asked("stop") /\ worker' = recording /\ recording' = recording
        /\ pc' = pc /\ cmd' = cmd /\ cmds' = cmds
    BY <1>5 DEF WorkerStarts, writerVars, record
  <2>2. StartsAlone(cmds, recording, recording)
    BY <2>1, <1>i DEF StartsAlone
  <2>3. PrivacyAlone(cmds, recording, recording)
    BY <2>1, <1>b DEF PrivacyAlone
  <2>4. QED
    BY <2>1, <2>2, <2>3, <1>i, <1>b DEF InLine
<1>6. CASE WorkerStops
  <2>1. /\ recording = 0 /\ worker' = 0 /\ recording' = recording
        /\ pc' = pc /\ cmd' = cmd /\ cmds' = cmds
    BY <1>6 DEF WorkerStops, writerVars, record
  <2>2. QED
    BY <2>1, <1>i DEF InLine, StartsAlone, PrivacyAlone
<1>7. CASE StartRecording
  <2>1. /\ pc = "loop" /\ cmds # <<>> /\ Head(cmds).op = "start" /\ cmds' = Tail(cmds)
        /\ worker' = worker /\ pc' = pc /\ cmd' = cmd
    BY <1>7 DEF StartRecording, Next1, producer
  <2>2. worker = 0 /\ \A i \in DOMAIN cmds' : cmds'[i].op # "start"
    BY <2>1, <1>0, <1>i, CommandLeaves
  <2>3. QED
    BY <2>1, <2>2, <1>i DEF InLine, StartsAlone, PrivacyAlone, Privacy
<1>t. ASSUME cmds # <<>>, cmds' = Tail(cmds), worker' = worker, recording' = recording
      PROVE  /\ StartsAlone(cmds', worker', recording') /\ PrivacyAlone(cmds', worker', recording')
             /\ cmd.op = "stop" /\ worker # 0 =>
                   \A i \in DOMAIN cmds' : cmds'[i].op \notin Privacy
  BY <1>t, <1>0, <1>i, CommandLeaves
<1>8. CASE PauseRecording \/ ResumeRecording \/ RefusePrivacy
  <2>1. /\ cmds # <<>> /\ cmds' = Tail(cmds) /\ worker' = worker /\ recording' = recording
        /\ pc' = pc /\ cmd' = cmd
    BY <1>8 DEF PauseRecording, ResumeRecording, RefusePrivacy, Next1, producer, record
  <2>2. QED
    BY <2>1, <1>t, <1>i DEF InLine
<1>9. CASE BeginDrain
  <2>1. /\ cmds # <<>> /\ cmds' = Tail(cmds) /\ worker' = worker /\ recording' = recording
        /\ pc' = "drain" /\ cmd' = Head(cmds)
    BY <1>9 DEF BeginDrain, Next1, producer, record
  <2>2. Head(cmds).op \in Privacy => recording = 0
    BY <1>9 DEF BeginDrain, Next1, Privacy
  <2>3. cmd'.op \in Privacy => worker = 0 /\ recording = 0
    BY <2>1, <2>2, <1>0, <1>i, CommandLeaves
  <2>4. cmd'.op = "stop" /\ worker # 0 => \A i \in DOMAIN cmds' : cmds'[i].op \notin Privacy
    BY <2>1, <1>0, <1>i, CommandLeaves
  <2>5. QED
    BY <2>1, <2>3, <2>4, <1>t DEF InLine
<1>10. CASE FinishForget \/ ReplaceFails
  <2>1. cmd'.op = "none" /\ cmds' = cmds /\ worker' = worker /\ recording' = recording
    BY <1>10, <1>n DEF FinishForget, ReplaceFails, Done, producer, record
  <2>2. QED
    BY <2>1, InLineKept
<1>11. CASE FinishStop
  <2>1. /\ cmd.op = "stop" /\ cmd'.op = "none" /\ cmds' = cmds /\ worker' = worker
        /\ recording' = recording \/ recording' = 0
    BY <1>11, <1>n, Zenon DEF FinishStop, Drained, Done, producer
  <2>2. QED
    BY <2>1, <1>i DEF InLine, StartsAlone, PrivacyAlone, Privacy
<1>12. CASE Reset
  <2>1. /\ cmd.op \in Privacy /\ cmds' = cmds /\ worker' = worker
        /\ recording' = recording \/ recording' = 0
    BY <1>12, Zenon DEF Reset, Drained, producer, Privacy
  <2>2. (pc' = "loop" /\ cmd' = NoCmd) \/ (pc' = "replace" /\ cmd' = cmd)
    BY <1>12, Zenon DEF Reset, Done
  <2>3. recording = 0 /\ recording' = recording
    BY <2>1, <1>i
  <2>4. QED
    BY <2>1, <2>2, <2>3, <1>n, InLineKept
<1>13. CASE Replace \/ Shutdown \/ Stop
  <2>1. /\ cmd'.op = cmd.op /\ pc' # "loop" /\ cmds' = cmds
        /\ worker' = worker /\ recording' = recording
    BY <1>13, <1>0 DEF Replace, Shutdown, Stop, producer, record, CommandRecords
  <2>2. QED
    BY <2>1, InLineKept
<1>14. CASE Reemit
  <2>1. cmds' = cmds /\ worker' = worker /\ pc = "reemit"
    BY <1>14 DEF Reemit, producer
  <2>2. (pc' = pc /\ cmd' = cmd) \/ cmd' = NoCmd
    BY <1>14, Zenon DEF Reemit, Done
  <2>3. recording' = recording
    <3>1. UNCHANGED record \/ \E c : QueueCaptured(c)
      BY <1>14, Zenon DEF Reemit
    <3>2. QED
      BY <3>1 DEF QueueCaptured, DropStale, DropExcluded, StoreCaptured, record
  <2>4. QED
    BY <2>1, <2>2, <2>3, <1>n, InLineKept
<1>15. CASE Crash \/ Start
  <2>1. cmds' = <<>> /\ cmd' = NoCmd /\ worker' = 0 /\ recording' = 0
    BY <1>15 DEF Crash, Start, FreshMemory
  <2>2. QED
    BY <2>1, <1>n DEF InLine, StartsAlone, PrivacyAlone, Privacy
<1>16. CASE PanicArm
  <2>1. cmds' = cmds /\ worker' = worker /\ recording' = recording /\ pc' = pc /\ cmd' = cmd
    BY <1>16 DEF PanicArm, writerVars, record
  <2>2. QED
    BY <2>1, <1>i, InLineKept
<1>17. QED
  BY <1>i, <1>1, <1>2, <1>3, <1>4, <1>5, <1>6, <1>7, <1>8, <1>9, <1>10, <1>11, <1>12, <1>13,
     <1>14, <1>15, <1>16, InLineKept, ChangesRecording, ChangesWorker, ChangesCommands, ChangesPlace

(* The fence, the worker and the recording keep to one another. *)
LEMMA FencedStep ==
    ASSUME TypeOK, InLine, Fenced, [Next]_vars
    PROVE  Fenced'
<1>0. /\ recording \in Nat /\ recs \in Nat /\ worker \in Nat /\ now \in Int
      /\ cutoff \in [rec : Nat, at : Int] /\ cmds \in Seq(CommandRecords)
  BY DEF TypeOK, ChannelsOK, RecordOK, CatalogOK, ProducerOK, ClocksOK
<1>1. CASE StartRecording
  <2>1. /\ cmds # <<>> /\ Head(cmds).op = "start" /\ worker' = worker /\ cutoff' = cutoff
        /\ now' = now
        /\ (recording' = recs + 1 /\ recs' = recs + 1) \/ (recording' = recording /\ recs' = recs)
    BY <1>1 DEF StartRecording, Next1, producer, clocks
  <2>2. worker = 0
    BY <2>1, <1>0, CommandLeaves DEF InLine
  <2>3. QED
    BY <2>1, <2>2, <1>0 DEF Fenced
<1>2. CASE FinishStop
  <2>1. /\ worker' = worker /\ cutoff' = cutoff /\ now' = now /\ recs' = recs
        /\ recording' = recording \/ recording' = 0
    BY <1>2, Zenon DEF FinishStop, producer, clocks
  <2>2. QED
    BY <2>1, <1>0 DEF Fenced
<1>3. CASE Reset
  <2>1. /\ cmd.op \in Privacy /\ worker' = worker /\ cutoff' = cutoff /\ now' = now
        /\ recording' = recording \/ recording' = 0
    BY <1>3, Zenon DEF Reset, Drained, producer, clocks, Privacy
  <2>2. recs' = recs \/ recs' = 0
    BY <1>3, Zenon DEF Reset, catalog
  <2>3. worker = 0 /\ recording = 0
    BY <2>1 DEF InLine
  <2>4. QED
    BY <2>1, <2>2, <2>3, <1>0 DEF Fenced
<1>4. CASE Crash \/ Start
  <2>1. worker' = 0 /\ cutoff' = NoCutoff /\ recording' = 0 /\ recs' = recs
    BY <1>4 DEF Crash, Start, FreshMemory, catalog
  <2>2. QED
    BY <2>1, <1>0 DEF Fenced, NoCutoff
<1>5. CASE PanicArm \/ PanicStop \/ WorkerStarts \/ WorkerStops
  <2>1. now' = now /\ recs' = recs /\ recording' = recording
    BY <1>5 DEF PanicArm, PanicStop, WorkerStarts, WorkerStops, clocks, writerVars,
       restOfWriter, record, catalog
  <2>2. \/ worker' = worker /\ cutoff' = [rec |-> worker, at |-> now]
        \/ worker' = 0 /\ cutoff' = cutoff
        \/ worker' = recording /\ cutoff.rec # recording /\ cutoff' = cutoff
        \/ worker' = 0 /\ cutoff' = NoCutoff
    BY <1>5 DEF PanicArm, PanicStop, WorkerStarts, WorkerStops
  <2>3. QED
    BY <2>1, <2>2, <1>0 DEF Fenced, NoCutoff
<1>6. CASE Tick
  <2>1. now' = now + 1 /\ worker' = worker /\ cutoff' = cutoff /\ recs' = recs
        /\ recording' = recording
    BY <1>6 DEF Tick, producer, writerVars, record, catalog
  <2>2. QED
    BY <2>1, <1>0 DEF Fenced
<1>7. QED
  BY <1>1, <1>2, <1>3, <1>4, <1>5, <1>6, ChangesRecording, ChangesWorker, ChangesNow DEF Fenced

(* What was captured after the key meets the fence wherever it waits. *)
LEMMA PastStep ==
    ASSUME TypeOK, TypeOK', Apart, InLine, Fenced, PastOnTheirWay(rx, cutoff, recording, recs),
           [Next]_vars
    PROVE  PastOnTheirWay(rx, cutoff, recording, recs)'
<1>0. /\ recording \in Nat /\ recs \in Nat /\ worker \in Nat /\ now \in Int
      /\ cutoff \in [rec : Nat, at : Int]
      /\ rx \in Seq(Captures) /\ rx' \in Seq(Captures) /\ fwd \in Seq(Events)
  BY DEF TypeOK, ChannelsOK, RecordOK, CatalogOK, ProducerOK, ClocksOK, Apart
<1>1. \A i \in DOMAIN rx : Past(rx[i], cutoff, recording, recs) /\ rx[i] \in Captures
  BY <1>0 DEF PastOnTheirWay
<1>2. \A i \in DOMAIN rx : rx[i].kind = "action" => rx[i].rec # 0
  BY <1>0, <1>1 DEF Captures
<1>g. SUFFICES ASSUME NEW i \in DOMAIN rx' PROVE Past(rx'[i], cutoff', recording', recs')
  BY DEF PastOnTheirWay
<1>3. CASE StartRecording
  <2>1. rx' = rx /\ cutoff' = cutoff
        /\ ((recording' = recs + 1 /\ recs' = recs + 1) \/ (recording' = recording /\ recs' = recs))
    BY <1>3 DEF StartRecording, producer
  <2>2. Past(rx[i], cutoff, recording, recs) /\ rx[i].rec \in Nat
    BY <2>1, <1>1 DEF Captures, CaptureFields
  <2>3. QED
    BY <2>1, <2>2, <1>0 DEF Past
<1>4. CASE FinishStop
  <2>1. rx' = rx /\ cutoff' = cutoff /\ recs' = recs /\ (recording' = recording \/ recording' = 0)
    BY <1>4, Zenon DEF FinishStop, producer
  <2>2. QED
    BY <2>1, <1>1, <1>2 DEF Past
<1>5. CASE Reset \/ Crash \/ Start
  <2>1. rx' = <<>>
    BY <1>5 DEF Reset, Drained, Crash, Start, FreshMemory
  <2>2. QED
    BY <2>1
<1>6. CASE PanicArm \/ WorkerStops
  <2>1. rx' = rx /\ recs' = recs /\ recording' = recording
    BY <1>6 DEF PanicArm, WorkerStops, writerVars, record, catalog
  <2>2. \/ worker # 0 /\ cutoff.rec # worker
        \/ recording = 0
    BY <1>6 DEF PanicArm, WorkerStops
  <2>3. cutoff.rec = 0 \/ recording # cutoff.rec \/ recording = 0
    BY <2>2 DEF Fenced
  <2>4. Past(rx[i], cutoff, recording, recs) /\ (rx[i].kind = "action" => rx[i].rec # 0)
    BY <2>1, <1>1, <1>2
  <2>5. QED
    BY <2>1, <2>3, <2>4 DEF Past
<1>7. CASE Forward
  <2>1. rx' = Append(rx, Head(fwd)) /\ fwd # <<>>
    BY <1>7 DEF Forward
  <2>2. cutoff' = cutoff /\ recs' = recs /\ recording' = recording
    BY <1>7 DEF Forward, producer, record, catalog
  <2>3. Head(fwd) \in Events
    BY <2>1, <1>0
  <2>4. Head(fwd).kind # "action"
    BY <2>3 DEF Events, Captures
  <2>5. i \in DOMAIN rx \/ rx'[i] = Head(fwd)
    BY <2>1, <1>0
  <2>6. i \in DOMAIN rx => rx'[i] = rx[i]
    BY <2>1, <1>0
  <2>7. QED
    BY <2>2, <2>4, <2>5, <2>6, <1>1 DEF Past
<1>8. ASSUME NEW app \in App \cup {NoApp}, ActionCaptured(app)
      PROVE  Past(rx'[i], cutoff', recording', recs')
  <2> DEFINE c == [Capture("action", app) EXCEPT !.rec = worker, !.dark = cutoff.rec = worker]
  <2>1. rx' = Append(rx, c) /\ worker # 0
    BY <1>8 DEF ActionCaptured
  <2>2. cutoff' = cutoff /\ recs' = recs /\ recording' = recording
    BY <1>8 DEF ActionCaptured, producer, record, catalog
  <2>3. c.rec = worker /\ c.dark = (cutoff.rec = worker) /\ c.at = now
    BY DEF Capture
  <2> HIDE DEF c
  <2>4. Past(c, cutoff, recording, recs)
    BY <2>1, <2>3 DEF Past, Fenced
  <2>5. i \in DOMAIN rx \/ rx'[i] = c
    BY <2>1, <1>0
  <2>6. i \in DOMAIN rx => rx'[i] = rx[i]
    BY <2>1, <1>0
  <2>7. QED
    BY <2>2, <2>4, <2>5, <2>6, <1>1
<1>9. CASE TakeInput
  <2>1. rx # <<>> /\ rx' = Tail(rx)
    BY <1>9 DEF TakeInput
  <2>2. cutoff' = cutoff /\ recs' = recs
    BY <1>9 DEF TakeInput, producer, catalog
  <2>3. recording' = recording
    BY <1>9 DEF TakeInput, Queue, QueueCaptured, DropStale, DropExcluded, StoreCaptured,
       DropAction, MarkGap, StoreAction, record
  <2>4. i + 1 \in DOMAIN rx /\ rx'[i] = rx[i + 1]
    BY <2>1, <1>0
  <2>5. QED
    BY <2>2, <2>3, <2>4, <1>1
<1>10. CASE PanicStop \/ WorkerStarts
  <2>1. rx' = rx /\ cutoff' = cutoff /\ recs' = recs /\ recording' = recording
    BY <1>10 DEF PanicStop, WorkerStarts, writerVars, restOfWriter, record, catalog
  <2>2. QED
    BY <2>1, <1>1
<1>11. QED
  BY <1>1, <1>3, <1>4, <1>5, <1>6, <1>7, <1>8, <1>9, <1>10, ChangesRecording, ChangesWorker,
     ChangesInput

(* An action is stored only if the fence lets it pass. *)
LEMMA KeptBeforeKey ==
    ASSUME TypeOK, Apart, NoActionPastPanic, PastOnTheirWay(rx, cutoff, recording, recs),
           [Next]_vars
    PROVE  NoActionPastPanic'
<1>n. ASSUME NEW R, \A r \in R : r.cap.kind \in {"action", "gap"} => ~r.cap.dark,
             Held' \subseteq Held \cup R
      PROVE  NoActionPastPanic'
  BY <1>n DEF NoActionPastPanic
<1>e. ASSUME NEW c \in Captures, c.kind \notin {"action", "gap"}, QueueCaptured(c)
      PROVE  NoActionPastPanic'
  <2>1. Scrubbed(c).kind = c.kind
    BY DEF Scrubbed, Captures, CaptureFields
  <2>2. CapturedRow(c).cap.kind = c.kind
    BY <2>1 DEF CapturedRow, Row
  <2>3. Held' \subseteq Held \/ Held' \subseteq Held \cup {CapturedRow(c)}
    BY <1>e, CapturedHeld DEF pending, Held
  <2>4. QED
    BY <2>2, <2>3, <1>e, <1>n DEF NoActionPastPanic
<1>1. CASE TakeInput
  <2> DEFINE a == Head(rx)
  <2>1. rx # <<>> /\ Queue(a)
    BY <1>1 DEF TakeInput
  <2>2. a \in Events \cup Acts /\ a = rx[1] /\ 1 \in DOMAIN rx
    BY <2>1 DEF Apart
  <2>3. a \in Captures /\ Past(a, cutoff, recording, recs)
    BY <2>2 DEF Events, Acts, PastOnTheirWay
  <2> HIDE DEF a
  <2>4. CASE a.kind # "action"
    <3>1. a.kind \notin {"action", "gap"}
      <4>1. a \in Events
        BY <2>2, <2>4 DEF Acts
      <4>2. QED
        BY <4>1 DEF Events, Captures
    <3>2. QED
      BY <2>1, <2>3, <2>4, <3>1, <1>e DEF Queue
  <2>5. CASE a.kind = "action"
    <3> DEFINE g == [a EXCEPT !.kind = "gap", !.app = NoApp]
    <3>1. ~ActionDropped(a) => ~a.dark
      BY <2>3, <2>5 DEF ActionDropped, PanicRejects, Past
    <3>2. Row(sq, a, FALSE).cap.dark = a.dark /\ Row(sq, g, FALSE).cap.dark = a.dark
      BY <2>3 DEF Row, Captures, CaptureFields
    <3>3. \/ UNCHANGED <<rows, batch, actions>>
          \/ ~ActionDropped(a) /\ batch' = batch
             /\ (PushAction(Row(sq, a, FALSE)) \/ PushAction(Row(sq, g, FALSE)))
      BY <2>1, <2>5, Zenon DEF Queue, DropAction, MarkGap, StoreAction, pending
    <3>4. CASE UNCHANGED <<rows, batch, actions>>
      BY <3>4 DEF NoActionPastPanic, Held
    <3>5. ASSUME NEW row \in {Row(sq, a, FALSE), Row(sq, g, FALSE)}, ~ActionDropped(a),
                 batch' = batch, PushAction(row)
          PROVE  NoActionPastPanic'
      <4>1. Held' \subseteq Held \cup {row}
        BY <3>5, RowPushed
      <4>2. ~row.cap.dark
        BY <3>1, <3>2, <3>5
      <4>3. QED
        BY <4>1, <4>2, Zenon DEF NoActionPastPanic
    <3>6. QED
      BY <3>3, <3>4, <3>5
  <2>6. QED
    BY <2>4, <2>5
<1>2. CASE Reemit
  <2>1. \/ UNCHANGED pending /\ rows' = rows
        \/ \E r \in todo : QueueCaptured([Capture("entered", NoApp) EXCEPT
                                             !.reason = r, !.at = cmd.at, !.dark = FALSE])
    BY <1>2, Zenon DEF Reemit
  <2>2. CASE UNCHANGED pending /\ rows' = rows
    BY <2>2 DEF NoActionPastPanic, Held, pending
  <2>3. ASSUME NEW r \in todo, QueueCaptured([Capture("entered", NoApp) EXCEPT
                                                 !.reason = r, !.at = cmd.at, !.dark = FALSE])
        PROVE  NoActionPastPanic'
    <3> DEFINE c == [Capture("entered", NoApp) EXCEPT !.reason = r, !.at = cmd.at, !.dark = FALSE]
    <3>1. c \in Captures
      BY ReemittedType
    <3>2. c.kind = "entered"
      BY DEF Capture
    <3> HIDE DEF c
    <3>3. QED
      BY <2>3, <3>1, <3>2, <1>e DEF c
  <2>4. QED
    BY <2>1, <2>2, <2>3
<1>3. CASE Start
  <2>1. batch' = {} /\ actions' = {}
    BY <1>3 DEF Start, FreshMemory
  <2>2. Held' \subseteq Held \/ \E n : Held' \subseteq Held \cup {Recovered(n)}
    BY <2>1, <1>3, StartGains DEF Held
  <2>3. \A n : Recovered(n).cap.kind = "focus"
    BY DEF Recovered
  <2>4. QED
    BY <2>2, <2>3, <1>n DEF NoActionPastPanic
<1>4. QED
  BY <1>1, <1>2, <1>3, NothingGained DEF NoActionPastPanic

LEMMA PanicInvariant == Spec => []PastInv
<1>1. Init => PastInv
  BY DEF Init, PastInv, NoActionPastPanic, PastOnTheirWay, Fenced, InLine, StartsAlone,
     PrivacyAlone, Held, NoCmd, NoCutoff, Privacy
<1>2. TypeOK /\ TypeOK' /\ Apart /\ PastInv /\ [Next]_vars => PastInv'
  BY InLineStep, FencedStep, PastStep, KeptBeforeKey DEF PastInv
<1>3. QED
  BY <1>1, <1>2, WriterTypeCorrect, ActionsApart, PTL DEF Spec

(***************************************************************************)
(* The panic key cuts at the keypress: an action captured after it is not    *)
(* kept, nor is a marker for it, though the worker stops later and its stop  *)
(* reaches the writer behind what it sent meanwhile; and neither a stop that *)
(* fails, nor recordings whose ids an erase began again, undo the fence.     *)
(***************************************************************************)
THEOREM NothingPastThePanicKey == Spec => []NoActionPastPanic
BY PanicInvariant, PTL DEF PastInv
-----------------------------------------------------------------------------
(* Captures as the capture side makes them. *)
ShapedFields(c) ==
    /\ c.kind # "gap"
    /\ c.kind \in {"notice", "wake", "cut", "entered", "exited"} => c.app = NoApp
    /\ c.kind # "focus" => c.prev = NoApp
    /\ c.kind # "action" /\ c.dark => Excluded # {}
Shaped == {c \in Captures : ShapedFields(c)}

ShapedInv == fwd \in Seq(Shaped) /\ rx \in Seq(Shaped)

LEMMA MadeShaped ==
    ASSUME NEW kind, NEW app, kind # "gap",
           kind \in {"notice", "wake", "cut", "entered", "exited"} => app = NoApp
    PROVE  LET c == Capture(kind, app)
           IN  /\ ShapedFields(c) /\ c.kind = kind /\ c.prev = NoApp
               /\ c.dark => focus \in Excluded \/ (blind /\ Excluded # {})
               /\ c.hot <=> active # {}
BY DEF Capture, ShapedFields

(* The rows of a change of focus, and the boundaries. *)
LEMMA FocusShaped ==
    ASSUME NEW app, NEW before, NEW dwell
    PROVE  LET c == [Capture("focus", app) EXCEPT !.prev = before, !.dur = dwell]
           IN  /\ ShapedFields(c) /\ c.kind = "focus" /\ c.app = app
               /\ c.hot <=> active # {}
BY DEF Capture, ShapedFields

LEMMA BoundaryShaped ==
    ASSUME NEW kind \in {"entered", "exited"}, NEW r
    PROVE  LET c == Boundary(kind, r)
           IN  /\ ShapedFields(c) /\ c.kind = kind /\ c.reason = r
               /\ c.dark => focus \in Excluded \/ (blind /\ Excluded # {})
BY DEF Boundary, Capture, ShapedFields

(* What Reconcile appends is made of boundaries. *)
LEMMA ReconcileAppends ==
    ASSUME TypeOK, Reconcile
    PROVE  \E out \in Orders(Reason), back \in Orders(active) :
              LET p == [i \in DOMAIN out |-> Boundary("exited", out[i])]
                  q == [i \in DOMAIN back |-> Boundary("entered", back[i])]
              IN  fwd' = (fwd \o p) \o q /\ p \in Seq(Captures) /\ q \in Seq(Captures)
<1>1. PICK out \in Orders(Reason), back \in Orders(active) :
         fwd' = fwd \o [i \in DOMAIN out |-> Boundary("exited", out[i])]
                    \o [i \in DOMAIN back |-> Boundary("entered", back[i])]
  BY Zenon DEF Reconcile
<1>2. now \in Int /\ active \in SUBSET Reason
  BY DEF TypeOK, ClocksOK, ProducerOK
<1>3. QED
  BY <1>1, <1>2, BoundariesType

(* The captures that are neither focus rows nor boundaries nor actions. *)
LEMMA PlainEmits ==
    ASSUME PlainCapture \/ CutCapture
    PROVE  \E kind, app :
              /\ Emit(Capture(kind, app)) /\ kind \notin {"gap", "focus", "action", "entered", "exited"}
              /\ kind \in {"notice", "wake", "cut"} => app = NoApp
<1>1. CASE PlainCapture
  <2>1. CASE \E app \in {NoApp, focus} : Emit(Capture("input", app))
    <3>1. PICK app \in {NoApp, focus} : Emit(Capture("input", app))
      BY <2>1
    <3>2. QED
      BY <3>1
  <2>2. CASE \E kind \in {"window", "process"}, app \in App : Emit(Capture(kind, app))
    <3>1. PICK kind \in {"window", "process"}, app \in App : Emit(Capture(kind, app))
      BY <2>2
    <3>2. kind \notin {"gap", "focus", "action", "entered", "exited", "notice", "wake", "cut"}
      BY <3>1
    <3>3. QED
      BY <3>1, <3>2
  <2>3. CASE \E kind \in {"notice", "wake"} : Emit(Capture(kind, NoApp))
    <3>1. PICK kind \in {"notice", "wake"} : Emit(Capture(kind, NoApp))
      BY <2>3
    <3>2. kind \notin {"gap", "focus", "action", "entered", "exited"}
      BY <3>1
    <3>3. QED
      BY <3>1, <3>2
  <2>4. QED
    BY <1>1, <2>1, <2>2, <2>3 DEF PlainCapture
<1>2. CASE CutCapture
  BY <1>2 DEF CutCapture
<1>3. QED
  BY <1>1, <1>2

LEMMA ShapedStep == TypeOK /\ TypeOK' /\ ShapedInv /\ [Next]_vars => ShapedInv'
<1> SUFFICES ASSUME TypeOK, TypeOK', ShapedInv, [Next]_vars PROVE ShapedInv'
  OBVIOUS
<1>0. fwd' \in Seq(Captures) /\ rx' \in Seq(Captures)
  BY DEF TypeOK, ChannelsOK
<1>e. ASSUME NEW c, Emit(c), ShapedFields(c), rx' = rx PROVE ShapedInv'
  <2>1. fwd' = Append(fwd, c) /\ fwd \in Seq(Shaped)
    BY <1>e DEF Emit, ShapedInv
  <2>2. c = fwd'[Len(fwd) + 1] /\ Len(fwd) + 1 \in 1 .. Len(fwd')
    BY <2>1
  <2>3. c \in Shaped
    BY <2>2, <1>0, <1>e DEF Shaped
  <2>4. QED
    BY <2>1, <2>3, <1>e DEF ShapedInv
<1>w. ASSUME UNCHANGED writerVars PROVE rx' = rx
  BY <1>w DEF writerVars
<1>1. ASSUME NEW app \in App, FocusTo(app) PROVE ShapedInv'
  <2>1. /\ Emit([Capture("focus", app) EXCEPT !.prev = focus,
                    !.dur = IF focus = NoApp THEN 0 ELSE now - since])
        /\ UNCHANGED writerVars
    BY <1>1 DEF FocusTo
  <2> DEFINE dwell == IF focus = NoApp THEN 0 ELSE now - since
             c == [Capture("focus", app) EXCEPT !.prev = focus, !.dur = dwell]
  <2>2. Emit(c)
    BY <2>1
  <2>3. ShapedFields(c)
    BY FocusShaped
  <2>4. rx' = rx
    BY <2>1, <1>w
  <2> HIDE DEF c
  <2>5. QED
    BY <2>2, <2>3, <2>4, <1>e
<1>2. CASE FocusClosed
  <2>1. /\ Emit([Capture("focus", focus) EXCEPT !.prev = focus, !.dur = now - since])
        /\ UNCHANGED writerVars
    BY <1>2 DEF FocusClosed
  <2>2. QED
    BY <2>1, FocusShaped, <1>e, <1>w
<1>3. CASE PlainCapture \/ CutCapture
  <2>1. PICK kind, app :
              /\ Emit(Capture(kind, app)) /\ kind \notin {"gap", "focus", "action", "entered", "exited"}
              /\ kind \in {"notice", "wake", "cut"} => app = NoApp
    BY <1>3, PlainEmits
  <2>2. ShapedFields(Capture(kind, app))
    BY <2>1, MadeShaped
  <2>3. rx' = rx
    BY <1>3, <1>w DEF PlainCapture, CutCapture
  <2>4. QED
    BY <2>1, <2>2, <2>3, <1>e
<1>4. ASSUME NEW r \in Reason, SensitiveBoundary(r) PROVE ShapedInv'
  <2>1. /\ fwd' = fwd \/ \E kind \in {"entered", "exited"} : Emit(Boundary(kind, r))
        /\ UNCHANGED writerVars
    BY <1>4, Zenon DEF SensitiveBoundary
  <2>2. QED
    BY <2>1, BoundaryShaped, <1>e, <1>w DEF ShapedInv
<1>5. CASE ResumeCapture
  <2>1. (fwd' = fwd \/ Reconcile) /\ rx' = rx
    BY <1>5, <1>w, Zenon DEF ResumeCapture
  <2>2. CASE Reconcile
    <3>1. PICK out \in Orders(Reason), back \in Orders(active) :
              LET p == [i \in DOMAIN out |-> Boundary("exited", out[i])]
                  q == [i \in DOMAIN back |-> Boundary("entered", back[i])]
              IN  fwd' = (fwd \o p) \o q /\ p \in Seq(Captures) /\ q \in Seq(Captures)
      BY <2>2, ReconcileAppends
    <3> DEFINE p == [i \in DOMAIN out |-> Boundary("exited", out[i])]
               q == [i \in DOMAIN back |-> Boundary("entered", back[i])]
    <3>2. (\A i \in DOMAIN p : ShapedFields(p[i])) /\ (\A i \in DOMAIN q : ShapedFields(q[i]))
      BY BoundaryShaped
    <3>3. fwd' = (fwd \o p) \o q /\ p \in Seq(Captures) /\ q \in Seq(Captures)
      BY <3>1
    <3> HIDE DEF p, q
    <3>4. p \in Seq(Shaped) /\ q \in Seq(Shaped)
      BY <3>2, <3>3 DEF Shaped
    <3>5. QED
      BY <3>3, <3>4, <2>1, ConcatProperties DEF ShapedInv
  <2>3. QED
    BY <2>1, <2>2 DEF ShapedInv
<1>6. CASE Forward
  <2>1. /\ fwd # <<>> /\ rx' = Append(rx, Head(fwd)) /\ fwd' = Tail(fwd)
        /\ fwd \in Seq(Shaped) /\ rx \in Seq(Shaped)
    BY <1>6 DEF Forward, ShapedInv
  <2>2. QED
    BY <2>1 DEF ShapedInv
<1>7. ASSUME NEW app \in App \cup {NoApp}, ActionCaptured(app) PROVE ShapedInv'
  <2> DEFINE c == [Capture("action", app) EXCEPT !.rec = worker, !.dark = cutoff.rec = worker]
  <2>1. rx' = Append(rx, c) /\ fwd' = fwd /\ rx \in Seq(Shaped)
    BY <1>7 DEF ActionCaptured, ShapedInv
  <2>2. ShapedFields(c)
    BY DEF Capture, ShapedFields
  <2> HIDE DEF c
  <2>3. c = rx'[Len(rx) + 1] /\ Len(rx) + 1 \in 1 .. Len(rx')
    BY <2>1
  <2>4. c \in Shaped
    BY <2>2, <2>3, <1>0 DEF Shaped
  <2>5. QED
    BY <2>1, <2>4 DEF ShapedInv
<1>8. CASE TakeInput
  <2>1. rx # <<>> /\ rx' = Tail(rx) /\ fwd' = fwd
    BY <1>8 DEF TakeInput
  <2>2. QED
    BY <2>1 DEF ShapedInv
<1>9. CASE Crash \/ Start
  <2>1. fwd' = <<>> /\ rx' = <<>>
    BY <1>9 DEF Crash, Start, FreshMemory
  <2>2. QED
    BY <2>1 DEF ShapedInv
<1>10. CASE \/ CloseGate \/ SendForget \/ OpenGate \/ Tick \/ WallStep
            \/ RecordCommand \/ PanicArm \/ PanicStop \/ WorkerStarts \/ WorkerStops
            \/ PrivacyCommand \/ Shutdown
  BY <1>10 DEF CloseGate, SendForget, OpenGate, Tick, WallStep, RecordCommand, PanicArm,
     PanicStop, WorkerStarts, WorkerStops, PrivacyCommand, Shutdown, writerVars, restOfWriter,
     ShapedInv
<1>11. CASE \/ FlushTick \/ Heartbeat \/ BeatOpenFocus
            \/ StartRecording \/ PauseRecording \/ ResumeRecording
            \/ RefusePrivacy \/ BeginDrain
            \/ FinishForget \/ FinishStop \/ Reset \/ Replace \/ ReplaceFails \/ Reemit \/ Stop
  BY <1>11 DEF FlushTick, Heartbeat, BeatOpenFocus, StartRecording, PauseRecording,
     ResumeRecording, RefusePrivacy, BeginDrain, FinishForget, FinishStop, Reset, Replace,
     ReplaceFails, Reemit, Stop, ShapedInv
<1>12. CASE UNCHANGED vars
  BY <1>12 DEF vars, ShapedInv
<1>13. QED
  BY <1>1, <1>2, <1>3, <1>4, <1>5, <1>6, <1>7, <1>8, <1>9, <1>10, <1>11, <1>12, Zenon DEF Next

LEMMA ShapedInvariant == Spec => []ShapedInv
<1>1. Init => ShapedInv
  BY DEF Init, ShapedInv
<1>2. QED
  BY <1>1, ShapedStep, WriterTypeCorrect, PTL DEF Spec
-----------------------------------------------------------------------------
(***************************************************************************)
(* The latch and the focus rows under way to it.                           *)
(***************************************************************************)
(* Focus rows that hide what follows them, and those that show it. *)
Hides == {c \in Captures : c.kind = "focus" /\ c.app \in Excluded}
Shows == {c \in Captures : c.kind = "focus" /\ c.app \notin Excluded}
Hidden == latch # "allowed"
HiddenThen == LitAfter(rx, Hidden, Hides, Shows)

(* A capture that names no app of its own, taken where none may be named. *)
Dim == {c \in Captures : Unattributed(c) /\ c.dark}

(* The gate passes nothing on while it sees what the policy may not.        *)
Unseen == focus \in Excluded \/ (blind /\ Excluded # {})

(* By its turn a dim capture is hidden, and so is one taken now.            *)
DimInRx == \A i \in 1 .. Len(rx) : rx[i] \in Dim => Lit(rx, i, Hidden, Hides, Shows)
DimInFwd == \A i \in 1 .. Len(fwd) : fwd[i] \in Dim => Lit(fwd, i, HiddenThen, Hides, Shows)
NextIsDim == Unseen => LitAfter(fwd, HiddenThen, Hides, Shows)

(* The forget finds no focus row behind it, unless another is to follow.    *)
ShutGate ==
    /\ ~gate /\ ~flushing => \A i \in 1 .. Len(fwd) : fwd[i].kind # "focus"
    /\ blind => ~gate

DimFollow == DimInRx /\ DimInFwd /\ NextIsDim /\ ShutGate

LEMMA HiddenTypes == Hidden \in BOOLEAN /\ HiddenThen \in BOOLEAN
BY LitIsBoolean DEF Hidden, HiddenThen, LitAfter

(* A focus row is not dim, and a capture that is none neither hides nor     *)
(* shows anything.                                                         *)
LEMMA FocusRows ==
    ASSUME NEW c \in Captures
    PROVE  /\ c.kind = "focus" => c \notin Dim
           /\ c.kind # "focus" => c \notin Hides /\ c \notin Shows
BY DEF Dim, Unattributed, Hides, Shows

(* A capture that is emitted joins fwd. *)
LEMMA DimEmitted ==
    ASSUME TypeOK, fwd' \in Seq(Captures), DimFollow, NEW c, fwd' = Append(fwd, c),
           rx' = rx, latch' = latch, c \in Dim => Unseen
    PROVE  /\ c \in Captures /\ DimInRx' /\ DimInFwd'
           /\ c \in Hides \/ (Unseen /\ c \notin Shows)
                 => LitAfter(fwd', HiddenThen', Hides, Shows)
<1>1. fwd \in Seq(Captures)
  BY DEF TypeOK, ChannelsOK
<1>2. Len(fwd') = Len(fwd) + 1 /\ Len(fwd) \in Nat /\ fwd'[Len(fwd) + 1] = c
      /\ \A i \in 1 .. Len(fwd) : fwd'[i] = fwd[i]
  BY <1>1
<1>3. c \in Captures
  <2>1. Len(fwd) + 1 \in 1 .. Len(fwd')
    BY <1>2
  <2>2. QED
    BY <1>2, <2>1
<1>4. Hidden' = Hidden /\ HiddenThen' = HiddenThen /\ DimInRx'
  BY DEF Hidden, HiddenThen, DimFollow, DimInRx
<1>5. /\ \A i \in 1 .. Len(fwd) + 1 : Lit(fwd, i, HiddenThen, Hides, Shows)
                => Lit(fwd', i, HiddenThen, Hides, Shows)
      /\ c \in Hides \/ (LitAfter(fwd, HiddenThen, Hides, Shows) /\ c \notin Shows)
            => LitAfter(fwd', HiddenThen, Hides, Shows)
  BY <1>1, <1>3, LitAppended, HiddenTypes
<1>6. Unseen => Lit(fwd, Len(fwd) + 1, HiddenThen, Hides, Shows)
  BY DEF DimFollow, NextIsDim, LitAfter
<1>7. DimInFwd'
  <2> SUFFICES ASSUME NEW i \in 1 .. Len(fwd'), fwd'[i] \in Dim
               PROVE  Lit(fwd', i, HiddenThen, Hides, Shows)
    BY <1>4 DEF DimInFwd
  <2>1. CASE i \in 1 .. Len(fwd)
    <3>1. Lit(fwd, i, HiddenThen, Hides, Shows)
      BY <2>1, <1>2 DEF DimFollow, DimInFwd
    <3>2. i \in 1 .. Len(fwd) + 1
      BY <2>1, <1>2
    <3>3. QED
      BY <3>1, <3>2, <1>5
  <2>2. CASE i = Len(fwd) + 1
    <3>1. Unseen
      BY <2>2, <1>2
    <3>2. Len(fwd) + 1 \in 1 .. Len(fwd) + 1
      BY <1>2
    <3>3. QED
      BY <3>1, <3>2, <1>5, <1>6, <2>2
  <2>3. QED
    BY <2>1, <2>2, <1>2
<1>8. QED
  BY <1>3, <1>4, <1>5, <1>7 DEF DimFollow, NextIsDim

(* Where no channel and no latch changes, and nothing more is unseen. *)
LEMMA DimKept ==
    ASSUME DimFollow, fwd' = fwd, rx' = rx, latch' = latch, Unseen' => Unseen, ShutGate'
    PROVE  DimFollow'
<1>1. Hidden' = Hidden /\ HiddenThen' = HiddenThen
  BY DEF Hidden, HiddenThen
<1>2. QED
  BY <1>1 DEF DimFollow, DimInRx, DimInFwd, NextIsDim

(* The forwarder hands on the oldest capture. *)
LEMMA DimForwarded == TypeOK /\ DimFollow /\ Forward => DimFollow'
<1> SUFFICES ASSUME TypeOK, DimFollow, Forward PROVE DimFollow'
  OBVIOUS
<1> DEFINE c == Head(fwd)
<1>1. /\ fwd \in Seq(Captures) /\ rx \in Seq(Captures) /\ fwd # <<>>
      /\ rx' = Append(rx, c) /\ fwd' = Tail(fwd)
      /\ UNCHANGED <<latch, focus, blind, gate, flushing>>
  BY DEF Forward, TypeOK, ChannelsOK, producer, policy
<1>2. /\ c \in Captures /\ c = fwd[1] /\ Len(fwd) \in Nat /\ Len(fwd) > 0
      /\ Len(fwd') = Len(fwd) - 1 /\ \A i \in 1 .. Len(fwd') : fwd'[i] = fwd[i + 1]
      /\ Len(rx) \in Nat /\ Len(rx') = Len(rx) + 1 /\ rx'[Len(rx) + 1] = c
      /\ \A i \in 1 .. Len(rx) : rx'[i] = rx[i]
  BY <1>1
<1> HIDE DEF c
<1>3. Hidden' = Hidden /\ Hidden \in BOOLEAN /\ HiddenThen \in BOOLEAN /\ HiddenThen' \in BOOLEAN
  BY <1>1, HiddenTypes, LitIsBoolean DEF Hidden, HiddenThen, LitAfter
<1>4. /\ \A i \in 1 .. Len(rx) + 1 : Lit(rx, i, Hidden, Hides, Shows)
                => Lit(rx', i, Hidden, Hides, Shows)
      /\ c \in Hides \/ (HiddenThen /\ c \notin Shows) => HiddenThen'
  BY <1>1, <1>2, <1>3, LitAppended DEF HiddenThen
<1>5. /\ Lit(fwd, 1, HiddenThen, Hides, Shows) => HiddenThen
      /\ \A i \in 1 .. Len(fwd) : Lit(fwd, i + 1, HiddenThen, Hides, Shows)
                => Lit(fwd', i, HiddenThen', Hides, Shows)
      /\ LitAfter(fwd, HiddenThen, Hides, Shows) => LitAfter(fwd', HiddenThen', Hides, Shows)
  <2> DEFINE b == HiddenThen  then == HiddenThen'
  <2>1. /\ fwd \in Seq(Captures) /\ fwd # <<>> /\ b \in BOOLEAN /\ then \in BOOLEAN
        /\ Head(fwd) \in Hides \/ (b /\ Head(fwd) \notin Shows) => then
    BY <1>1, <1>3, <1>4 DEF c
  <2> HIDE DEF b, then
  <2>2. /\ Lit(fwd, 1, b, Hides, Shows) => b
        /\ \A i \in 1 .. Len(fwd) : Lit(fwd, i + 1, b, Hides, Shows)
                  => Lit(Tail(fwd), i, then, Hides, Shows)
        /\ LitAfter(fwd, b, Hides, Shows) => LitAfter(Tail(fwd), then, Hides, Shows)
    BY <2>1, LitTaken
  <2>3. QED
    BY <1>1, <2>2 DEF b, then
<1>6. DimInRx'
  <2> SUFFICES ASSUME NEW i \in 1 .. Len(rx'), rx'[i] \in Dim
               PROVE  Lit(rx', i, Hidden, Hides, Shows)
    BY <1>3 DEF DimInRx
  <2>1. CASE i \in 1 .. Len(rx)
    <3>1. Lit(rx, i, Hidden, Hides, Shows) /\ i \in 1 .. Len(rx) + 1
      BY <2>1, <1>2 DEF DimFollow, DimInRx
    <3>2. QED
      BY <3>1, <1>4
  <2>2. CASE i = Len(rx) + 1
    <3>1. 1 \in 1 .. Len(fwd) /\ fwd[1] \in Dim
      BY <2>2, <1>2
    <3>2. HiddenThen
      BY <3>1, <1>5 DEF DimFollow, DimInFwd
    <3>3. QED
      BY <3>2, <2>2, <1>2, <1>4 DEF HiddenThen, LitAfter
  <2>3. QED
    BY <2>1, <2>2, <1>2
<1>7. DimInFwd'
  <2> SUFFICES ASSUME NEW i \in 1 .. Len(fwd'), fwd'[i] \in Dim
               PROVE  Lit(fwd', i, HiddenThen', Hides, Shows)
    BY DEF DimInFwd
  <2>1. i + 1 \in 1 .. Len(fwd) /\ i \in 1 .. Len(fwd) /\ fwd[i + 1] \in Dim
    BY <1>2
  <2>2. QED
    BY <2>1, <1>5 DEF DimFollow, DimInFwd
<1>8. NextIsDim' /\ ShutGate'
  <2>1. \A i \in 1 .. Len(fwd') : i + 1 \in 1 .. Len(fwd)
    BY <1>2
  <2>2. QED
    BY <2>1, <1>1, <1>2, <1>5 DEF DimFollow, NextIsDim, Unseen, ShutGate
<1>9. QED
  BY <1>6, <1>7, <1>8 DEF DimFollow

(* An action of the record worker goes to the writer's input directly. *)
LEMMA DimAction ==
    ASSUME TypeOK, rx' \in Seq(Captures), DimFollow, NEW app, ActionCaptured(app)
    PROVE  DimFollow'
<1> DEFINE c == [Capture("action", app) EXCEPT !.rec = worker, !.dark = cutoff.rec = worker]
<1>1. /\ rx \in Seq(Captures) /\ rx' = Append(rx, c) /\ fwd' = fwd
      /\ UNCHANGED <<latch, focus, blind, gate, flushing>>
  BY DEF ActionCaptured, TypeOK, ChannelsOK, producer, policy
<1>2. c.kind = "action"
  BY DEF Capture
<1> HIDE DEF c
<1>3. /\ Len(rx) \in Nat /\ Len(rx') = Len(rx) + 1 /\ rx'[Len(rx) + 1] = c
      /\ \A i \in 1 .. Len(rx) : rx'[i] = rx[i]
  BY <1>1
<1>4. c \in Captures
  <2>1. Len(rx) + 1 \in 1 .. Len(rx')
    BY <1>3
  <2>2. QED
    BY <1>3, <2>1
<1>5. c \notin Dim /\ c \notin Shows
  BY <1>2 DEF Dim, Unattributed, Shows
<1>6. Hidden' = Hidden /\ Hidden \in BOOLEAN /\ HiddenThen \in BOOLEAN /\ HiddenThen' \in BOOLEAN
  BY <1>1, HiddenTypes, LitIsBoolean DEF Hidden, HiddenThen, LitAfter
<1>7. /\ \A i \in 1 .. Len(rx) + 1 : Lit(rx, i, Hidden, Hides, Shows)
                => Lit(rx', i, Hidden, Hides, Shows)
      /\ HiddenThen => HiddenThen'
  BY <1>1, <1>4, <1>5, <1>6, LitAppended DEF HiddenThen
<1>8. \A i : Lit(fwd, i, HiddenThen, Hides, Shows) => Lit(fwd, i, HiddenThen', Hides, Shows)
  <2> DEFINE b == HiddenThen  then == HiddenThen'
  <2>1. b \in BOOLEAN /\ then \in BOOLEAN /\ (b => then)
    BY <1>6, <1>7
  <2> HIDE DEF b, then
  <2>2. \A i : Lit(fwd, i, b, Hides, Shows) => Lit(fwd, i, then, Hides, Shows)
    BY <2>1, LitMore
  <2>3. QED
    BY <2>2 DEF b, then
<1>9. DimInRx'
  <2> SUFFICES ASSUME NEW i \in 1 .. Len(rx'), rx'[i] \in Dim
               PROVE  Lit(rx', i, Hidden, Hides, Shows)
    BY <1>6 DEF DimInRx
  <2>1. i \in 1 .. Len(rx) /\ rx[i] \in Dim
    BY <1>3, <1>5
  <2>2. Lit(rx, i, Hidden, Hides, Shows) /\ i \in 1 .. Len(rx) + 1
    BY <2>1, <1>3 DEF DimFollow, DimInRx
  <2>3. QED
    BY <2>2, <1>7
<1>10. QED
  BY <1>1, <1>8, <1>9 DEF DimFollow, DimInFwd, NextIsDim, Unseen, ShutGate, LitAfter

(* The writer takes the oldest input: what it leaves in the latch is what    *)
(* the rest of the inputs finds there.                                     *)
LEMMA DimTaken ==
    ASSUME TypeOK, DimFollow, rx # <<>>, rx' = Tail(rx), fwd' = fwd,
           latch' = LatchAfter(Head(rx), latch),
           UNCHANGED <<focus, blind, gate, flushing>>
    PROVE  DimFollow' /\ (Head(rx) \in Dim => Hidden)
<1> DEFINE c == Head(rx)
<1>1. rx \in Seq(Captures)
  BY DEF TypeOK, ChannelsOK
<1>2. /\ c \in Captures /\ c = rx[1] /\ Len(rx) \in Nat /\ Len(rx) > 0
      /\ Len(rx') = Len(rx) - 1 /\ \A i \in 1 .. Len(rx') : rx'[i] = rx[i + 1]
  BY <1>1
<1>3. c \in Hides \/ (Hidden /\ c \notin Shows) => Hidden'
  BY <1>2 DEF LatchAfter, Hidden, Hides, Shows
<1>4. Hidden \in BOOLEAN /\ Hidden' \in BOOLEAN /\ HiddenThen \in BOOLEAN /\ HiddenThen' \in BOOLEAN
  BY HiddenTypes, LitIsBoolean DEF Hidden, HiddenThen, LitAfter
<1>5. /\ Lit(rx, 1, Hidden, Hides, Shows) => Hidden
      /\ \A i \in 1 .. Len(rx) : Lit(rx, i + 1, Hidden, Hides, Shows)
                => Lit(rx', i, Hidden', Hides, Shows)
      /\ LitAfter(rx, Hidden, Hides, Shows) => LitAfter(rx', Hidden', Hides, Shows)
  <2> DEFINE b == Hidden  then == Hidden'
  <2>1. /\ b \in BOOLEAN /\ then \in BOOLEAN
        /\ Head(rx) \in Hides \/ (b /\ Head(rx) \notin Shows) => then
    BY <1>3, <1>4
  <2> HIDE DEF b, then, c
  <2>2. /\ Lit(rx, 1, b, Hides, Shows) => b
        /\ \A i \in 1 .. Len(rx) : Lit(rx, i + 1, b, Hides, Shows)
                  => Lit(Tail(rx), i, then, Hides, Shows)
        /\ LitAfter(rx, b, Hides, Shows) => LitAfter(Tail(rx), then, Hides, Shows)
    BY <1>1, <2>1, LitTaken
  <2>3. QED
    BY <2>2 DEF b, then
<1> HIDE DEF c
<1>6. HiddenThen => HiddenThen'
  BY <1>5 DEF HiddenThen
<1>7. \A i : Lit(fwd, i, HiddenThen, Hides, Shows) => Lit(fwd, i, HiddenThen', Hides, Shows)
  <2> DEFINE b == HiddenThen  then == HiddenThen'
  <2>1. b \in BOOLEAN /\ then \in BOOLEAN /\ (b => then)
    BY <1>4, <1>6
  <2> HIDE DEF b, then
  <2>2. \A i : Lit(fwd, i, b, Hides, Shows) => Lit(fwd, i, then, Hides, Shows)
    BY <2>1, LitMore
  <2>3. QED
    BY <2>2 DEF b, then
<1>8. DimInRx'
  <2> SUFFICES ASSUME NEW i \in 1 .. Len(rx'), rx'[i] \in Dim
               PROVE  Lit(rx', i, Hidden', Hides, Shows)
    BY DEF DimInRx
  <2>1. i + 1 \in 1 .. Len(rx) /\ i \in 1 .. Len(rx) /\ rx[i + 1] \in Dim
    BY <1>2
  <2>2. QED
    BY <2>1, <1>5 DEF DimFollow, DimInRx
<1>9. DimInFwd' /\ NextIsDim' /\ ShutGate'
  BY <1>7 DEF DimFollow, DimInFwd, NextIsDim, Unseen, ShutGate, LitAfter
<1>10. Head(rx) \in Dim => Hidden
  <2>1. 1 \in 1 .. Len(rx)
    BY <1>2
  <2>2. QED
    BY <2>1, <1>2, <1>5 DEF c, DimFollow, DimInRx
<1>11. QED
  BY <1>8, <1>9, <1>10 DEF DimFollow

(* The boundaries of a reconcile neither hide nor show anything. *)
LEMMA DimReconciled ==
    ASSUME TypeOK, DimFollow, Reconcile, rx' = rx, latch' = latch, focus' = NoApp,
           UNCHANGED <<blind, gate, flushing>>
    PROVE  DimFollow'
<1>1. PICK out \in Orders(Reason), back \in Orders(active) :
          LET p == [i \in DOMAIN out |-> Boundary("exited", out[i])]
              q == [i \in DOMAIN back |-> Boundary("entered", back[i])]
          IN  fwd' = (fwd \o p) \o q /\ p \in Seq(Captures) /\ q \in Seq(Captures)
  BY ReconcileAppends
<1> DEFINE p == [i \in DOMAIN out |-> Boundary("exited", out[i])]
           q == [i \in DOMAIN back |-> Boundary("entered", back[i])]
           t == p \o q
           Bounds == {c \in Captures : c.kind \in {"entered", "exited"} /\ (c.dark => Unseen)}
<1>2. p \in Seq(Captures) /\ q \in Seq(Captures) /\ fwd \in Seq(Captures)
  BY <1>1 DEF TypeOK, ChannelsOK
<1>3. (\A i \in DOMAIN p : p[i].kind = "exited" /\ (p[i].dark => Unseen))
      /\ (\A i \in DOMAIN q : q[i].kind = "entered" /\ (q[i].dark => Unseen))
  BY BoundaryShaped DEF Unseen
<1>4. fwd' = (fwd \o p) \o q
  BY <1>1
<1> HIDE DEF p, q
<1>5. p \in Seq(Bounds) /\ q \in Seq(Bounds)
  BY <1>2, <1>3
<1>6. t \in Seq(Bounds) /\ t \in Seq(Captures) /\ fwd' = fwd \o t
  BY <1>2, <1>4, <1>5, ConcatProperties, ConcatAssociative
<1> HIDE DEF t
<1>7. \A i \in 1 .. Len(t) : t[i] \in Bounds
  BY <1>6
<1>8. /\ Len(fwd) \in Nat /\ Len(t) \in Nat /\ Len(fwd') = Len(fwd) + Len(t)
      /\ \A k \in 1 .. Len(fwd) : fwd'[k] = fwd[k]
      /\ \A k \in 1 .. Len(t) : fwd'[Len(fwd) + k] = t[k]
  BY <1>2, <1>6, ConcatProperties
<1>9. Hidden' = Hidden /\ HiddenThen' = HiddenThen /\ HiddenThen \in BOOLEAN
  BY HiddenTypes DEF Hidden, HiddenThen
<1>10. \A k \in 1 .. Len(t) : t[k] \notin Shows
  BY <1>7 DEF Shows
<1>11. /\ \A i \in 1 .. Len(fwd) : Lit(fwd, i, HiddenThen, Hides, Shows)
                => Lit(fwd', i, HiddenThen, Hides, Shows)
       /\ LitAfter(fwd, HiddenThen, Hides, Shows)
                => \A i \in 1 .. Len(t) + 1 : Lit(fwd', Len(fwd) + i, HiddenThen, Hides, Shows)
  BY <1>2, <1>6, <1>9, <1>10, LitJoined
<1>12. DimInFwd'
  <2> SUFFICES ASSUME NEW i \in 1 .. Len(fwd'), fwd'[i] \in Dim
               PROVE  Lit(fwd', i, HiddenThen, Hides, Shows)
    BY <1>9 DEF DimInFwd
  <2>1. CASE i \in 1 .. Len(fwd)
    BY <2>1, <1>8, <1>11 DEF DimFollow, DimInFwd
  <2>2. CASE i \notin 1 .. Len(fwd)
    <3>1. /\ i - Len(fwd) \in 1 .. Len(t) /\ i - Len(fwd) \in 1 .. Len(t) + 1
          /\ i = Len(fwd) + (i - Len(fwd)) /\ fwd'[i] = t[i - Len(fwd)]
      BY <2>2, <1>8
    <3>2. Unseen
      BY <3>1, <1>7 DEF Dim
    <3>3. QED
      BY <3>1, <3>2, <1>11 DEF DimFollow, NextIsDim
  <2>3. QED
    BY <2>1, <2>2
<1>13. NextIsDim'
  <2>1. Unseen' => Unseen
    BY PolicyAssumption DEF Unseen
  <2>2. Len(fwd') + 1 = Len(fwd) + (Len(t) + 1) /\ Len(t) + 1 \in 1 .. Len(t) + 1
    BY <1>8
  <2>3. QED
    BY <2>1, <2>2, <1>9, <1>11 DEF DimFollow, NextIsDim, LitAfter
<1>14. ShutGate'
  <2>1. \A i \in 1 .. Len(fwd') : i \in 1 .. Len(fwd) \/ fwd'[i].kind # "focus"
    <3> SUFFICES ASSUME NEW i \in 1 .. Len(fwd'), i \notin 1 .. Len(fwd)
                 PROVE  fwd'[i].kind # "focus"
      OBVIOUS
    <3>1. i - Len(fwd) \in 1 .. Len(t) /\ fwd'[i] = t[i - Len(fwd)]
      BY <1>8
    <3>2. QED
      BY <3>1, <1>7
  <2>2. QED
    BY <2>1, <1>8 DEF DimFollow, ShutGate
<1>15. QED
  BY <1>9, <1>12, <1>13, <1>14 DEF DimFollow, DimInRx
-----------------------------------------------------------------------------
(* The erase gate drops no capture that the policy learns from.             *)
NoBoundaryStale ==
    \A i \in 1 .. Len(rx) : rx[i].kind \in {"focus", "entered", "exited"} => ~Stale(rx[i])

(* Then every turn of the writer's input moves the policy on. *)
LEMMA PolicyFollows ==
    ASSUME TypeOK, NoBoundaryStale, TakeInput
    PROVE  /\ rx # <<>> /\ rx' = Tail(rx) /\ fwd' = fwd /\ UNCHANGED producer
           /\ latch' = LatchAfter(Head(rx), latch)
           /\ reasons' = ReasonsAfter(Head(rx), reasons)
<1> DEFINE c == Head(rx)
<1>1. rx # <<>> /\ rx' = Tail(rx) /\ fwd' = fwd /\ UNCHANGED producer /\ Queue(c)
  BY DEF TakeInput
<1>2. c \in Captures /\ c = rx[1] /\ 1 \in 1 .. Len(rx)
  BY <1>1 DEF TypeOK, ChannelsOK
<1> HIDE DEF c
<1>3. CASE c.kind = "action"
  <2>1. latch' = latch /\ reasons' = reasons
    BY <1>1, <1>3 DEF Queue, DropAction, MarkGap, StoreAction, policy
  <2>2. LatchAfter(c, latch) = latch /\ ReasonsAfter(c, reasons) = reasons
    BY <1>3 DEF LatchAfter, ReasonsAfter
  <2>3. QED
    BY <1>1, <2>1, <2>2 DEF c
<1>4. CASE c.kind # "action"
  <2>1. DropStale(c) \/ ApplyPolicyState(c)
    BY <1>1, <1>4 DEF Queue, QueueCaptured, DropExcluded, StoreCaptured
  <2>2. CASE c.kind \in {"focus", "entered", "exited"}
    <3>1. ~DropStale(c)
      BY <1>2, <2>2 DEF NoBoundaryStale, DropStale
    <3>2. QED
      BY <1>1, <2>1, <3>1 DEF ApplyPolicyState, c
  <2>3. CASE c.kind \notin {"focus", "entered", "exited"}
    <3>1. LatchAfter(c, latch) = latch /\ ReasonsAfter(c, reasons) = reasons
      BY <2>3 DEF LatchAfter, ReasonsAfter
    <3>2. QED
      BY <1>1, <2>1, <3>1 DEF DropStale, ApplyPolicyState, policy, c
  <2>4. QED
    BY <2>2, <2>3
<1>5. QED
  BY <1>3, <1>4

LEMMA DimStep ==
    TypeOK /\ TypeOK' /\ NoBoundaryStale /\ DimFollow /\ [Next]_vars => DimFollow'
<1> SUFFICES ASSUME TypeOK, TypeOK', NoBoundaryStale, DimFollow, [Next]_vars PROVE DimFollow'
  OBVIOUS
<1>0. fwd' \in Seq(Captures) /\ rx' \in Seq(Captures) /\ NoApp \notin Excluded
  BY PolicyAssumption DEF TypeOK, ChannelsOK
<1>w. ASSUME UNCHANGED writerVars PROVE rx' = rx /\ latch' = latch
  BY <1>w DEF writerVars, policy
<1>q. ASSUME NEW c, Emit(c), c.kind # "focus", c.dark => Unseen,
             focus' \in Excluded => focus \in Excluded,
             UNCHANGED <<blind, gate, flushing>>, UNCHANGED writerVars
      PROVE  DimFollow'
  <2>1. fwd' = Append(fwd, c) /\ fwd \in Seq(Captures)
    BY <1>q DEF Emit, TypeOK, ChannelsOK
  <2>2. /\ c \in Captures /\ DimInRx' /\ DimInFwd'
        /\ Unseen /\ c \notin Shows => LitAfter(fwd', HiddenThen', Hides, Shows)
    BY <2>1, <1>0, <1>q, <1>w, DimEmitted DEF Dim
  <2>3. c \notin Shows /\ (Unseen' => Unseen)
    BY <1>q DEF Shows, Unseen
  <2>4. ShutGate'
    <3>1. \A i \in 1 .. Len(fwd') : fwd'[i] = c \/ (i \in 1 .. Len(fwd) /\ fwd'[i] = fwd[i])
      BY <2>1
    <3>2. QED
      BY <3>1, <1>q DEF DimFollow, ShutGate
  <2>5. QED
    BY <2>2, <2>3, <2>4 DEF DimFollow, NextIsDim
<1>f. ASSUME NEW c, Emit(c), c.kind = "focus", gate, gate' = gate, UNCHANGED writerVars,
             blind' = FALSE \/ blind' = blind, focus' \in Excluded => c.app \in Excluded
      PROVE  DimFollow'
  <2>1. fwd' = Append(fwd, c)
    BY <1>f DEF Emit
  <2>2. c \notin Dim
    BY <1>f DEF Dim, Unattributed
  <2>3. /\ c \in Captures /\ DimInRx' /\ DimInFwd'
        /\ c \in Hides => LitAfter(fwd', HiddenThen', Hides, Shows)
    BY <2>1, <2>2, <1>0, <1>f, <1>w, DimEmitted
  <2>4. blind' = FALSE
    BY <1>f DEF DimFollow, ShutGate
  <2>5. NextIsDim' /\ ShutGate'
    BY <2>3, <2>4, <1>f DEF NextIsDim, Unseen, Hides, ShutGate
  <2>6. QED
    BY <2>3, <2>5 DEF DimFollow
<1>1. ASSUME NEW app \in App, FocusTo(app) PROVE DimFollow'
  <2> DEFINE c == [Capture("focus", app) EXCEPT !.prev = focus,
                      !.dur = IF focus = NoApp THEN 0 ELSE now - since]
  <2>1. Emit(c) /\ gate /\ gate' = gate /\ UNCHANGED writerVars /\ blind' = FALSE /\ focus' = app
    BY <1>1 DEF FocusTo
  <2>2. c.kind = "focus" /\ c.app = app
    BY DEF Capture
  <2> HIDE DEF c
  <2>3. QED
    BY <2>1, <2>2, <1>f
<1>2. CASE FocusClosed
  <2> DEFINE c == [Capture("focus", focus) EXCEPT !.prev = focus, !.dur = now - since]
  <2>1. Emit(c) /\ gate /\ gate' = gate /\ UNCHANGED writerVars /\ blind' = blind /\ focus' = NoApp
    BY <1>2 DEF FocusClosed
  <2>2. c.kind = "focus"
    BY DEF Capture
  <2> HIDE DEF c
  <2>3. QED
    BY <2>1, <2>2, <1>0, <1>f
<1>3. CASE PlainCapture \/ CutCapture
  <2>1. PICK kind, app :
              /\ Emit(Capture(kind, app)) /\ kind \notin {"gap", "focus", "action", "entered", "exited"}
              /\ kind \in {"notice", "wake", "cut"} => app = NoApp
    BY <1>3, PlainEmits
  <2>2. Capture(kind, app).kind # "focus" /\ (Capture(kind, app).dark => Unseen)
    BY <2>1, MadeShaped DEF Unseen
  <2>3. /\ focus' = focus \/ focus' = NoApp
        /\ UNCHANGED <<blind, gate, flushing>> /\ UNCHANGED writerVars
    BY <1>3 DEF PlainCapture, CutCapture, producer
  <2>4. QED
    BY <2>1, <2>2, <2>3, <1>0, <1>q
<1>4. ASSUME NEW r \in Reason, SensitiveBoundary(r) PROVE DimFollow'
  <2>1. /\ fwd' = fwd \/ \E kind \in {"entered", "exited"} : Emit(Boundary(kind, r))
        /\ UNCHANGED <<focus, blind, gate, flushing>> /\ UNCHANGED writerVars
    BY <1>4, Zenon DEF SensitiveBoundary
  <2>2. CASE fwd' = fwd
    BY <2>1, <2>2, <1>w, DimKept DEF Unseen, DimFollow, ShutGate
  <2>3. ASSUME NEW kind \in {"entered", "exited"}, Emit(Boundary(kind, r)) PROVE DimFollow'
    <3>1. Boundary(kind, r).kind # "focus" /\ (Boundary(kind, r).dark => Unseen)
      BY BoundaryShaped DEF Unseen
    <3>2. QED
      BY <2>1, <2>3, <3>1, <1>q
  <2>4. QED
    BY <2>1, <2>2, <2>3
<1>5. CASE ResumeCapture
  <2>1. /\ fwd' = fwd \/ Reconcile
        /\ focus' = NoApp /\ UNCHANGED <<blind, gate, flushing>> /\ UNCHANGED writerVars
    BY <1>5, Zenon DEF ResumeCapture
  <2>2. CASE fwd' = fwd
    BY <2>1, <2>2, <1>0, <1>w, DimKept DEF Unseen, DimFollow, ShutGate
  <2>3. QED
    BY <2>1, <2>2, <1>w, DimReconciled
<1>6. ASSUME NEW app, ActionCaptured(app) PROVE DimFollow'
  BY <1>6, <1>0, DimAction
<1>7. CASE TakeInput
  BY <1>7, PolicyFollows, DimTaken DEF producer
<1>8. CASE Crash \/ Start
  <2>1. /\ fwd' = <<>> /\ rx' = <<>> /\ latch' = "unknown" /\ focus' = NoApp /\ blind' = FALSE
    BY <1>8 DEF Crash, Start, FreshMemory
  <2>2. QED
    BY <2>1, <1>0 DEF DimFollow, DimInRx, DimInFwd, NextIsDim, Unseen, ShutGate
<1>9. CASE CloseGate
  <2>1. UNCHANGED <<fwd, focus, blind>> /\ gate' = FALSE /\ flushing' = TRUE /\ UNCHANGED writerVars
    BY <1>9 DEF CloseGate
  <2>2. QED
    BY <2>1, <1>w, DimKept DEF Unseen, ShutGate
<1>10. CASE SendForget
  <2>1. /\ UNCHANGED <<fwd, rx, latch, focus, blind, gate>> /\ fwd = <<>>
    BY <1>10 DEF SendForget, restOfWriter, policy
  <2>2. QED
    BY <2>1, DimKept DEF Unseen, DimFollow, ShutGate
<1>11. CASE OpenGate
  <2>1. UNCHANGED <<fwd, focus>> /\ blind' = FALSE /\ gate' = TRUE /\ UNCHANGED writerVars
    BY <1>11 DEF OpenGate
  <2>2. QED
    BY <2>1, <1>w, DimKept DEF Unseen, ShutGate
<1>12. CASE FinishForget
  <2>1. /\ rx = <<>> /\ rx' = rx /\ fwd' = fwd /\ latch' = "unknown"
        /\ UNCHANGED <<gate, flushing>> /\ (focus' = focus \/ focus' = NoApp)
        /\ blind' => ~gate /\ ~flushing
    BY <1>12 DEF FinishForget, Drained
  <2>2. Hidden' = TRUE /\ HiddenThen' = TRUE
    BY <2>1 DEF Hidden, HiddenThen, LitAfter, Lit
  <2>3. ASSUME NEW i, Lit(fwd, i, HiddenThen, Hides, Shows)
        PROVE  Lit(fwd, i, HiddenThen', Hides, Shows)
    <3> DEFINE b == HiddenThen  then == HiddenThen'
    <3>1. b \in BOOLEAN /\ then \in BOOLEAN /\ (b => then) /\ Lit(fwd, i, b, Hides, Shows)
      BY <2>2, <2>3, HiddenTypes
    <3> HIDE DEF b, then
    <3>2. Lit(fwd, i, then, Hides, Shows)
      BY <3>1, LitMore
    <3>3. QED
      BY <3>2 DEF then
  <2>4. DimInRx' /\ DimInFwd'
    BY <2>1, <2>3 DEF DimFollow, DimInRx, DimInFwd
  <2>5. ShutGate'
    BY <2>1 DEF DimFollow, ShutGate
  <2>6. ASSUME Unseen' PROVE LitAfter(fwd, HiddenThen', Hides, Shows)
    <3>1. CASE focus \in Excluded
      BY <3>1, <2>3 DEF DimFollow, NextIsDim, Unseen, LitAfter
    <3>2. CASE blind'
      <4>1. \A i \in 1 .. Len(fwd) : fwd[i] \notin Shows
        BY <3>2, <2>1 DEF DimFollow, ShutGate, Shows
      <4>2. QED
        BY <4>1, <2>2 DEF LitAfter, Lit
    <3>3. QED
      BY <2>1, <2>6, <3>1, <3>2, <1>0 DEF Unseen
  <2>7. QED
    BY <2>1, <2>2, <2>4, <2>5, <2>6 DEF DimFollow, NextIsDim
<1>13. CASE \/ Tick \/ WallStep \/ RecordCommand \/ PanicArm \/ PanicStop \/ WorkerStarts
            \/ WorkerStops \/ PrivacyCommand \/ Shutdown
  <2>1. UNCHANGED <<fwd, rx, latch, focus, blind, gate, flushing>>
    BY <1>13 DEF Tick, WallStep, RecordCommand, PanicArm, PanicStop, WorkerStarts, WorkerStops,
       PrivacyCommand, Shutdown, producer, writerVars, restOfWriter, policy
  <2>2. QED
    BY <2>1, DimKept DEF Unseen, DimFollow, ShutGate
<1>14. CASE \/ FlushTick \/ Heartbeat \/ BeatOpenFocus
            \/ StartRecording \/ PauseRecording \/ ResumeRecording
            \/ RefusePrivacy \/ BeginDrain
            \/ FinishStop \/ Reset \/ Replace \/ ReplaceFails \/ Stop
  <2>1. UNCHANGED <<fwd, rx, latch, focus, blind, gate, flushing>>
    BY <1>14 DEF FlushTick, Heartbeat, BeatOpenFocus, StartRecording, PauseRecording,
       ResumeRecording, RefusePrivacy, BeginDrain, FinishStop, Reset, Replace, ReplaceFails,
       Stop, producer, policy
  <2>2. QED
    BY <2>1, DimKept DEF Unseen, DimFollow, ShutGate
<1>15. CASE Reemit
  <2>1. UNCHANGED <<fwd, rx, focus, blind, gate, flushing>>
    BY <1>15 DEF Reemit, producer
  <2>2. latch' = latch
    <3>1. \/ UNCHANGED policy
          \/ \E r \in todo : QueueCaptured([Capture("entered", NoApp) EXCEPT
                                               !.reason = r, !.at = cmd.at, !.dark = FALSE])
      BY <1>15, Zenon DEF Reemit
    <3>2. ASSUME NEW c, c.kind = "entered", QueueCaptured(c) PROVE latch' = latch
      BY <3>2 DEF QueueCaptured, DropStale, DropExcluded, StoreCaptured, ApplyPolicyState,
         LatchAfter, policy
    <3>3. \A r : [Capture("entered", NoApp) EXCEPT
                     !.reason = r, !.at = cmd.at, !.dark = FALSE].kind = "entered"
      BY DEF Capture
    <3>4. QED
      BY <3>1, <3>2, <3>3 DEF policy
  <2>3. QED
    BY <2>1, <2>2, DimKept DEF Unseen, DimFollow, ShutGate
<1>16. CASE UNCHANGED vars
  <2>1. UNCHANGED <<fwd, rx, latch, focus, blind, gate, flushing>>
    BY <1>16 DEF vars, producer, policy
  <2>2. QED
    BY <2>1, DimKept DEF Unseen, DimFollow, ShutGate
<1>17. CASE Forward
  BY <1>17, DimForwarded
<1>18. QED
  BY <1>1, <1>2, <1>3, <1>4, <1>5, <1>6, <1>7, <1>8, <1>9, <1>10, <1>11, <1>12, <1>13, <1>14,
     <1>15, <1>16, <1>17, Zenon DEF Next
-----------------------------------------------------------------------------
(***************************************************************************)
(* What is kept.                                                           *)
(***************************************************************************)
Allowed(r) ==
    /\ r.cap.app \notin Excluded /\ r.cap.prev \notin Excluded
    /\ Unattributed(r.cap) => ~r.cap.dark

(* The open segment and its evidence in the database, from which a start     *)
(* makes a row, name no excluded app either.                               *)
SegmentAllowed == segment.app \notin Excluded /\ focusRow.app \notin Excluded

KeptInv == ExclusionBoundary /\ SegmentAllowed

(* A captured input that the policy lets through. *)
LEMMA StoredAllowed ==
    ASSUME NEW c \in Shaped, c.kind # "action", ~Excludes(c, latch), c \in Dim => Hidden,
           PolicyOK
    PROVE  Allowed(CapturedRow(c)) /\ CapturedRow(c).cap.app \notin Excluded
<1>0. NoApp \notin Excluded
  BY PolicyAssumption
<1>1. /\ c \in Captures /\ c.kind \in Kinds /\ c.kind # "gap"
      /\ c.kind \in {"notice", "wake", "cut", "entered", "exited"} => c.app = NoApp
      /\ c.kind # "focus" => c.prev = NoApp
      /\ c.dark => Excluded # {}
  BY DEF Shaped, ShapedFields, Captures, CaptureFields
<1>2. c.app \notin Excluded
  BY <1>0, <1>1 DEF Excludes, Kinds
<1>3. Unattributed(c) => ~c.dark
  <2> SUFFICES ASSUME Unattributed(c), c.dark PROVE FALSE
    BY <1>1 DEF Shaped, Captures, CaptureFields
  <2>1. Hidden /\ Excluded # {}
    BY <1>1 DEF Dim
  <2>2. latch \in {"excluded", "unknown"}
    BY <2>1 DEF Hidden, PolicyOK, Latches
  <2>3. QED
    BY <2>1, <2>2 DEF Excludes, LatchedFocusExcluded
<1>4. CASE c.kind = "focus" /\ c.prev \in Excluded
  <2>1. Scrubbed(c) = [c EXCEPT !.prev = NoApp, !.dur = 0]
    BY <1>4 DEF Scrubbed
  <2>2. Scrubbed(c).prev = NoApp /\ Scrubbed(c).app = c.app /\ Scrubbed(c).kind = "focus"
    BY <2>1, <1>1, <1>4 DEF Captures, CaptureFields
  <2>3. CapturedRow(c).cap = Scrubbed(c)
    BY DEF CapturedRow, Row
  <2>4. QED
    BY <2>2, <2>3, <1>0, <1>2 DEF Allowed, Unattributed
<1>5. CASE ~(c.kind = "focus" /\ c.prev \in Excluded)
  <2>1. Scrubbed(c) = c
    BY <1>5 DEF Scrubbed
  <2>2. CapturedRow(c).cap = c
    BY <2>1 DEF CapturedRow, Row
  <2>3. c.prev \notin Excluded
    BY <1>0, <1>1, <1>5
  <2>4. QED
    BY <2>2, <2>3, <1>2, <1>3 DEF Allowed
<1>6. QED
  BY <1>4, <1>5

(* Where a row is kept and where it opens a segment. *)
LEMMA SegmentStays ==
    ASSUME SegmentAllowed, NEW row, row.cap.app \notin Excluded,
           NoteOpenFocus(row) \/ ClearOpenFocus \/ UNCHANGED openness
    PROVE  SegmentAllowed'
<1>0. NoApp \notin Excluded
  BY PolicyAssumption
<1>1. DropFocusRow => focusRow' = NoFocusRow \/ focusRow' = focusRow
  BY DEF DropFocusRow
<1>2. NoFocusRow.app = NoApp /\ NoSegment.app = NoApp
  BY DEF NoFocusRow, NoSegment
<1>3. CASE ClearOpenFocus
  BY <1>0, <1>1, <1>2, <1>3 DEF ClearOpenFocus, SegmentAllowed
<1>4. CASE UNCHANGED openness
  BY <1>4 DEF openness, SegmentAllowed
<1>5. CASE NoteOpenFocus(row)
  <2>1. CASE /\ segment' = [sess |-> row.sess, app |-> row.cap.app, start |-> row.ts]
             /\ DropFocusRow
    <3>1. segment'.app = row.cap.app
      BY <2>1
    <3>2. QED
      BY <3>1, <2>1, <1>0, <1>1, <1>2 DEF SegmentAllowed
  <2>2. QED
    BY <1>3, <1>4, <1>5, <2>1 DEF NoteOpenFocus
<1>6. QED
  BY <1>3, <1>4, <1>5

LEMMA CapturedAllowed ==
    ASSUME KeptInv, PolicyOK, NEW c \in Shaped, c.kind # "action", c \in Dim => Hidden,
           QueueCaptured(c)
    PROVE  KeptInv'
<1>1. CASE DropStale(c) \/ DropExcluded(c)
  <2>1. UNCHANGED pending /\ rows' = rows /\ (ClearOpenFocus \/ UNCHANGED openness)
    BY <1>1 DEF DropStale, DropExcluded
  <2>2. Held' = Held
    BY <2>1 DEF pending, Held
  <2>3. SegmentAllowed'
    <3>1. \E row : row.cap.app \notin Excluded
      <4>1. [cap |-> [app |-> NoApp]].cap.app \notin Excluded
        BY PolicyAssumption
      <4>2. QED
        BY <4>1
    <3>2. QED
      BY <2>1, <3>1, SegmentStays DEF KeptInv
  <2>4. QED
    BY <2>2, <2>3 DEF KeptInv, ExclusionBoundary
<1>2. CASE StoreCaptured(c)
  <2>1. /\ ~Excludes(c, latch) /\ actions' = actions
        /\ PushEvent(CapturedRow(c)) /\ NoteOpenFocus(CapturedRow(c))
    BY <1>2, Zenon DEF StoreCaptured, CapturedRow
  <2>2. Allowed(CapturedRow(c)) /\ CapturedRow(c).cap.app \notin Excluded
    BY <2>1, StoredAllowed
  <2>3. Held' \subseteq Held \cup {CapturedRow(c)}
    BY <2>1, RowPushed
  <2>4. ExclusionBoundary'
    BY <2>2, <2>3 DEF KeptInv, ExclusionBoundary, Allowed
  <2>5. QED
    BY <2>1, <2>2, <2>4, SegmentStays DEF KeptInv
<1>3. QED
  BY <1>1, <1>2 DEF QueueCaptured

LEMMA ActionAllowed ==
    ASSUME KeptInv, NEW a \in Shaped, a.kind = "action",
           DropAction(a) \/ MarkGap(a) \/ StoreAction(a)
    PROVE  KeptInv'
<1>0. NoApp \notin Excluded
  BY PolicyAssumption
<1>1. a \in CaptureFields /\ a.prev = NoApp
  BY DEF Shaped, ShapedFields, Captures
<1>2. UNCHANGED openness
  BY DEF DropAction, MarkGap, StoreAction
<1>3. SegmentAllowed'
  BY <1>2 DEF KeptInv, SegmentAllowed, openness
<1>4. ASSUME NEW m, PushAction(Row(sq, m, FALSE)), batch' = batch, m.app \notin Excluded,
             m.prev = NoApp, m.kind \in {"action", "gap"}
      PROVE  ExclusionBoundary'
  <2>1. Held' \subseteq Held \cup {Row(sq, m, FALSE)}
    BY <1>4, RowPushed
  <2>2. Row(sq, m, FALSE).cap = m
    BY DEF Row
  <2>3. Allowed(Row(sq, m, FALSE))
    BY <1>0, <1>4, <2>2 DEF Allowed, Unattributed
  <2>4. QED
    BY <2>1, <2>3 DEF KeptInv, ExclusionBoundary, Allowed
<1>5. ASSUME UNCHANGED pending, rows' = rows PROVE ExclusionBoundary'
  BY <1>5 DEF pending, Held, KeptInv, ExclusionBoundary
<1>6. CASE DropAction(a)
  BY <1>3, <1>5, <1>6 DEF DropAction, KeptInv
<1>7. CASE MarkGap(a)
  <2> DEFINE m == [a EXCEPT !.kind = "gap", !.app = NoApp]
  <2>1. m.app = NoApp /\ m.prev = NoApp /\ m.kind = "gap"
    BY <1>1 DEF CaptureFields
  <2>2. \/ UNCHANGED <<batch, actions, rows>>
        \/ PushAction(Row(sq, m, FALSE)) /\ batch' = batch
    BY <1>7, Zenon DEF MarkGap
  <2> HIDE DEF m
  <2>3. ExclusionBoundary'
    BY <2>1, <2>2, <1>0, <1>4 DEF Held, KeptInv, ExclusionBoundary
  <2>4. QED
    BY <2>3, <1>3 DEF KeptInv
<1>8. CASE StoreAction(a)
  <2>1. PushAction(Row(sq, a, FALSE)) /\ batch' = batch /\ a.app \notin Excluded
    BY <1>8, Zenon DEF StoreAction
  <2>2. QED
    BY <2>1, <1>1, <1>3, <1>4 DEF KeptInv
<1>9. QED
  BY <1>6, <1>7, <1>8

LEMMA KeptStep ==
    TypeOK /\ NoBoundaryStale /\ ShapedInv /\ DimFollow /\ KeptInv /\ [Next]_vars => KeptInv'
<1> SUFFICES ASSUME TypeOK, NoBoundaryStale, ShapedInv, DimFollow, KeptInv, [Next]_vars
             PROVE  KeptInv'
  OBVIOUS
<1>0. NoApp \notin Excluded
  BY PolicyAssumption
<1>1. CASE TakeInput
  <2> DEFINE c == Head(rx)
  <2>1. rx # <<>> /\ rx' = Tail(rx) /\ fwd' = fwd /\ UNCHANGED producer
        /\ latch' = LatchAfter(c, latch) /\ Queue(c)
    BY <1>1, PolicyFollows DEF TakeInput
  <2>2. c \in Shaped
    BY <2>1 DEF ShapedInv
  <2>3. c \in Dim => Hidden
    BY <2>1, DimTaken DEF producer
  <2> HIDE DEF c
  <2>4. QED
    BY <2>1, <2>2, <2>3, CapturedAllowed, ActionAllowed DEF Queue, TypeOK
<1>2. CASE Reemit
  <2>1. \/ UNCHANGED pending /\ rows' = rows /\ UNCHANGED openness
        \/ \E r \in todo : QueueCaptured([Capture("entered", NoApp) EXCEPT
                                             !.reason = r, !.at = cmd.at, !.dark = FALSE])
    BY <1>2, Zenon DEF Reemit
  <2>2. ASSUME NEW r \in todo, QueueCaptured([Capture("entered", NoApp) EXCEPT
                                                 !.reason = r, !.at = cmd.at, !.dark = FALSE])
        PROVE  KeptInv'
    <3> DEFINE c == [Capture("entered", NoApp) EXCEPT !.reason = r, !.at = cmd.at, !.dark = FALSE]
    <3>1. c \in Captures
      BY ReemittedType
    <3>2. c.kind = "entered" /\ c.app = NoApp /\ c.prev = NoApp /\ c.dark = FALSE
      BY DEF Capture
    <3> HIDE DEF c
    <3>3. c \in Shaped /\ c \notin Dim /\ c.kind # "action"
      BY <3>1, <3>2 DEF Shaped, ShapedFields, Dim
    <3>4. QED
      BY <2>2, <3>3, CapturedAllowed DEF c, TypeOK
  <2>3. QED
    BY <2>1, <2>2 DEF KeptInv, ExclusionBoundary, SegmentAllowed, Held, pending, openness
<1>3. CASE Start
  <2>1. /\ batch' = {} /\ actions' = {}
        /\ segment' = NoSegment /\ focusRow' = NoFocusRow
    BY <1>3 DEF Start, FreshMemory
  <2>2. Held' = rows' /\ (rows' = rows \/ \E n : rows' = rows \cup {Recovered(n)})
    BY <2>1, <1>3, StartGains DEF Held
  <2>3. \A n : Allowed(Recovered(n))
    BY <1>0 DEF Recovered, Allowed, Unattributed, KeptInv, SegmentAllowed
  <2>4. ExclusionBoundary'
    BY <2>2, <2>3 DEF KeptInv, ExclusionBoundary, Allowed, Held
  <2>5. QED
    BY <2>1, <2>4, <1>0 DEF KeptInv, SegmentAllowed, NoSegment, NoFocusRow
<1>4. ASSUME Held' \subseteq Held, SegmentAllowed' PROVE KeptInv'
  BY <1>4 DEF KeptInv, ExclusionBoundary
<1>5. ASSUME ~TakeInput, ~Reemit, ~Start PROVE Held' \subseteq Held
  BY <1>5, NothingGained
<1>6. ASSUME ~TakeInput, ~Reemit, ~Start PROVE SegmentAllowed'
  <2>c. ASSUME ClearOpenFocus PROVE SegmentAllowed'
    BY <2>c, <1>0 DEF ClearOpenFocus, DropFocusRow, NoSegment, NoFocusRow, KeptInv, SegmentAllowed
  <2>u. ASSUME UNCHANGED openness PROVE SegmentAllowed'
    BY <2>u DEF openness, KeptInv, SegmentAllowed
  <2>1. CASE \/ (\E app \in App : FocusTo(app))
             \/ FocusClosed \/ PlainCapture \/ CutCapture
             \/ (\E r \in Reason : SensitiveBoundary(r))
             \/ ResumeCapture \/ Tick \/ WallStep \/ CloseGate \/ OpenGate \/ PanicArm
             \/ WorkerStarts \/ WorkerStops
    <3>1. UNCHANGED writerVars
      BY <2>1 DEF FocusTo, FocusClosed, PlainCapture, CutCapture, SensitiveBoundary,
         ResumeCapture, Tick, WallStep, CloseGate, OpenGate, PanicArm, WorkerStarts, WorkerStops
    <3>2. QED
      BY <3>1, <2>u DEF writerVars
  <2>2. CASE SendForget \/ RecordCommand \/ PanicStop \/ PrivacyCommand
    <3>1. UNCHANGED restOfWriter
      BY <2>2 DEF SendForget, RecordCommand, PanicStop, PrivacyCommand
    <3>2. QED
      BY <3>1, <2>u DEF restOfWriter
  <2>3. CASE \/ Forward \/ (\E app \in App \cup {NoApp} : ActionCaptured(app)) \/ Shutdown
             \/ FlushTick \/ Heartbeat \/ StartRecording \/ PauseRecording \/ ResumeRecording
             \/ RefusePrivacy \/ BeginDrain \/ FinishStop \/ ReplaceFails
    <3>1. UNCHANGED openness
      BY <2>3 DEF Forward, ActionCaptured, Shutdown, FlushTick, Heartbeat, StartRecording,
         PauseRecording, ResumeRecording, RefusePrivacy, BeginDrain, FinishStop, ReplaceFails
    <3>2. QED
      BY <3>1, <2>u
  <2>4. CASE FinishForget \/ Stop
    BY <2>4, <2>c DEF FinishForget, Stop
  <2>5. CASE BeatOpenFocus
    BY <2>5 DEF BeatOpenFocus, KeptInv, SegmentAllowed
  <2>6. CASE Reset \/ Replace \/ Crash
    <3>1. segment' = segment \/ segment' = NoSegment
      BY <2>6 DEF Reset, Replace, Crash, FreshMemory
    <3>2. focusRow' = focusRow \/ focusRow' = NoFocusRow
      BY <2>6, Zenon DEF Reset, Replace, Crash
    <3>3. QED
      BY <3>1, <3>2, <1>0 DEF NoSegment, NoFocusRow, KeptInv, SegmentAllowed
  <2>7. CASE UNCHANGED vars
    BY <2>7, <2>u DEF vars
  <2>8. QED
    BY <1>6, <2>1, <2>2, <2>3, <2>4, <2>5, <2>6, <2>7, Zenon DEF Next
<1>7. QED
  BY <1>1, <1>2, <1>3, <1>4, <1>5, <1>6

(***************************************************************************)
(* The exclusion boundary.  Nothing that is kept names an excluded app, and *)
(* nothing without an app of its own was captured where an excluded app had *)
(* the focus or the gate was shut on the attribution: whatever the channels *)
(* hold when the stream is toggled, forgets overtake captures, the process  *)
(* crashes and a start repairs what it finds.  The hypothesis is about the  *)
(* erase gate: a change of focus that it drops does not move the latch, and *)
(* a capture of the instant of the boundary behind it is let through.      *)
(***************************************************************************)
THEOREM NothingExcludedKept == Spec /\ []NoBoundaryStale => []ExclusionBoundary
<1>1. Init => DimFollow /\ KeptInv
  <2>1. NoApp \notin Excluded
    BY PolicyAssumption
  <2>2. Init => DimFollow
    BY <2>1 DEF Init, DimFollow, DimInRx, DimInFwd, NextIsDim, Unseen, ShutGate
  <2>3. Init => KeptInv
    BY <2>1 DEF Init, KeptInv, ExclusionBoundary, SegmentAllowed, Held, NoSegment, NoFocusRow
  <2>4. QED
    BY <2>2, <2>3
<1>2. TypeOK /\ TypeOK' /\ NoBoundaryStale /\ DimFollow /\ [Next]_vars => DimFollow'
  BY DimStep
<1>3. TypeOK /\ NoBoundaryStale /\ ShapedInv /\ DimFollow /\ KeptInv /\ [Next]_vars => KeptInv'
  BY KeptStep
<1>4. KeptInv => ExclusionBoundary
  BY DEF KeptInv
<1>5. QED
  BY <1>1, <1>2, <1>3, <1>4, WriterTypeCorrect, ShapedInvariant, PTL DEF Spec
-----------------------------------------------------------------------------
(***************************************************************************)
(* The contexts in force and the boundaries under way to the writer.       *)
(***************************************************************************)
Begins(r) == {c \in Captures : c.kind = "entered" /\ c.reason = r}
Ends(r) == {c \in Captures : c.kind = "exited" /\ c.reason = r}
InForce(r) == r \in reasons
InForceThen(r) == LitAfter(rx, InForce(r), Begins(r), Ends(r))

(* A capture taken under a context, that must be redacted for it. *)
Hot == {c \in Captures : c.hot /\ c.kind \in Redactable}

(* By its turn a hot capture finds a context in force, and so does one that  *)
(* is taken now.  Contexts that begin and end while capture is suspended are *)
(* made good by the reconcile that ends the suspension.                    *)
HotInRx ==
    \A i \in 1 .. Len(rx) : rx[i] \in Hot =>
        \E r \in Reason : Lit(rx, i, InForce(r), Begins(r), Ends(r))
HotInFwd ==
    \A i \in 1 .. Len(fwd) : fwd[i] \in Hot =>
        \E r \in Reason : Lit(fwd, i, InForceThen(r), Begins(r), Ends(r))
NextIsHot ==
    ~suspended => \A r \in active : LitAfter(fwd, InForceThen(r), Begins(r), Ends(r))
NoContexts == "entered" \notin Inputs => active = {}

HotFollow == HotInRx /\ HotInFwd /\ NextIsHot /\ NoContexts

LEMMA InForceTypes == \A r : InForce(r) \in BOOLEAN /\ InForceThen(r) \in BOOLEAN
BY LitIsBoolean DEF InForce, InForceThen, LitAfter

(* What more there is in force, or on its way, hides no less. *)
LEMMA HotMore ==
    ASSUME NEW s, NEW i, NEW r, NEW b \in BOOLEAN, NEW then \in BOOLEAN, b => then,
           Lit(s, i, b, Begins(r), Ends(r))
    PROVE  Lit(s, i, then, Begins(r), Ends(r))
BY LitMore

LEMMA HotEmitted ==
    ASSUME TypeOK, fwd' \in Seq(Captures), HotFollow, NEW c, fwd' = Append(fwd, c),
           rx' = rx, reasons' = reasons, ~suspended, c \in Hot => active # {}
    PROVE  /\ c \in Captures /\ HotInRx' /\ HotInFwd'
           /\ \A r \in Reason :
                 c \in Begins(r) \/ (r \in active /\ c \notin Ends(r))
                    => LitAfter(fwd', InForceThen(r)', Begins(r), Ends(r))
<1>1. fwd \in Seq(Captures) /\ active \subseteq Reason
  BY DEF TypeOK, ChannelsOK, ProducerOK
<1>2. Len(fwd') = Len(fwd) + 1 /\ Len(fwd) \in Nat /\ fwd'[Len(fwd) + 1] = c
      /\ \A i \in 1 .. Len(fwd) : fwd'[i] = fwd[i]
  BY <1>1
<1>3. c \in Captures
  <2>1. Len(fwd) + 1 \in 1 .. Len(fwd')
    BY <1>2
  <2>2. QED
    BY <1>2, <2>1
<1>4. (\A r : InForce(r)' = InForce(r) /\ InForceThen(r)' = InForceThen(r)) /\ HotInRx'
  BY DEF InForce, InForceThen, HotFollow, HotInRx
<1>5. ASSUME NEW r
      PROVE  /\ \A i \in 1 .. Len(fwd) + 1 : Lit(fwd, i, InForceThen(r), Begins(r), Ends(r))
                      => Lit(fwd', i, InForceThen(r), Begins(r), Ends(r))
             /\ c \in Begins(r) \/ (LitAfter(fwd, InForceThen(r), Begins(r), Ends(r)) /\ c \notin Ends(r))
                  => LitAfter(fwd', InForceThen(r), Begins(r), Ends(r))
  <2> DEFINE b == InForceThen(r)  On == Begins(r)  Off == Ends(r)
  <2>1. b \in BOOLEAN
    BY InForceTypes
  <2> HIDE DEF b, On, Off
  <2>2. /\ \A i \in 1 .. Len(fwd) + 1 : Lit(fwd, i, b, On, Off) => Lit(fwd', i, b, On, Off)
        /\ c \in On \/ (LitAfter(fwd, b, On, Off) /\ c \notin Off) => LitAfter(fwd', b, On, Off)
    BY <1>1, <1>3, <2>1, LitAppended
  <2>3. QED
    BY <2>2 DEF b, On, Off
<1>6. \A r \in active : LitAfter(fwd, InForceThen(r), Begins(r), Ends(r))
  BY DEF HotFollow, NextIsHot
<1>7. HotInFwd'
  <2> SUFFICES ASSUME NEW i \in 1 .. Len(fwd'), fwd'[i] \in Hot
               PROVE  \E r \in Reason : Lit(fwd', i, InForceThen(r), Begins(r), Ends(r))
    BY <1>4 DEF HotInFwd
  <2>1. CASE i \in 1 .. Len(fwd)
    <3>1. PICK r \in Reason : Lit(fwd, i, InForceThen(r), Begins(r), Ends(r))
      BY <2>1, <1>2 DEF HotFollow, HotInFwd
    <3>2. i \in 1 .. Len(fwd) + 1
      BY <2>1, <1>2
    <3>3. QED
      BY <3>1, <3>2, <1>5
  <2>2. CASE i = Len(fwd) + 1
    <3>1. PICK r \in active : TRUE
      BY <2>2, <1>2
    <3>2. Len(fwd) + 1 \in 1 .. Len(fwd) + 1 /\ r \in Reason
      BY <1>1, <1>2
    <3>3. Lit(fwd, Len(fwd) + 1, InForceThen(r), Begins(r), Ends(r))
      BY <1>6 DEF LitAfter
    <3>4. QED
      BY <3>2, <3>3, <1>5, <2>2
  <2>3. QED
    BY <2>1, <2>2, <1>2
<1>8. QED
  BY <1>3, <1>4, <1>5, <1>6, <1>7

LEMMA HotKept ==
    ASSUME HotFollow, fwd' = fwd, rx' = rx, reasons' = reasons, active' = active,
           suspended' = suspended \/ suspended' = TRUE
    PROVE  HotFollow'
<1>1. \A r : InForce(r)' = InForce(r) /\ InForceThen(r)' = InForceThen(r)
  BY DEF InForce, InForceThen
<1>2. HotInRx' /\ HotInFwd' /\ NoContexts'
  BY <1>1 DEF HotFollow, HotInRx, HotInFwd, NoContexts
<1>3. NextIsHot'
  BY <1>1 DEF HotFollow, NextIsHot
<1>4. QED
  BY <1>2, <1>3 DEF HotFollow

(* More in force, at least, and what is on its way to it as it was. *)
LEMMA HotGrows ==
    ASSUME HotFollow, fwd' = fwd,
           UNCHANGED <<active, suspended>>, HotInRx',
           \A r : InForceThen(r) => InForceThen(r)'
    PROVE  HotFollow'
<1>1. \A r : InForceThen(r) \in BOOLEAN /\ InForceThen(r)' \in BOOLEAN
  BY LitIsBoolean DEF InForceThen, LitAfter
<1>2. ASSUME NEW i, NEW r, Lit(fwd, i, InForceThen(r), Begins(r), Ends(r))
      PROVE  Lit(fwd, i, InForceThen(r)', Begins(r), Ends(r))
  <2> DEFINE b == InForceThen(r)  then == InForceThen(r)'
  <2>1. b \in BOOLEAN /\ then \in BOOLEAN /\ (b => then) /\ Lit(fwd, i, b, Begins(r), Ends(r))
    BY <1>1, <1>2
  <2> HIDE DEF b, then
  <2>2. Lit(fwd, i, then, Begins(r), Ends(r))
    BY <2>1, HotMore
  <2>3. QED
    BY <2>2 DEF then
<1>3. HotInFwd' /\ NextIsHot' /\ NoContexts'
  BY <1>2 DEF HotFollow, HotInFwd, NextIsHot, NoContexts, LitAfter
<1>4. QED
  BY <1>3 DEF HotFollow

LEMMA HotForwarded == TypeOK /\ HotFollow /\ Forward => HotFollow'
<1> SUFFICES ASSUME TypeOK, HotFollow, Forward PROVE HotFollow'
  OBVIOUS
<1> DEFINE c == Head(fwd)
<1>1. /\ fwd \in Seq(Captures) /\ rx \in Seq(Captures) /\ fwd # <<>>
      /\ rx' = Append(rx, c) /\ fwd' = Tail(fwd)
      /\ UNCHANGED <<reasons, active, suspended>>
  BY DEF Forward, TypeOK, ChannelsOK, producer, policy
<1>2. /\ c \in Captures /\ c = fwd[1] /\ Len(fwd) \in Nat /\ Len(fwd) > 0
      /\ Len(fwd') = Len(fwd) - 1 /\ \A i \in 1 .. Len(fwd') : fwd'[i] = fwd[i + 1]
      /\ Len(rx) \in Nat /\ Len(rx') = Len(rx) + 1 /\ rx'[Len(rx) + 1] = c
      /\ \A i \in 1 .. Len(rx) : rx'[i] = rx[i]
  BY <1>1
<1>3. \A r : InForce(r)' = InForce(r)
  BY <1>1 DEF InForce
<1>4. ASSUME NEW r
      PROVE  /\ \A i \in 1 .. Len(rx) + 1 : Lit(rx, i, InForce(r), Begins(r), Ends(r))
                      => Lit(rx', i, InForce(r), Begins(r), Ends(r))
             /\ c \in Begins(r) \/ (InForceThen(r) /\ c \notin Ends(r)) => InForceThen(r)'
  <2> DEFINE b == InForce(r)  On == Begins(r)  Off == Ends(r)
  <2>1. b \in BOOLEAN
    BY InForceTypes
  <2> HIDE DEF b, On, Off, c
  <2>2. /\ \A i \in 1 .. Len(rx) + 1 : Lit(rx, i, b, On, Off) => Lit(rx', i, b, On, Off)
        /\ c \in On \/ (LitAfter(rx, b, On, Off) /\ c \notin Off) => LitAfter(rx', b, On, Off)
    BY <1>1, <1>2, <2>1, LitAppended
  <2>3. InForceThen(r) = LitAfter(rx, b, On, Off) /\ InForceThen(r)' = LitAfter(rx', b, On, Off)
    BY <1>3 DEF InForceThen, b, On, Off
  <2>4. QED
    BY <2>2, <2>3 DEF b, On, Off
<1>5. ASSUME NEW r
      PROVE  /\ Lit(fwd, 1, InForceThen(r), Begins(r), Ends(r)) => InForceThen(r)
             /\ \A i \in 1 .. Len(fwd) : Lit(fwd, i + 1, InForceThen(r), Begins(r), Ends(r))
                      => Lit(fwd', i, InForceThen(r)', Begins(r), Ends(r))
             /\ LitAfter(fwd, InForceThen(r), Begins(r), Ends(r))
                  => LitAfter(fwd', InForceThen(r)', Begins(r), Ends(r))
  <2> DEFINE b == InForceThen(r)  then == InForceThen(r)'  On == Begins(r)  Off == Ends(r)
  <2>1. b \in BOOLEAN /\ then \in BOOLEAN
    BY LitIsBoolean DEF InForceThen, LitAfter
  <2>2. Head(fwd) \in On \/ (b /\ Head(fwd) \notin Off) => then
    BY <1>4
  <2> HIDE DEF b, then, On, Off, c
  <2>3. /\ Lit(fwd, 1, b, On, Off) => b
        /\ \A i \in 1 .. Len(fwd) : Lit(fwd, i + 1, b, On, Off) => Lit(Tail(fwd), i, then, On, Off)
        /\ LitAfter(fwd, b, On, Off) => LitAfter(Tail(fwd), then, On, Off)
    <3>1. fwd \in Seq(Captures) /\ fwd # <<>>
      BY <1>1
    <3>2. QED
      BY <3>1, <2>1, <2>2, LitTaken
  <2>4. QED
    BY <1>1, <2>3 DEF b, then, On, Off
<1> HIDE DEF c
<1>6. HotInRx'
  <2> SUFFICES ASSUME NEW i \in 1 .. Len(rx'), rx'[i] \in Hot
               PROVE  \E r \in Reason : Lit(rx', i, InForce(r), Begins(r), Ends(r))
    BY <1>3 DEF HotInRx
  <2>1. CASE i \in 1 .. Len(rx)
    <3>1. PICK r \in Reason : Lit(rx, i, InForce(r), Begins(r), Ends(r))
      BY <2>1, <1>2 DEF HotFollow, HotInRx
    <3>2. i \in 1 .. Len(rx) + 1
      BY <2>1, <1>2
    <3>3. QED
      BY <3>1, <3>2, <1>4
  <2>2. CASE i = Len(rx) + 1
    <3>1. 1 \in 1 .. Len(fwd) /\ fwd[1] \in Hot /\ Len(rx) + 1 \in 1 .. Len(rx) + 1
      BY <2>2, <1>2
    <3>2. PICK r \in Reason : Lit(fwd, 1, InForceThen(r), Begins(r), Ends(r))
      BY <3>1 DEF HotFollow, HotInFwd
    <3>3. Lit(rx, Len(rx) + 1, InForce(r), Begins(r), Ends(r))
      BY <3>2, <1>5 DEF InForceThen, LitAfter
    <3>4. QED
      BY <3>1, <3>3, <2>2, <1>4
  <2>3. QED
    BY <2>1, <2>2, <1>2
<1>7. HotInFwd'
  <2> SUFFICES ASSUME NEW i \in 1 .. Len(fwd'), fwd'[i] \in Hot
               PROVE  \E r \in Reason : Lit(fwd', i, InForceThen(r)', Begins(r), Ends(r))
    BY DEF HotInFwd
  <2>1. i + 1 \in 1 .. Len(fwd) /\ i \in 1 .. Len(fwd) /\ fwd[i + 1] \in Hot
    BY <1>2
  <2>2. PICK r \in Reason : Lit(fwd, i + 1, InForceThen(r), Begins(r), Ends(r))
    BY <2>1 DEF HotFollow, HotInFwd
  <2>3. QED
    BY <2>1, <2>2, <1>5
<1>8. NextIsHot' /\ NoContexts'
  BY <1>1, <1>5 DEF HotFollow, NextIsHot, NoContexts
<1>9. QED
  BY <1>6, <1>7, <1>8 DEF HotFollow

LEMMA HotAction ==
    ASSUME TypeOK, rx' \in Seq(Captures), HotFollow, NEW app, ActionCaptured(app)
    PROVE  HotFollow'
<1> DEFINE c == [Capture("action", app) EXCEPT !.rec = worker, !.dark = cutoff.rec = worker]
<1>1. /\ rx \in Seq(Captures) /\ rx' = Append(rx, c) /\ fwd' = fwd
      /\ UNCHANGED <<reasons, active, suspended>>
  BY DEF ActionCaptured, TypeOK, ChannelsOK, producer, policy
<1>2. c.kind = "action"
  BY DEF Capture
<1> HIDE DEF c
<1>3. /\ Len(rx) \in Nat /\ Len(rx') = Len(rx) + 1 /\ rx'[Len(rx) + 1] = c
      /\ \A i \in 1 .. Len(rx) : rx'[i] = rx[i]
  BY <1>1
<1>4. c \in Captures
  <2>1. Len(rx) + 1 \in 1 .. Len(rx')
    BY <1>3
  <2>2. QED
    BY <1>3, <2>1
<1>5. c \notin Hot /\ \A r : c \notin Ends(r)
  BY <1>2 DEF Hot, Redactable, Ends
<1>6. \A r : InForce(r)' = InForce(r)
  BY <1>1 DEF InForce
<1>7. ASSUME NEW r
      PROVE  /\ \A i \in 1 .. Len(rx) + 1 : Lit(rx, i, InForce(r), Begins(r), Ends(r))
                      => Lit(rx', i, InForce(r), Begins(r), Ends(r))
             /\ InForceThen(r) => InForceThen(r)'
  <2> DEFINE b == InForce(r)  On == Begins(r)  Off == Ends(r)
  <2>1. b \in BOOLEAN /\ c \notin Off
    BY InForceTypes, <1>5
  <2> HIDE DEF b, On, Off
  <2>2. /\ \A i \in 1 .. Len(rx) + 1 : Lit(rx, i, b, On, Off) => Lit(rx', i, b, On, Off)
        /\ LitAfter(rx, b, On, Off) => LitAfter(rx', b, On, Off)
    BY <1>1, <1>4, <2>1, LitAppended
  <2>3. InForceThen(r) = LitAfter(rx, b, On, Off) /\ InForceThen(r)' = LitAfter(rx', b, On, Off)
    BY <1>6 DEF InForceThen, b, On, Off
  <2>4. QED
    BY <2>2, <2>3 DEF b, On, Off
<1>8. HotInRx'
  <2> SUFFICES ASSUME NEW i \in 1 .. Len(rx'), rx'[i] \in Hot
               PROVE  \E r \in Reason : Lit(rx', i, InForce(r), Begins(r), Ends(r))
    BY <1>6 DEF HotInRx
  <2>1. i \in 1 .. Len(rx) /\ rx[i] \in Hot /\ i \in 1 .. Len(rx) + 1
    BY <1>3, <1>5
  <2>2. PICK r \in Reason : Lit(rx, i, InForce(r), Begins(r), Ends(r))
    BY <2>1 DEF HotFollow, HotInRx
  <2>3. QED
    BY <2>1, <2>2, <1>7
<1>9. QED
  BY <1>1, <1>7, <1>8, HotGrows

(* What the policy makes of an input is in force for the next one. *)
LEMMA HotTaken ==
    ASSUME TypeOK, Suppress, HotFollow, rx # <<>>, rx' = Tail(rx), fwd' = fwd,
           reasons' = ReasonsAfter(Head(rx), reasons), UNCHANGED <<active, suspended>>
    PROVE  HotFollow' /\ (Head(rx) \in Hot => reasons # {})
<1> DEFINE c == Head(rx)
<1>1. rx \in Seq(Captures)
  BY DEF TypeOK, ChannelsOK
<1>2. /\ c \in Captures /\ c = rx[1] /\ Len(rx) \in Nat /\ Len(rx) > 0
      /\ Len(rx') = Len(rx) - 1 /\ \A i \in 1 .. Len(rx') : rx'[i] = rx[i + 1]
  BY <1>1
<1>3. \A r : c \in Begins(r) \/ (InForce(r) /\ c \notin Ends(r)) => InForce(r)'
  BY <1>2 DEF ReasonsAfter, InForce, Begins, Ends
<1>4. ASSUME NEW r
      PROVE  /\ Lit(rx, 1, InForce(r), Begins(r), Ends(r)) => InForce(r)
             /\ \A i \in 1 .. Len(rx) : Lit(rx, i + 1, InForce(r), Begins(r), Ends(r))
                      => Lit(rx', i, InForce(r)', Begins(r), Ends(r))
             /\ InForceThen(r) => InForceThen(r)'
  <2> DEFINE b == InForce(r)  then == InForce(r)'  On == Begins(r)  Off == Ends(r)
  <2>1. b \in BOOLEAN /\ then \in BOOLEAN
    BY DEF InForce
  <2>2. Head(rx) \in On \/ (b /\ Head(rx) \notin Off) => then
    BY <1>3
  <2>3. InForceThen(r) = LitAfter(rx, b, On, Off) /\ InForceThen(r)' = LitAfter(rx', then, On, Off)
    BY DEF InForceThen
  <2> HIDE DEF b, then, On, Off, c
  <2>4. /\ Lit(rx, 1, b, On, Off) => b
        /\ \A i \in 1 .. Len(rx) : Lit(rx, i + 1, b, On, Off) => Lit(Tail(rx), i, then, On, Off)
        /\ LitAfter(rx, b, On, Off) => LitAfter(Tail(rx), then, On, Off)
    BY <1>1, <2>1, <2>2, LitTaken
  <2>5. QED
    BY <2>3, <2>4 DEF b, then, On, Off
<1> HIDE DEF c
<1>5. HotInRx'
  <2> SUFFICES ASSUME NEW i \in 1 .. Len(rx'), rx'[i] \in Hot
               PROVE  \E r \in Reason : Lit(rx', i, InForce(r)', Begins(r), Ends(r))
    BY DEF HotInRx
  <2>1. i + 1 \in 1 .. Len(rx) /\ i \in 1 .. Len(rx) /\ rx[i + 1] \in Hot
    BY <1>2
  <2>2. PICK r \in Reason : Lit(rx, i + 1, InForce(r), Begins(r), Ends(r))
    BY <2>1 DEF HotFollow, HotInRx
  <2>3. QED
    BY <2>1, <2>2, <1>4
<1>6. HotFollow'
  BY <1>4, <1>5, HotGrows
<1>7. ASSUME Head(rx) \in Hot PROVE reasons # {}
  <2>1. 1 \in 1 .. Len(rx) /\ rx[1] \in Hot
    BY <1>2, <1>7 DEF c
  <2>2. PICK r \in Reason : Lit(rx, 1, InForce(r), Begins(r), Ends(r))
    BY <2>1 DEF HotFollow, HotInRx
  <2>3. QED
    BY <2>2, <1>4 DEF InForce
<1>8. QED
  BY <1>6, <1>7

(* The reconcile opens again every context in force, behind what is on its   *)
(* way, and turns none of them off after that.                             *)
LEMMA HotReconciled ==
    ASSUME TypeOK, HotFollow, Reconcile, "entered" \in Inputs, rx' = rx, reasons' = reasons,
           active' = active
    PROVE  HotFollow'
<1>1. PICK out \in Orders(Reason), back \in Orders(active) :
          LET p == [i \in DOMAIN out |-> Boundary("exited", out[i])]
              q == [i \in DOMAIN back |-> Boundary("entered", back[i])]
          IN  fwd' = (fwd \o p) \o q /\ p \in Seq(Captures) /\ q \in Seq(Captures)
  BY ReconcileAppends
<1> DEFINE p == [i \in DOMAIN out |-> Boundary("exited", out[i])]
           q == [i \in DOMAIN back |-> Boundary("entered", back[i])]
<1>2. p \in Seq(Captures) /\ q \in Seq(Captures) /\ fwd \in Seq(Captures)
  BY <1>1 DEF TypeOK, ChannelsOK
<1>3. (\A i \in DOMAIN p : p[i].kind = "exited") /\ (\A i \in DOMAIN q : q[i].kind = "entered")
  BY BoundaryShaped
<1>4. fwd' = (fwd \o p) \o q
  BY <1>1
<1>5. ASSUME NEW r \in active PROVE \E i \in DOMAIN q : q[i].reason = r
  <2>1. PICK i \in DOMAIN back : back[i] = r
    BY DEF Orders
  <2>2. i \in DOMAIN q /\ q[i].reason = r
    BY <2>1, BoundaryShaped
  <2>3. QED
    BY <2>2
<1> HIDE DEF p, q
<1> DEFINE u == fwd \o p
<1>6. /\ u \in Seq(Captures) /\ Len(u) = Len(fwd) + Len(p) /\ fwd' = u \o q
      /\ Len(fwd') = Len(u) + Len(q)
      /\ Len(fwd) \in Nat /\ Len(p) \in Nat /\ Len(q) \in Nat
      /\ \A k \in 1 .. Len(fwd) : u[k] = fwd[k]
      /\ \A k \in 1 .. Len(p) : u[Len(fwd) + k] = p[k]
      /\ \A k \in 1 .. Len(u) : fwd'[k] = u[k]
      /\ \A k \in 1 .. Len(q) : fwd'[Len(u) + k] = q[k]
  BY <1>2, <1>4, ConcatProperties
<1> HIDE DEF u
<1>7. (\A k \in 1 .. Len(p) : p[k] \notin Hot) /\ (\A k \in 1 .. Len(q) : q[k] \notin Hot)
  BY <1>2, <1>3 DEF Hot, Redactable
<1>8. \A i \in 1 .. Len(fwd') : fwd'[i] \in Hot =>
          i \in 1 .. Len(fwd) /\ i \in 1 .. Len(u) /\ fwd[i] \in Hot
  <2> SUFFICES ASSUME NEW i \in 1 .. Len(fwd'), fwd'[i] \in Hot
               PROVE  i \in 1 .. Len(fwd) /\ i \in 1 .. Len(u) /\ fwd[i] \in Hot
    OBVIOUS
  <2>1. CASE i > Len(u)
    <3>1. i - Len(u) \in 1 .. Len(q) /\ i = Len(u) + (i - Len(u))
      BY <2>1, <1>6
    <3>2. fwd'[i] = q[i - Len(u)]
      BY <3>1, <1>6
    <3>3. QED
      BY <3>1, <3>2, <1>7
  <2>2. CASE i \in 1 .. Len(u) /\ i > Len(fwd)
    <3>1. i - Len(fwd) \in 1 .. Len(p) /\ i = Len(fwd) + (i - Len(fwd)) /\ fwd'[i] = u[i]
      BY <2>2, <1>6
    <3>2. u[i] = p[i - Len(fwd)]
      BY <3>1, <1>6
    <3>3. QED
      BY <3>1, <3>2, <1>7
  <2>3. CASE i \in 1 .. Len(fwd)
    BY <2>3, <1>6
  <2>4. QED
    BY <2>1, <2>2, <2>3, <1>6
<1>9. \A r : InForce(r)' = InForce(r) /\ InForceThen(r)' = InForceThen(r)
  BY DEF InForce, InForceThen
<1>10. ASSUME NEW r
       PROVE  /\ \A i \in 1 .. Len(fwd) : Lit(fwd, i, InForceThen(r), Begins(r), Ends(r))
                    => Lit(fwd', i, InForceThen(r), Begins(r), Ends(r))
              /\ r \in active => LitAfter(fwd', InForceThen(r), Begins(r), Ends(r))
  <2> DEFINE b == InForceThen(r)  On == Begins(r)  Off == Ends(r)
  <2>1. b \in BOOLEAN
    BY InForceTypes
  <2>2. \A k \in 1 .. Len(q) : q[k] \notin Off
    BY <1>2, <1>3 DEF Ends
  <2>3. r \in active => \E k \in 1 .. Len(q) : q[k] \in On
    BY <1>2, <1>3, <1>5 DEF Begins
  <2> HIDE DEF b, On, Off
  <2>4. \A i \in 1 .. Len(fwd) : Lit(fwd, i, b, On, Off) => Lit(u, i, b, On, Off)
    BY <2>1, <1>2, LitJoined DEF u
  <2>5. /\ \A i \in 1 .. Len(u) : Lit(u, i, b, On, Off) => Lit(u \o q, i, b, On, Off)
        /\ (\E k \in 1 .. Len(q) : q[k] \in On) => LitAfter(u \o q, b, On, Off)
    BY <2>1, <2>2, <1>2, <1>6, LitJoined
  <2>6. \A i \in 1 .. Len(fwd) : i \in 1 .. Len(u)
    BY <1>6
  <2>7. /\ \A i \in 1 .. Len(fwd) : Lit(fwd, i, b, On, Off) => Lit(fwd', i, b, On, Off)
        /\ r \in active => LitAfter(fwd', b, On, Off)
    BY <2>3, <2>4, <2>5, <2>6, <1>6
  <2>8. QED
    BY <2>7 DEF b, On, Off
<1>11. HotInFwd'
  <2> SUFFICES ASSUME NEW i \in 1 .. Len(fwd'), fwd'[i] \in Hot
               PROVE  \E r \in Reason : Lit(fwd', i, InForceThen(r), Begins(r), Ends(r))
    BY <1>9 DEF HotInFwd
  <2>1. i \in 1 .. Len(fwd) /\ fwd[i] \in Hot
    BY <1>8
  <2>2. PICK r \in Reason : Lit(fwd, i, InForceThen(r), Begins(r), Ends(r))
    BY <2>1 DEF HotFollow, HotInFwd
  <2>3. QED
    BY <2>1, <2>2, <1>10
<1>12. HotInRx' /\ NextIsHot' /\ NoContexts'
  BY <1>9, <1>10 DEF HotFollow, HotInRx, NextIsHot, NoContexts
<1>13. QED
  BY <1>11, <1>12 DEF HotFollow

LEMMA HotStep ==
    TypeOK /\ TypeOK' /\ NoBoundaryStale /\ Suppress /\ HotFollow /\ [Next]_vars => HotFollow'
<1> SUFFICES ASSUME TypeOK, TypeOK', NoBoundaryStale, Suppress, HotFollow, [Next]_vars
             PROVE  HotFollow'
  OBVIOUS
<1>0. fwd' \in Seq(Captures) /\ rx' \in Seq(Captures)
  BY DEF TypeOK, ChannelsOK
<1>w. ASSUME UNCHANGED writerVars PROVE rx' = rx /\ reasons' = reasons
  BY <1>w DEF writerVars, policy
<1>e. ASSUME NEW c, Emit(c), c \in Hot => active # {}, c.kind # "exited",
             active' = active, UNCHANGED writerVars
      PROVE  HotFollow'
  <2>1. fwd' = Append(fwd, c) /\ ~suspended
    BY <1>e DEF Emit
  <2>2. /\ HotInRx' /\ HotInFwd'
        /\ \A r \in Reason : r \in active /\ c \notin Ends(r)
              => LitAfter(fwd', InForceThen(r)', Begins(r), Ends(r))
    BY <2>1, <1>0, <1>e, <1>w, HotEmitted
  <2>3. (\A r : c \notin Ends(r)) /\ active \subseteq Reason
    BY <1>e DEF Ends, TypeOK, ProducerOK
  <2>4. NextIsHot' /\ NoContexts'
    BY <2>2, <2>3, <1>e DEF NextIsHot, NoContexts, HotFollow
  <2>5. QED
    BY <2>2, <2>4 DEF HotFollow
<1>1. ASSUME NEW app \in App, FocusTo(app) PROVE HotFollow'
  <2> DEFINE c == [Capture("focus", app) EXCEPT !.prev = focus,
                      !.dur = IF focus = NoApp THEN 0 ELSE now - since]
  <2>1. Emit(c) /\ active' = active /\ UNCHANGED writerVars
    BY <1>1 DEF FocusTo
  <2>2. c.kind = "focus" /\ (c.hot <=> active # {})
    BY DEF Capture
  <2> HIDE DEF c
  <2>3. QED
    BY <2>1, <2>2, <1>e DEF Hot
<1>2. CASE FocusClosed
  <2> DEFINE c == [Capture("focus", focus) EXCEPT !.prev = focus, !.dur = now - since]
  <2>1. Emit(c) /\ active' = active /\ UNCHANGED writerVars
    BY <1>2 DEF FocusClosed
  <2>2. c.kind = "focus" /\ (c.hot <=> active # {})
    BY DEF Capture
  <2> HIDE DEF c
  <2>3. QED
    BY <2>1, <2>2, <1>e DEF Hot
<1>3. CASE PlainCapture \/ CutCapture
  <2>1. PICK kind, app :
              /\ Emit(Capture(kind, app)) /\ kind \notin {"gap", "focus", "action", "entered", "exited"}
              /\ kind \in {"notice", "wake", "cut"} => app = NoApp
    BY <1>3, PlainEmits
  <2>2. Capture(kind, app).kind # "exited" /\ (Capture(kind, app).hot <=> active # {})
    BY <2>1, MadeShaped
  <2>3. active' = active /\ UNCHANGED writerVars
    BY <1>3 DEF PlainCapture, CutCapture, producer
  <2>4. QED
    BY <2>1, <2>2, <2>3, <1>e DEF Hot
<1>4. ASSUME NEW r \in Reason, SensitiveBoundary(r) PROVE HotFollow'
  <2>1. /\ UNCHANGED writerVars /\ "entered" \in Inputs /\ suspended' = suspended
        /\ active' = IF r \in active THEN active \ {r} ELSE active \cup {r}
    BY <1>4 DEF SensitiveBoundary
  <2>2. NoContexts'
    BY <2>1 DEF NoContexts
  <2>3. CASE suspended
    <3>1. fwd' = fwd
      BY <1>4, <2>3 DEF SensitiveBoundary
    <3>2. \A x : InForce(x)' = InForce(x) /\ InForceThen(x)' = InForceThen(x)
      BY <2>1, <1>w DEF InForce, InForceThen
    <3>3. HotInRx' /\ HotInFwd'
      BY <3>1, <3>2, <2>1, <1>w DEF HotFollow, HotInRx, HotInFwd
    <3>4. NextIsHot'
      BY <2>1, <2>3 DEF NextIsHot
    <3>5. QED
      BY <2>2, <3>3, <3>4 DEF HotFollow
  <2>4. CASE ~suspended
    <3> DEFINE kind == IF r \in active THEN "exited" ELSE "entered"
               c == Boundary(kind, r)
    <3>1. Emit(c)
      BY <1>4, <2>4, Zenon DEF SensitiveBoundary
    <3>2. c.kind = kind /\ c.reason = r
      BY BoundaryShaped
    <3> HIDE DEF c
    <3>3. fwd' = Append(fwd, c) /\ c \notin Hot
      BY <3>1, <3>2 DEF Emit, Hot, Redactable
    <3>4. /\ c \in Captures /\ HotInRx' /\ HotInFwd'
          /\ \A x \in Reason : c \in Begins(x) \/ (x \in active /\ c \notin Ends(x))
                => LitAfter(fwd', InForceThen(x)', Begins(x), Ends(x))
      BY <3>3, <2>1, <2>4, <1>0, <1>w, HotEmitted
    <3>5. \A x \in active' : x \in Reason /\ (c \in Begins(x) \/ (x \in active /\ c \notin Ends(x)))
      BY <3>2, <3>4, <2>1 DEF Begins, Ends, TypeOK, ProducerOK
    <3>6. NextIsHot'
      BY <3>4, <3>5 DEF NextIsHot
    <3>7. QED
      BY <2>2, <3>4, <3>6 DEF HotFollow
  <2>5. QED
    BY <2>3, <2>4
<1>5. CASE ResumeCapture
  <2>1. /\ UNCHANGED writerVars /\ active' = active
        /\ IF "entered" \in Inputs THEN Reconcile ELSE UNCHANGED fwd
    BY <1>5, Zenon DEF ResumeCapture
  <2>2. CASE "entered" \in Inputs
    BY <2>1, <2>2, <1>w, HotReconciled
  <2>3. CASE "entered" \notin Inputs
    <3>1. active' = {} /\ fwd' = fwd
      BY <2>1, <2>3 DEF HotFollow, NoContexts
    <3>2. \A x : InForce(x)' = InForce(x) /\ InForceThen(x)' = InForceThen(x)
      BY <2>1, <1>w DEF InForce, InForceThen
    <3>3. HotInRx' /\ HotInFwd' /\ NextIsHot' /\ NoContexts'
      BY <3>1, <3>2, <2>1, <1>w DEF HotFollow, HotInRx, HotInFwd, NextIsHot, NoContexts
    <3>4. QED
      BY <3>3 DEF HotFollow
  <2>4. QED
    BY <2>2, <2>3
<1>6. ASSUME NEW app, ActionCaptured(app) PROVE HotFollow'
  BY <1>6, <1>0, HotAction
<1>7. CASE TakeInput
  BY <1>7, PolicyFollows, HotTaken DEF producer
<1>8. CASE Crash \/ Start
  <2>1. fwd' = <<>> /\ rx' = <<>> /\ active' = {}
    BY <1>8 DEF Crash, Start, FreshMemory
  <2>2. QED
    BY <2>1 DEF HotFollow, HotInRx, HotInFwd, NextIsHot, NoContexts
<1>9. CASE Reemit
  <2>1. UNCHANGED <<fwd, rx, active, suspended>>
    BY <1>9 DEF Reemit, producer
  <2>2. reasons \subseteq reasons'
    <3>1. \/ UNCHANGED policy
          \/ \E r \in todo : QueueCaptured([Capture("entered", NoApp) EXCEPT
                                               !.reason = r, !.at = cmd.at, !.dark = FALSE])
      BY <1>9, Zenon DEF Reemit
    <3>2. ASSUME NEW c, c.kind = "entered", QueueCaptured(c) PROVE reasons \subseteq reasons'
      BY <3>2 DEF QueueCaptured, DropStale, DropExcluded, StoreCaptured, ApplyPolicyState,
         ReasonsAfter, policy
    <3>3. \A r : [Capture("entered", NoApp) EXCEPT
                     !.reason = r, !.at = cmd.at, !.dark = FALSE].kind = "entered"
      BY DEF Capture
    <3>4. QED
      BY <3>1, <3>2, <3>3 DEF policy
  <2>3. ASSUME NEW i, NEW r, Lit(rx, i, InForce(r), Begins(r), Ends(r))
        PROVE  Lit(rx, i, InForce(r)', Begins(r), Ends(r))
    <3> DEFINE b == InForce(r)  then == InForce(r)'
    <3>1. b \in BOOLEAN /\ then \in BOOLEAN /\ (b => then) /\ Lit(rx, i, b, Begins(r), Ends(r))
      BY <2>2, <2>3 DEF InForce
    <3> HIDE DEF b, then
    <3>2. Lit(rx, i, then, Begins(r), Ends(r))
      BY <3>1, HotMore
    <3>3. QED
      BY <3>2 DEF then
  <2>4. HotInRx'
    BY <2>1, <2>3 DEF HotFollow, HotInRx
  <2>5. \A r : InForceThen(r) => InForceThen(r)'
    BY <2>1, <2>3 DEF InForceThen, LitAfter
  <2>6. QED
    BY <2>1, <2>4, <2>5, HotGrows
<1>10. CASE \/ Tick \/ WallStep \/ CloseGate \/ SendForget \/ OpenGate \/ RecordCommand
            \/ PanicArm \/ PanicStop \/ WorkerStarts \/ WorkerStops \/ PrivacyCommand \/ Shutdown
  <2>1. UNCHANGED <<fwd, rx, reasons, active>> /\ (suspended' = suspended \/ suspended' = TRUE)
    BY <1>10 DEF Tick, WallStep, CloseGate, SendForget, OpenGate, RecordCommand, PanicArm,
       PanicStop, WorkerStarts, WorkerStops, PrivacyCommand, Shutdown, producer, writerVars,
       restOfWriter, policy
  <2>2. QED
    BY <2>1, HotKept
<1>11. CASE \/ FlushTick \/ Heartbeat \/ BeatOpenFocus
            \/ StartRecording \/ PauseRecording \/ ResumeRecording
            \/ RefusePrivacy \/ BeginDrain
            \/ FinishForget \/ FinishStop \/ Reset \/ Replace \/ ReplaceFails \/ Stop
  <2>1. UNCHANGED <<fwd, rx, reasons, active, suspended>>
    BY <1>11 DEF FlushTick, Heartbeat, BeatOpenFocus, StartRecording, PauseRecording,
       ResumeRecording, RefusePrivacy, BeginDrain, FinishForget, FinishStop, Reset, Replace,
       ReplaceFails, Stop, producer, policy
  <2>2. QED
    BY <2>1, HotKept
<1>12. CASE UNCHANGED vars
  <2>1. UNCHANGED <<fwd, rx, reasons, active, suspended>>
    BY <1>12 DEF vars, producer, policy
  <2>2. QED
    BY <2>1, HotKept
<1>13. CASE Forward
  BY <1>13, HotForwarded
<1>14. QED
  BY <1>1, <1>2, <1>3, <1>4, <1>5, <1>6, <1>7, <1>8, <1>9, <1>10, <1>11, <1>12, <1>13, Zenon
  DEF Next
-----------------------------------------------------------------------------
(***************************************************************************)
(* What is kept is redacted.                                               *)
(***************************************************************************)
Redacted(r) == r.cap.hot /\ r.cap.kind \in Redactable => r.sens

LEMMA StoredRedacted ==
    ASSUME Suppress, NEW c \in Captures, c \in Hot => reasons # {}
    PROVE  Redacted(CapturedRow(c))
<1>1. c \in CaptureFields
  BY DEF Captures
<1>2. Scrubbed(c).kind = c.kind /\ Scrubbed(c).hot = c.hot
  BY <1>1 DEF Scrubbed, CaptureFields
<1>3. /\ CapturedRow(c).cap = Scrubbed(c)
      /\ CapturedRow(c).sens = Redacts(c, ReasonsAfter(c, reasons))
  BY DEF CapturedRow, Row
<1>4. ASSUME c.hot, c.kind \in Redactable PROVE Redacts(c, ReasonsAfter(c, reasons))
  <2>1. ReasonsAfter(c, reasons) = reasons
    BY <1>4 DEF ReasonsAfter, Redactable
  <2>2. c \in Hot
    BY <1>4 DEF Hot
  <2>3. QED
    BY <1>4, <2>1, <2>2 DEF Redacts
<1>5. QED
  BY <1>2, <1>3, <1>4 DEF Redacted

LEMMA CapturedRedacted ==
    ASSUME HotRowsRedacted, Suppress, NEW c \in Captures, c \in Hot => reasons # {},
           QueueCaptured(c)
    PROVE  HotRowsRedacted'
<1>1. (UNCHANGED pending /\ rows' = rows) \/ Held' \subseteq Held \cup {CapturedRow(c)}
  BY CapturedHeld
<1>2. Held' \subseteq Held \cup {CapturedRow(c)}
  BY <1>1 DEF Held, pending
<1>3. Redacted(CapturedRow(c))
  BY StoredRedacted
<1>4. QED
  BY <1>2, <1>3 DEF HotRowsRedacted, Redacted

LEMMA ActionRedacted ==
    ASSUME HotRowsRedacted, NEW a \in Captures, a.kind = "action",
           DropAction(a) \/ MarkGap(a) \/ StoreAction(a)
    PROVE  HotRowsRedacted'
<1>1. ASSUME NEW m, PushAction(Row(sq, m, FALSE)), batch' = batch, m.kind \in {"action", "gap"}
      PROVE  HotRowsRedacted'
  <2>1. Held' \subseteq Held \cup {Row(sq, m, FALSE)}
    BY <1>1, RowPushed
  <2>2. Redacted(Row(sq, m, FALSE))
    BY <1>1 DEF Row, Redacted, Redactable
  <2>3. QED
    BY <2>1, <2>2 DEF HotRowsRedacted, Redacted
<1>2. ASSUME UNCHANGED <<batch, actions, rows>> PROVE HotRowsRedacted'
  BY <1>2 DEF Held, HotRowsRedacted
<1>3. CASE DropAction(a)
  BY <1>2, <1>3 DEF DropAction, pending
<1>4. CASE MarkGap(a)
  <2> DEFINE m == [a EXCEPT !.kind = "gap", !.app = NoApp]
  <2>1. m.kind = "gap"
    BY DEF Captures, CaptureFields
  <2>2. \/ UNCHANGED <<batch, actions, rows>>
        \/ PushAction(Row(sq, m, FALSE)) /\ batch' = batch
    BY <1>4, Zenon DEF MarkGap
  <2> HIDE DEF m
  <2>3. QED
    BY <2>1, <2>2, <1>1, <1>2
<1>5. CASE StoreAction(a)
  <2>1. PushAction(Row(sq, a, FALSE)) /\ batch' = batch
    BY <1>5, Zenon DEF StoreAction
  <2>2. QED
    BY <2>1, <1>1
<1>6. QED
  BY <1>3, <1>4, <1>5

LEMMA RedactStep ==
    TypeOK /\ NoBoundaryStale /\ Suppress /\ HotFollow /\ HotRowsRedacted /\ [Next]_vars
        => HotRowsRedacted'
<1> SUFFICES ASSUME TypeOK, NoBoundaryStale, Suppress, HotFollow, HotRowsRedacted, [Next]_vars
             PROVE  HotRowsRedacted'
  OBVIOUS
<1>1. CASE TakeInput
  <2> DEFINE c == Head(rx)
  <2>1. /\ rx # <<>> /\ Queue(c) /\ (c \in Hot => reasons # {})
    BY <1>1, PolicyFollows, HotTaken DEF producer, TakeInput
  <2>2. c \in Captures
    BY <2>1 DEF TypeOK, ChannelsOK
  <2> HIDE DEF c
  <2>3. QED
    BY <2>1, <2>2, CapturedRedacted, ActionRedacted DEF Queue
<1>2. CASE Reemit
  <2>1. \/ UNCHANGED pending /\ rows' = rows
        \/ \E r \in todo :
              QueueCaptured([Capture("entered", NoApp) EXCEPT
                                !.reason = r, !.at = cmd.at, !.dark = FALSE])
    BY <1>2, Zenon DEF Reemit
  <2>2. ASSUME NEW r \in todo, QueueCaptured([Capture("entered", NoApp) EXCEPT
                                                 !.reason = r, !.at = cmd.at, !.dark = FALSE])
        PROVE  HotRowsRedacted'
    <3> DEFINE c == [Capture("entered", NoApp) EXCEPT !.reason = r, !.at = cmd.at, !.dark = FALSE]
    <3>1. c \in Captures
      BY ReemittedType
    <3>2. c.kind = "entered"
      BY DEF Capture
    <3>3. QueueCaptured(c)
      BY <2>2
    <3> HIDE DEF c
    <3>4. c \notin Hot
      BY <3>2 DEF Hot, Redactable
    <3>5. QED
      BY <3>1, <3>3, <3>4, CapturedRedacted
  <2>3. QED
    BY <2>1, <2>2 DEF HotRowsRedacted, Held, pending
<1>3. CASE Start
  <2>1. /\ batch' = {} /\ actions' = {}
        /\ rows' = rows \/ \E n : rows' = rows \cup {Recovered(n)}
    BY <1>3, StartGains DEF Start, FreshMemory
  <2>2. \A n : Redacted(Recovered(n))
    BY DEF Redacted, Recovered
  <2>3. QED
    BY <2>1, <2>2 DEF HotRowsRedacted, Redacted, Held
<1>4. CASE Held' \subseteq Held
  BY <1>4 DEF HotRowsRedacted
<1>5. QED
  BY <1>1, <1>2, <1>3, <1>4, NothingGained

(***************************************************************************)
(* Suppression lasts from the instant a context is entered to the instant   *)
(* it is exited: every row that is kept and was captured in between is      *)
(* redacted, whatever the writer was doing when it came to it, and however  *)
(* the contexts changed while a privacy operation held the capture side.    *)
(* The hypothesis is that of NothingExcludedKept: a boundary that the erase *)
(* gate drops does not change what is in force.                            *)
(***************************************************************************)
THEOREM ProtectedRowsRedacted == Spec /\ []NoBoundaryStale => []HotRowsRedacted
<1> DEFINE Follow == Suppress => HotFollow
<1>1. Init => Follow /\ HotRowsRedacted
  BY DEF Init, Follow, HotFollow, HotInRx, HotInFwd, NextIsHot, NoContexts, HotRowsRedacted, Held
<1>2. TypeOK /\ TypeOK' /\ NoBoundaryStale /\ Follow /\ [Next]_vars => Follow'
  BY HotStep DEF Follow
<1>3. TypeOK /\ NoBoundaryStale /\ Follow /\ HotRowsRedacted /\ [Next]_vars => HotRowsRedacted'
  <2>1. CASE Suppress
    BY <2>1, RedactStep DEF Follow
  <2>2. CASE ~Suppress
    BY <2>2 DEF HotRowsRedacted
  <2>3. QED
    BY <2>1, <2>2
<1> HIDE DEF Follow
<1>4. QED
  BY <1>1, <1>2, <1>3, WriterTypeCorrect, PTL DEF Spec
-----------------------------------------------------------------------------
(***************************************************************************)
(* The erase gate is shut only behind an erase.                            *)
(***************************************************************************)
NoErase ==
    /\ boundary = NoTs /\ cmd.op # "erase"
    /\ cmds \in Seq({c \in CommandRecords : c.op # "erase"})

LEMMA NoEraseStep ==
    ASSUME "erase" \notin Commands
    PROVE  TypeOK /\ NoErase /\ [Next]_vars => NoErase'
<1> SUFFICES ASSUME TypeOK, NoErase, [Next]_vars PROVE NoErase'
  OBVIOUS
<1> DEFINE Others == {c \in CommandRecords : c.op # "erase"}
<1>k. ASSUME UNCHANGED <<cmds, cmd, boundary>> PROVE NoErase'
  BY <1>k DEF NoErase
<1>1. CASE SendForget \/ RecordCommand \/ PanicStop \/ PrivacyCommand
  <2>1. /\ UNCHANGED <<cmd, boundary>>
        /\ cmds' = cmds \/ \E op \in Commands \cap Ops, r \in Nat : Send(op, r)
    <3>1. worker \in Nat /\ {"forget", "start", "pause", "resume", "stop", "erase", "archive"} \subseteq Ops
      BY DEF TypeOK, ProducerOK, Ops
    <3>2. UNCHANGED <<cmd, boundary>>
      BY <1>1 DEF SendForget, RecordCommand, PanicStop, PrivacyCommand, restOfWriter, erasure
    <3>3. cmds' = cmds \/ \E op \in Ops, r \in Nat : Send(op, r)
      BY <1>1, <3>1, Zenon DEF SendForget, RecordCommand, PanicStop, PrivacyCommand
    <3>4. \A op, r : Send(op, r) => op \in Commands
      BY DEF Send
    <3>5. QED
      BY <3>2, <3>3, <3>4
  <2>2. ASSUME NEW op \in Commands \cap Ops, NEW r \in Nat, Send(op, r) PROVE NoErase'
    <3>1. cmds' = Append(cmds, [op |-> op, rec |-> r, at |-> 0])
      BY <2>2 DEF Send
    <3>2. [op |-> op, rec |-> r, at |-> 0] \in Others
      BY DEF CommandRecords
    <3>3. QED
      BY <2>1, <3>1, <3>2 DEF NoErase
  <2>3. QED
    BY <2>1, <2>2, <1>k
<1>2. CASE \/ StartRecording \/ PauseRecording \/ ResumeRecording \/ RefusePrivacy \/ BeginDrain
  <2>1. /\ cmds # <<>> /\ cmds' = Tail(cmds) /\ boundary' = boundary
        /\ cmd' = cmd \/ cmd' = Head(cmds)
    BY <1>2 DEF StartRecording, PauseRecording, ResumeRecording, RefusePrivacy, BeginDrain,
       Next1, erasure
  <2>2. cmds' \in Seq(Others) /\ Head(cmds) \in Others
    BY <2>1 DEF NoErase
  <2>3. QED
    BY <2>1, <2>2 DEF NoErase
<1>3. CASE FinishForget \/ FinishStop \/ ReplaceFails \/ Reset \/ Reemit
  <2>1. UNCHANGED <<cmds, boundary>> /\ (cmd' = cmd \/ cmd' = NoCmd)
    BY <1>3 DEF FinishForget, FinishStop, ReplaceFails, Reset, Reemit, Done, erasure
  <2>2. QED
    BY <2>1 DEF NoErase, NoCmd
<1>4. CASE Replace
  <2>1. boundary' = NoTs /\ cmds' = cmds /\ cmd' = [cmd EXCEPT !.at = now]
    BY <1>4 DEF Replace, NoErase
  <2>2. cmd'.op = cmd.op
    BY <2>1 DEF TypeOK, ControlOK, CommandRecords
  <2>3. QED
    BY <2>1, <2>2 DEF NoErase
<1>5. CASE Crash \/ Start
  <2>1. boundary' = NoTs /\ cmds' = <<>> /\ cmd' = NoCmd
    BY <1>5 DEF Crash, Start, FreshMemory
  <2>2. QED
    BY <2>1 DEF NoErase, NoCmd
<1>6. CASE \/ (\E app \in App : FocusTo(app))
           \/ FocusClosed \/ PlainCapture \/ CutCapture
           \/ (\E r \in Reason : SensitiveBoundary(r))
           \/ ResumeCapture \/ Tick \/ WallStep \/ CloseGate \/ OpenGate \/ PanicArm
           \/ WorkerStarts \/ WorkerStops
  <2>1. UNCHANGED writerVars
    BY <1>6 DEF FocusTo, FocusClosed, PlainCapture, CutCapture, SensitiveBoundary,
       ResumeCapture, Tick, WallStep, CloseGate, OpenGate, PanicArm, WorkerStarts, WorkerStops
  <2>2. QED
    BY <2>1, <1>k DEF writerVars, erasure
<1>7. CASE \/ Forward \/ (\E app \in App \cup {NoApp} : ActionCaptured(app)) \/ Shutdown
           \/ TakeInput \/ FlushTick \/ Heartbeat \/ BeatOpenFocus \/ Stop
  BY <1>7, <1>k DEF Forward, ActionCaptured, Shutdown, TakeInput, FlushTick, Heartbeat,
     BeatOpenFocus, Stop, erasure
<1>8. CASE UNCHANGED vars
  BY <1>8, <1>k DEF vars, erasure
<1>9. QED
  BY <1>1, <1>2, <1>3, <1>4, <1>5, <1>6, <1>7, <1>8, Zenon DEF Next

(***************************************************************************)
(* Where there is no secure erase, both hold without a condition: the gate  *)
(* is open.  An archive/reset, which goes the same way, leaves it open.     *)
(***************************************************************************)
THEOREM PrivateWithoutErase ==
    ASSUME "erase" \notin Commands
    PROVE  Spec => [](ExclusionBoundary /\ HotRowsRedacted)
<1>1. Init => NoErase
  BY DEF Init, NoErase, NoCmd
<1>2. TypeOK /\ NoErase /\ [Next]_vars => NoErase'
  BY NoEraseStep
<1>3. NoErase => NoBoundaryStale
  BY DEF NoErase, NoBoundaryStale, Stale
<1>4. Spec => []NoBoundaryStale
  BY <1>1, <1>2, <1>3, WriterTypeCorrect, PTL DEF Spec
<1>5. QED
  BY <1>4, NothingExcludedKept, ProtectedRowsRedacted, PTL
-----------------------------------------------------------------------------
(***************************************************************************)
(* The erase boundary is a reading of the wall clock, and a late capture is  *)
(* held against it by its projection on the timebase: how far the timebase   *)
(* is from the monotonic clock decides what the gate lets through.           *)
(***************************************************************************)
Offset(s) == s.baseU - s.baseI

(* No capture is of a later instant than now, *)
Seen == {c \in Captures : c.at <= now}

SeenInv == fwd \in Seq(Seen) /\ rx \in Seq(Seen)

(* so no timestamp given out is beyond the present of the timebase. *)
LastSeen == sq.last # NoTs => sq.last <= Projected(sq, now)

ReemitsSeen == pc = "reemit" => cmd.at <= now

TimeInv == SeenInv /\ LastSeen /\ ReemitsSeen

(* A resynchronisation brings the timebase to the wall clock, k from the     *)
(* monotonic one, or as near to it as the last timestamp lets it come.       *)
MovedTo(k, before, after) == after = before \/ (k <= after /\ (after <= k \/ after <= before))

LEMMA ResyncedOffset ==
    ASSUME NEW s \in Sequencers, NEW instant \in Int, NEW k \in Int, NEW t \in Nat,
           s.last # NoTs => s.last <= Projected(s, instant)
    PROVE  LET z == Resynced(s, instant, instant + k, t)
           IN  /\ MovedTo(k, Offset(s), Offset(z))
               /\ z.last # NoTs => z.last <= Projected(z, instant)
<1> DEFINE z == Resynced(s, instant, instant + k, t)
<1>0. s.baseU \in Int /\ s.baseI \in Int /\ s.last \in Int \cup {NoTs}
  BY DEF Sequencers
<1>1. CASE z = s
  BY <1>1 DEF MovedTo
<1>2. CASE z # s
  <2>1. z = [s EXCEPT !.baseI = instant, !.baseU = Clamped(s, instant + k)]
    BY <1>2 DEF Resynced
  <2>2. z.baseI = instant /\ z.baseU = Clamped(s, instant + k) /\ z.last = s.last
    BY <2>1 DEF Sequencers
  <2> HIDE DEF z
  <2>3. CASE s.last = NoTs
    <3>1. Clamped(s, instant + k) = instant + k
      BY <2>3 DEF Clamped
    <3>2. QED
      BY <3>1, <2>2, <2>3, <1>0 DEF MovedTo, Offset, z
  <2>4. CASE s.last # NoTs
    <3>1. s.last \in Int /\ s.last - instant <= s.baseU - s.baseI
      BY <2>4, <1>0 DEF Projected
    <3>2. /\ Clamped(s, instant + k) \in {s.last, instant + k}
          /\ s.last <= Clamped(s, instant + k) /\ instant + k <= Clamped(s, instant + k)
      BY <3>1, <2>4 DEF Clamped
    <3>3. MovedTo(k, Offset(s), Offset(z))
      BY <3>1, <3>2, <2>2, <1>0 DEF MovedTo, Offset
    <3>4. z.last <= Projected(z, instant)
      BY <3>1, <3>2, <2>2, <1>0 DEF Projected
    <3>5. QED
      BY <3>3, <3>4 DEF z
  <2>5. QED
    BY <2>3, <2>4
<1>3. QED
  BY <1>1, <1>2

(* A row leaves the timebase where it is. *)
LEMMA StampedOffset ==
    ASSUME NEW s \in Sequencers, NEW instant \in Int, NEW at \in Int, at <= instant,
           s.last # NoTs => s.last <= Projected(s, instant)
    PROVE  LET z == Stamped(s, at)
           IN  /\ Offset(z) = Offset(s)
               /\ z.last # NoTs => z.last <= Projected(z, instant)
<1> DEFINE z == Stamped(s, at)
<1>0. s.baseU \in Int /\ s.baseI \in Int /\ s.last \in Int \cup {NoTs}
  BY DEF Sequencers
<1>1. z.baseU = s.baseU /\ z.baseI = s.baseI /\ z.last = TimestampFor(s, at)
  BY DEF Stamped, Sequencers
<1> HIDE DEF z
<1>2. Projected(s, at) <= Projected(s, instant) /\ Projected(z, instant) = Projected(s, instant)
  BY <1>0, <1>1 DEF Projected
<1>3. TimestampFor(s, at) = Projected(s, at) \/ (s.last # NoTs /\ TimestampFor(s, at) = s.last)
  BY DEF TimestampFor, Clamped
<1>4. QED
  BY <1>1, <1>2, <1>3 DEF Offset, z

LEMMA ChangesSequencer ==
    ASSUME [Next]_vars
    PROVE  \/ TakeInput \/ Reemit \/ Heartbeat \/ Replace \/ Start
           \/ sq' = sq
<1>1. CASE \/ (\E app \in App : FocusTo(app)) \/ FocusClosed \/ PlainCapture \/ CutCapture
               \/ (\E r \in Reason : SensitiveBoundary(r)) \/ ResumeCapture \/ Tick
               \/ WallStep \/ CloseGate \/ OpenGate \/ PanicArm \/ WorkerStarts \/ WorkerStops
  BY <1>1 DEF FocusTo, FocusClosed, PlainCapture, CutCapture, SensitiveBoundary, ResumeCapture,
     Tick, WallStep, CloseGate, OpenGate, PanicArm, WorkerStarts, WorkerStops, writerVars
<1>2. CASE \/ SendForget \/ RecordCommand \/ PanicStop \/ PrivacyCommand
  BY <1>2 DEF SendForget, RecordCommand, PanicStop, PrivacyCommand, restOfWriter
<1>3. CASE \/ Forward \/ (\E app \in App \cup {NoApp} : ActionCaptured(app)) \/ Shutdown
               \/ Crash \/ FlushTick \/ BeatOpenFocus \/ StartRecording \/ PauseRecording
               \/ ResumeRecording \/ RefusePrivacy \/ BeginDrain \/ FinishForget
               \/ FinishStop \/ Reset \/ ReplaceFails \/ Stop
  BY <1>3 DEF Forward, ActionCaptured, Shutdown, Crash, FlushTick, BeatOpenFocus,
     StartRecording, PauseRecording, ResumeRecording, RefusePrivacy, BeginDrain, FinishForget,
     FinishStop, Reset, ReplaceFails, Stop
<1>4. CASE UNCHANGED vars
  BY <1>4 DEF vars
<1>5. QED
  BY <1>1, <1>2, <1>3, <1>4, Zenon DEF Next

LEMMA ChangesErasure ==
    ASSUME [Next]_vars
    PROVE  \/ Replace
           \/ erasedAt' = NoTs /\ boundary' = NoTs
           \/ erasedAt' = erasedAt /\ boundary' = boundary
<1>1. CASE \/ (\E app \in App : FocusTo(app)) \/ FocusClosed \/ PlainCapture \/ CutCapture
               \/ (\E r \in Reason : SensitiveBoundary(r)) \/ ResumeCapture \/ Tick
               \/ WallStep \/ CloseGate \/ OpenGate \/ PanicArm \/ WorkerStarts \/ WorkerStops
  BY <1>1 DEF FocusTo, FocusClosed, PlainCapture, CutCapture, SensitiveBoundary, ResumeCapture,
     Tick, WallStep, CloseGate, OpenGate, PanicArm, WorkerStarts, WorkerStops, writerVars, erasure
<1>2. CASE \/ SendForget \/ RecordCommand \/ PanicStop \/ PrivacyCommand
  BY <1>2 DEF SendForget, RecordCommand, PanicStop, PrivacyCommand, restOfWriter, erasure
<1>3. CASE \/ Forward \/ (\E app \in App \cup {NoApp} : ActionCaptured(app)) \/ Shutdown
               \/ TakeInput \/ FlushTick \/ Heartbeat \/ BeatOpenFocus \/ StartRecording
               \/ PauseRecording \/ ResumeRecording \/ RefusePrivacy \/ BeginDrain
               \/ FinishForget \/ FinishStop \/ Reset \/ ReplaceFails \/ Reemit \/ Stop
  BY <1>3 DEF Forward, ActionCaptured, Shutdown, TakeInput, FlushTick, Heartbeat,
     BeatOpenFocus, StartRecording, PauseRecording, ResumeRecording, RefusePrivacy, BeginDrain,
     FinishForget, FinishStop, Reset, ReplaceFails, Reemit, Stop, erasure
<1>4. CASE Crash \/ Start
  BY <1>4 DEF Crash, Start, FreshMemory
<1>5. CASE UNCHANGED vars
  BY <1>5 DEF vars, erasure
<1>6. QED
  BY <1>1, <1>2, <1>3, <1>4, <1>5, Zenon DEF Next

(* The wall clock is set in a step of its own. *)
LEMMA ChangesSkew == ASSUME [Next]_vars PROVE WallStep \/ skew' = skew
<1>1. CASE \/ (\E app \in App : FocusTo(app)) \/ FocusClosed \/ PlainCapture \/ CutCapture
               \/ (\E r \in Reason : SensitiveBoundary(r)) \/ ResumeCapture \/ Tick
               \/ CloseGate \/ OpenGate \/ PanicArm \/ WorkerStarts \/ WorkerStops
  BY <1>1 DEF FocusTo, FocusClosed, PlainCapture, CutCapture, SensitiveBoundary, ResumeCapture,
     Tick, CloseGate, OpenGate, PanicArm, WorkerStarts, WorkerStops, writerVars, clocks
<1>2. CASE \/ SendForget \/ RecordCommand \/ PanicStop \/ PrivacyCommand
  BY <1>2 DEF SendForget, RecordCommand, PanicStop, PrivacyCommand, restOfWriter, clocks
<1>3. CASE \/ Forward \/ (\E app \in App \cup {NoApp} : ActionCaptured(app)) \/ Shutdown
               \/ Crash \/ TakeInput \/ FlushTick \/ Heartbeat \/ BeatOpenFocus
               \/ StartRecording \/ PauseRecording \/ ResumeRecording \/ RefusePrivacy
               \/ BeginDrain \/ FinishForget \/ FinishStop \/ Reset \/ Replace \/ ReplaceFails
               \/ Reemit \/ Stop \/ Start
  BY <1>3 DEF Forward, ActionCaptured, Shutdown, Crash, TakeInput, FlushTick, Heartbeat,
     BeatOpenFocus, StartRecording, PauseRecording, ResumeRecording, RefusePrivacy, BeginDrain,
     FinishForget, FinishStop, Reset, Replace, ReplaceFails, Reemit, Stop, Start, clocks
<1>4. CASE UNCHANGED vars
  BY <1>4 DEF vars, clocks
<1>5. QED
  BY <1>1, <1>2, <1>3, <1>4, Zenon DEF Next

LEMMA SeenStep == TypeOK /\ TypeOK' /\ SeenInv /\ [Next]_vars => SeenInv'
<1> SUFFICES ASSUME TypeOK, TypeOK', SeenInv, [Next]_vars PROVE SeenInv'
  OBVIOUS
<1>0. fwd' \in Seq(Captures) /\ rx' \in Seq(Captures) /\ now \in Int
  BY DEF TypeOK, ChannelsOK, ClocksOK
<1>n. now' \in Int /\ now <= now'
  BY <1>0, ChangesNow DEF Tick
<1>m. Seen \subseteq Seen'
  BY <1>0, <1>n DEF Seen, Captures, CaptureFields
<1>s. fwd \in Seq(Seen') /\ rx \in Seq(Seen')
  BY <1>m DEF SeenInv
<1>i. \A c \in Captures : c.at = now => c \in Seen'
  BY <1>n DEF Seen
<1> HIDE DEF Seen
<1>k. ASSUME fwd' = fwd, rx' = rx PROVE SeenInv'
  BY <1>k, <1>s DEF SeenInv
<1>e. ASSUME NEW c, Emit(c), c.at = now, rx' = rx PROVE SeenInv'
  <2>1. fwd' = Append(fwd, c)
    BY <1>e DEF Emit
  <2>2. c = fwd'[Len(fwd) + 1] /\ Len(fwd) + 1 \in 1 .. Len(fwd')
    BY <2>1, <1>s
  <2>3. c \in Seen'
    BY <2>2, <1>0, <1>e, <1>i
  <2>4. QED
    BY <2>1, <2>3, <1>e, <1>s DEF SeenInv
<1>w. ASSUME UNCHANGED writerVars PROVE rx' = rx
  BY <1>w DEF writerVars
<1>1. ASSUME NEW app \in App, FocusTo(app) PROVE SeenInv'
  <2> DEFINE dwell == IF focus = NoApp THEN 0 ELSE now - since
             c == [Capture("focus", app) EXCEPT !.prev = focus, !.dur = dwell]
  <2>1. Emit(c) /\ UNCHANGED writerVars
    BY <1>1 DEF FocusTo
  <2>2. c.at = now
    BY DEF Capture
  <2> HIDE DEF c
  <2>3. QED
    BY <2>1, <2>2, <1>e, <1>w
<1>2. CASE FocusClosed
  <2> DEFINE c == [Capture("focus", focus) EXCEPT !.prev = focus, !.dur = now - since]
  <2>1. Emit(c) /\ UNCHANGED writerVars
    BY <1>2 DEF FocusClosed
  <2>2. c.at = now
    BY DEF Capture
  <2> HIDE DEF c
  <2>3. QED
    BY <2>1, <2>2, <1>e, <1>w
<1>3. CASE PlainCapture \/ CutCapture
  <2>1. PICK kind, app :
              /\ Emit(Capture(kind, app)) /\ kind \notin {"gap", "focus", "action", "entered", "exited"}
              /\ kind \in {"notice", "wake", "cut"} => app = NoApp
    BY <1>3, PlainEmits
  <2>2. Capture(kind, app).at = now
    BY DEF Capture
  <2>3. rx' = rx
    BY <1>3, <1>w DEF PlainCapture, CutCapture
  <2>4. QED
    BY <2>1, <2>2, <2>3, <1>e
<1>b. \A kind, r : Boundary(kind, r).at = now
  BY DEF Boundary, Capture
<1>4. ASSUME NEW r \in Reason, SensitiveBoundary(r) PROVE SeenInv'
  <2>1. /\ fwd' = fwd \/ \E kind \in {"entered", "exited"} : Emit(Boundary(kind, r))
        /\ UNCHANGED writerVars
    BY <1>4, Zenon DEF SensitiveBoundary
  <2>2. QED
    BY <2>1, <1>b, <1>e, <1>w, <1>k
<1>5. CASE ResumeCapture
  <2>1. (fwd' = fwd \/ Reconcile) /\ rx' = rx
    BY <1>5, <1>w, Zenon DEF ResumeCapture
  <2>2. CASE Reconcile
    <3>1. PICK out \in Orders(Reason), back \in Orders(active) :
              LET p == [i \in DOMAIN out |-> Boundary("exited", out[i])]
                  q == [i \in DOMAIN back |-> Boundary("entered", back[i])]
              IN  fwd' = (fwd \o p) \o q /\ p \in Seq(Captures) /\ q \in Seq(Captures)
      BY <2>2, ReconcileAppends
    <3> DEFINE p == [i \in DOMAIN out |-> Boundary("exited", out[i])]
               q == [i \in DOMAIN back |-> Boundary("entered", back[i])]
    <3>2. (\A i \in DOMAIN p : p[i].at = now) /\ (\A i \in DOMAIN q : q[i].at = now)
      BY <1>b
    <3>3. fwd' = (fwd \o p) \o q /\ p \in Seq(Captures) /\ q \in Seq(Captures)
      BY <3>1
    <3> HIDE DEF p, q
    <3>4. p \in Seq(Seen') /\ q \in Seq(Seen')
      BY <3>2, <3>3, <1>i
    <3>5. QED
      BY <3>3, <3>4, <2>1, <1>s, ConcatProperties DEF SeenInv
  <2>3. QED
    BY <2>1, <2>2, <1>k
<1>6. CASE Forward
  <2>1. fwd # <<>> /\ rx' = Append(rx, Head(fwd)) /\ fwd' = Tail(fwd)
    BY <1>6 DEF Forward
  <2>2. QED
    BY <2>1, <1>s DEF SeenInv
<1>7. ASSUME NEW app \in App \cup {NoApp}, ActionCaptured(app) PROVE SeenInv'
  <2> DEFINE c == [Capture("action", app) EXCEPT !.rec = worker, !.dark = cutoff.rec = worker]
  <2>1. rx' = Append(rx, c) /\ fwd' = fwd
    BY <1>7 DEF ActionCaptured
  <2>2. c.at = now
    BY DEF Capture
  <2> HIDE DEF c
  <2>3. c = rx'[Len(rx) + 1] /\ Len(rx) + 1 \in 1 .. Len(rx')
    BY <2>1, <1>s
  <2>4. c \in Seen'
    BY <2>2, <2>3, <1>0, <1>i
  <2>5. QED
    BY <2>1, <2>4, <1>s DEF SeenInv
<1>8. CASE TakeInput
  <2>1. rx # <<>> /\ rx' = Tail(rx) /\ fwd' = fwd
    BY <1>8 DEF TakeInput
  <2>2. QED
    BY <2>1, <1>s DEF SeenInv
<1>9. CASE Crash \/ Start
  <2>1. fwd' = <<>> /\ rx' = <<>>
    BY <1>9 DEF Crash, Start, FreshMemory
  <2>2. QED
    BY <2>1 DEF SeenInv
<1>10. CASE \/ CloseGate \/ SendForget \/ OpenGate \/ Tick \/ WallStep
            \/ RecordCommand \/ PanicArm \/ PanicStop \/ WorkerStarts \/ WorkerStops
            \/ PrivacyCommand \/ Shutdown
  BY <1>10, <1>k DEF CloseGate, SendForget, OpenGate, Tick, WallStep, RecordCommand, PanicArm,
     PanicStop, WorkerStarts, WorkerStops, PrivacyCommand, Shutdown, writerVars, restOfWriter
<1>11. CASE \/ FlushTick \/ Heartbeat \/ BeatOpenFocus
            \/ StartRecording \/ PauseRecording \/ ResumeRecording
            \/ RefusePrivacy \/ BeginDrain
            \/ FinishForget \/ FinishStop \/ Reset \/ Replace \/ ReplaceFails \/ Reemit \/ Stop
  BY <1>11, <1>k DEF FlushTick, Heartbeat, BeatOpenFocus, StartRecording, PauseRecording,
     ResumeRecording, RefusePrivacy, BeginDrain, FinishForget, FinishStop, Reset, Replace,
     ReplaceFails, Reemit, Stop
<1>12. CASE UNCHANGED vars
  BY <1>12, <1>k DEF vars
<1>13. QED
  BY <1>1, <1>2, <1>3, <1>4, <1>5, <1>6, <1>7, <1>8, <1>9, <1>10, <1>11, <1>12, Zenon DEF Next

(* Within a session the timebase moves only by a resynchronisation.          *)
LEMMA TakenMoves ==
    ASSUME TypeOK, NEW c \in Seen, LastSeen, QueueCaptured(c)
    PROVE  /\ MovedTo(skew, Offset(sq), Offset(sq'))
           /\ sq'.last # NoTs => sq'.last <= Projected(sq', now)
<1>0. /\ sq \in Sequencers /\ now \in Int /\ skew \in Int /\ Threshold \in Nat
      /\ c.at \in Int /\ c.at <= now /\ Wall = now + skew
  BY WriterAssumption DEF TypeOK, NumbersOK, ClocksOK, Seen, Captures, CaptureFields, Wall
<1>1. sq' = sq \/ sq' = Stamped(SequencerFor(c), c.at)
  BY CapturedHeld
<1> DEFINE s == SequencerFor(c)
<1>2. /\ s \in Sequencers /\ MovedTo(skew, Offset(sq), Offset(s))
      /\ s.last # NoTs => s.last <= Projected(s, now)
  BY <1>0, ResyncedType, ResyncedOffset DEF SequencerFor, LastSeen, MovedTo
<1> HIDE DEF s
<1>3. CASE sq' = sq
  BY <1>3 DEF MovedTo, LastSeen
<1>4. CASE sq' = Stamped(s, c.at)
  BY <1>4, <1>0, <1>2, StampedOffset
<1>5. QED
  BY <1>1, <1>3, <1>4 DEF s

LEMMA SequencerMoves ==
    ASSUME TypeOK, Apart, TimeInv, [Next]_vars
    PROVE  \/ Replace \/ Start
           \/ /\ MovedTo(skew, Offset(sq), Offset(sq'))
              /\ sq'.last # NoTs => sq'.last <= Projected(sq', now)
<1>0. /\ sq \in Sequencers /\ now \in Int /\ skew \in Int /\ Threshold \in Nat
      /\ Wall = now + skew /\ LastSeen
  BY WriterAssumption DEF TypeOK, NumbersOK, ClocksOK, Wall, TimeInv
<1> DEFINE Goal == /\ MovedTo(skew, Offset(sq), Offset(sq'))
                   /\ sq'.last # NoTs => sq'.last <= Projected(sq', now)
<1>k. ASSUME sq' = sq PROVE Goal
  BY <1>k, <1>0 DEF MovedTo, LastSeen
<1>1. CASE Heartbeat
  <2>1. sq' = Resynced(sq, now, now + skew, Threshold)
    BY <1>1, <1>0 DEF Heartbeat
  <2>2. QED
    BY <2>1, <1>0, ResyncedOffset DEF LastSeen
<1>2. CASE TakeInput
  <2> DEFINE a == Head(rx)
  <2>1. rx # <<>> /\ Queue(a)
    BY <1>2 DEF TakeInput
  <2>2. a \in Seen
    BY <2>1 DEF TimeInv, SeenInv
  <2>3. a.at \in Int /\ a.at <= now
    BY <2>2 DEF Seen, Captures, CaptureFields
  <2> HIDE DEF a
  <2>4. CASE a.kind # "action"
    BY <2>1, <2>2, <2>4, <1>0, TakenMoves DEF Queue
  <2>5. CASE a.kind = "action"
    <3>1. sq' = sq \/ sq' = Stamped(sq, a.at)
      BY <2>1, <2>5, Zenon DEF Queue, DropAction, MarkGap, StoreAction
    <3>2. CASE sq' = Stamped(sq, a.at)
      <4>1. /\ Offset(sq') = Offset(sq)
            /\ sq'.last # NoTs => sq'.last <= Projected(sq', now)
        BY <3>2, <2>3, <1>0, StampedOffset DEF LastSeen
      <4>2. QED
        BY <4>1 DEF MovedTo
    <3>3. QED
      BY <3>1, <3>2, <1>k
  <2>6. QED
    BY <2>4, <2>5
<1>3. CASE Reemit
  <2>1. \/ sq' = sq
        \/ \E r \in todo : QueueCaptured([Capture("entered", NoApp) EXCEPT
                                             !.reason = r, !.at = cmd.at, !.dark = FALSE])
    BY <1>3, Zenon DEF Reemit
  <2>2. ASSUME NEW r \in todo, QueueCaptured([Capture("entered", NoApp) EXCEPT
                                                 !.reason = r, !.at = cmd.at, !.dark = FALSE])
        PROVE  Goal
    <3> DEFINE c == [Capture("entered", NoApp) EXCEPT !.reason = r, !.at = cmd.at, !.dark = FALSE]
    <3>1. c \in Captures
      BY ReemittedType
    <3>2. c.at = cmd.at
      BY DEF Capture
    <3>3. cmd.at <= now
      BY <1>3 DEF Reemit, TimeInv, ReemitsSeen
    <3> HIDE DEF c
    <3>4. c \in Seen
      BY <3>1, <3>2, <3>3 DEF Seen
    <3>5. QED
      BY <2>2, <3>4, <1>0, TakenMoves DEF c
  <2>3. QED
    BY <2>1, <2>2, <1>k
<1>4. QED
  BY <1>1, <1>2, <1>3, <1>k, ChangesSequencer

LEMMA TimeStep == TypeOK /\ TypeOK' /\ Apart /\ TimeInv /\ [Next]_vars => TimeInv'
<1> SUFFICES ASSUME TypeOK, TypeOK', Apart, TimeInv, [Next]_vars PROVE TimeInv'
  OBVIOUS
<1>0. sq \in Sequencers /\ sq' \in Sequencers /\ now \in Int /\ now' \in Int
  BY DEF TypeOK, NumbersOK, ClocksOK
<1>1. now <= now'
  BY <1>0, ChangesNow DEF Tick
<1>2. SeenInv'
  BY SeenStep DEF TimeInv
<1>3. LastSeen'
  <2>1. CASE Replace \/ Start
    <3>1. sq'.last = NoTs
      BY <2>1 DEF Replace, Start, NewSequencer
    <3>2. QED
      BY <3>1 DEF LastSeen
  <2>2. CASE sq'.last # NoTs => sq'.last <= Projected(sq', now)
    BY <2>2, <1>0, <1>1 DEF LastSeen, Projected, Sequencers
  <2>3. QED
    BY <2>1, <2>2, SequencerMoves
<1>4. ReemitsSeen'
  <2>1. cmd.at \in Int
    BY DEF TypeOK, ControlOK, CommandRecords
  <2>2. CASE Replace
    <3>1. cmd'.at = now
      BY <2>2 DEF Replace, TypeOK, ControlOK, CommandRecords
    <3>2. QED
      BY <3>1, <1>1 DEF ReemitsSeen
  <2>3. CASE Reemit \/ (pc' = pc /\ cmd' = cmd)
    <3>1. pc' # "reemit" \/ (pc' = pc /\ cmd' = cmd)
      BY <2>3, Zenon DEF Reemit, Done
    <3>2. QED
      BY <3>1, <2>1, <1>0, <1>1 DEF TimeInv, ReemitsSeen
  <2>4. CASE \/ Shutdown \/ BeginDrain \/ FinishForget \/ FinishStop \/ Reset
             \/ ReplaceFails \/ Stop \/ Crash \/ Start
    <3>1. pc' # "reemit"
      BY <2>4 DEF Shutdown, BeginDrain, FinishForget, FinishStop, Reset, ReplaceFails, Stop,
         Crash, Start, Done
    <3>2. QED
      BY <3>1 DEF ReemitsSeen
  <2>5. QED
    BY <2>2, <2>3, <2>4, ChangesPlace
<1>5. QED
  BY <1>2, <1>3, <1>4 DEF TimeInv

LEMMA TimeInvariant == Spec => []TimeInv
<1>1. Init => TimeInv
  BY DEF Init, TimeInv, SeenInv, LastSeen, ReemitsSeen, NewSequencer
<1>2. QED
  BY <1>1, TimeStep, WriterTypeCorrect, ActionsApart, PTL DEF Spec
-----------------------------------------------------------------------------
(* The boundary is set when the erase completes; *)
BoundarySet ==
    erasedAt # NoTs => erasedAt \in Int /\ boundary \in Int /\ erasedAt <= now

(* and it is not set without one. *)
BoundaryKept == erasedAt = NoTs => boundary = NoTs

(* from then on the timebase is no further ahead than it was, as long as the *)
(* wall clock is not either, *)
GateBelow ==
    erasedAt # NoTs => skew <= Offset(sq) /\ Offset(sq) <= boundary - erasedAt

(* and no further behind, as long as the wall clock is not. *)
GateAbove ==
    erasedAt # NoTs => boundary - erasedAt <= Offset(sq) /\ Offset(sq) <= skew

(* The gate is not asked about actions: none is on its way when the erase    *)
(* completes, for the tray captures none while a privacy command drains.     *)
LateActs ==
    erasedAt # NoTs =>
        \A i \in DOMAIN rx : rx[i].kind = "action" => rx[i].at >= erasedAt

NoneMeanwhile ==
    pc = "replace" =>
        cmd.op \in Privacy /\ \A i \in DOMAIN rx : rx[i].kind # "action"

ReemitsLate == pc = "reemit" /\ erasedAt # NoTs => erasedAt <= cmd.at

LateInv == BoundarySet /\ LateActs /\ NoneMeanwhile /\ ReemitsLate

LEMMA GateOpens ==
    ASSUME TypeOK, Replace
    PROVE  /\ erasedAt' = NoTs \/ (erasedAt' = now /\ boundary' = now + skew)
           /\ Offset(sq') = skew /\ skew' = skew /\ now' = now /\ rx' = rx
           /\ cmd'.at = now
<1>1. now \in Int /\ skew \in Int
  BY DEF TypeOK, ClocksOK
<1>2. sq'.baseI = now /\ sq'.baseU = now + skew
  BY DEF Replace, NewSequencer, Wall
<1>3. Offset(sq') = skew
  BY <1>1, <1>2 DEF Offset
<1>4. skew' = skew /\ now' = now /\ rx' = rx
  BY DEF Replace, clocks
<1>5. cmd'.at = now
  BY DEF Replace, TypeOK, ControlOK, CommandRecords
<1>6. erasedAt' = NoTs \/ (erasedAt' = now /\ boundary' = now + skew)
  BY DEF Replace, Wall
<1>7. QED
  BY <1>3, <1>4, <1>5, <1>6

LEMMA LateStep ==
    ASSUME TypeOK, TypeOK', Apart, InLine, LateInv, [Next]_vars
    PROVE  LateInv'
<1>0. /\ now \in Int /\ now' \in Int /\ skew \in Int /\ cmd.at \in Int
      /\ rx \in Seq(Events \cup Acts) /\ fwd \in Seq(Events)
  BY DEF TypeOK, ClocksOK, ControlOK, CommandRecords, Apart
<1>1. now <= now'
  BY <1>0, ChangesNow DEF Tick
<1>2. BoundarySet'
  BY <1>0, <1>1, GateOpens, ChangesErasure DEF LateInv, BoundarySet
<1>a. ASSUME NEW app \in App \cup {NoApp}, ActionCaptured(app)
      PROVE  \E c : rx' = Append(rx, c) /\ c.at = now /\ worker # 0 /\ pc' = pc
  <2> DEFINE c == [Capture("action", app) EXCEPT !.rec = worker, !.dark = cutoff.rec = worker]
  <2>1. rx' = Append(rx, c) /\ worker # 0 /\ pc' = pc
    BY <1>a DEF ActionCaptured
  <2>2. c.at = now
    BY DEF Capture
  <2>3. QED
    BY <2>1, <2>2
<1>e. \A e \in Events : e.kind # "action"
  BY DEF Events, Captures
<1>3. LateActs'
  <2>1. CASE Replace
    <3>1. pc = "replace" /\ rx' = rx
      BY <2>1, GateOpens DEF Replace
    <3>2. QED
      BY <3>1 DEF LateInv, NoneMeanwhile, LateActs
  <2>2. CASE erasedAt' = NoTs
    BY <2>2 DEF LateActs
  <2>3. ASSUME erasedAt' = erasedAt, erasedAt # NoTs PROVE LateActs'
    <3>0. \A i \in DOMAIN rx : rx[i].kind = "action" => rx[i].at >= erasedAt
      BY <2>3 DEF LateInv, LateActs
    <3>1. CASE Forward
      <4>1. fwd # <<>> /\ rx' = Append(rx, Head(fwd))
        BY <3>1 DEF Forward
      <4>2. Head(fwd).kind # "action"
        BY <4>1, <1>0, <1>e
      <4>3. \A i \in DOMAIN rx' : (i \in DOMAIN rx /\ rx'[i] = rx[i]) \/ rx'[i] = Head(fwd)
        BY <4>1, <1>0
      <4>4. QED
        BY <4>2, <4>3, <3>0, <2>3 DEF LateActs
    <3>2. CASE TakeInput
      <4>1. rx # <<>> /\ rx' = Tail(rx)
        BY <3>2 DEF TakeInput
      <4>2. \A i \in DOMAIN rx' : i + 1 \in DOMAIN rx /\ rx'[i] = rx[i + 1]
        BY <4>1, <1>0
      <4>3. QED
        BY <4>2, <3>0, <2>3 DEF LateActs
    <3>3. CASE Crash \/ Start
      <4>1. rx' = <<>>
        BY <3>3 DEF Crash, Start, FreshMemory
      <4>2. QED
        BY <4>1 DEF LateActs
    <3>4. ASSUME NEW app \in App \cup {NoApp}, ActionCaptured(app) PROVE LateActs'
      <4>1. PICK c : rx' = Append(rx, c) /\ c.at = now
        BY <3>4, <1>a
      <4>2. \A i \in DOMAIN rx' : (i \in DOMAIN rx /\ rx'[i] = rx[i]) \/ rx'[i] = c
        BY <4>1, <1>0
      <4>3. c.at >= erasedAt
        BY <4>1, <2>3, <1>0 DEF LateInv, BoundarySet
      <4>4. QED
        BY <4>2, <4>3, <3>0, <2>3 DEF LateActs
    <3>5. CASE rx' = rx
      BY <3>5, <3>0, <2>3 DEF LateActs
    <3>6. QED
      BY <3>1, <3>2, <3>3, <3>4, <3>5, ChangesInput
  <2>4. QED
    BY <2>1, <2>2, <2>3, ChangesErasure
<1>4. NoneMeanwhile'
  <2>1. CASE Reset
    <3>1. rx' = <<>> /\ cmd.op \in Privacy /\ (cmd' = cmd \/ pc' = "loop")
      BY <2>1 DEF Reset, Drained, Done, Privacy
    <3>2. QED
      BY <3>1 DEF NoneMeanwhile
  <2>2. CASE pc' = pc /\ cmd' = cmd
    <3>1. SUFFICES ASSUME pc = "replace"
                   PROVE  cmd'.op \in Privacy /\ \A i \in DOMAIN rx' : rx'[i].kind # "action"
      BY <2>2 DEF NoneMeanwhile
    <3>2. cmd.op \in Privacy /\ worker = 0 /\ \A i \in DOMAIN rx : rx[i].kind # "action"
      BY <3>1 DEF LateInv, NoneMeanwhile, InLine
    <3>3. CASE Forward
      <4>1. fwd # <<>> /\ rx' = Append(rx, Head(fwd))
        BY <3>3 DEF Forward
      <4>2. Head(fwd).kind # "action"
        BY <4>1, <1>0, <1>e
      <4>3. \A i \in DOMAIN rx' : (i \in DOMAIN rx /\ rx'[i] = rx[i]) \/ rx'[i] = Head(fwd)
        BY <4>1, <1>0
      <4>4. QED
        BY <4>2, <4>3, <3>2, <2>2
    <3>4. ~TakeInput
      BY <3>1 DEF TakeInput
    <3>5. CASE Crash \/ Start
      <4>1. rx' = <<>>
        BY <3>5 DEF Crash, Start, FreshMemory
      <4>2. QED
        BY <4>1, <3>2, <2>2
    <3>6. \A app \in App \cup {NoApp} : ~ActionCaptured(app)
      BY <3>2, <1>a
    <3>7. CASE rx' = rx
      BY <3>7, <3>2, <2>2
    <3>8. QED
      BY <3>3, <3>4, <3>5, <3>6, <3>7, ChangesInput
  <2>3. CASE \/ Shutdown \/ BeginDrain \/ FinishForget \/ FinishStop \/ Replace
             \/ ReplaceFails \/ Stop \/ Crash \/ Start
    <3>1. pc' # "replace"
      BY <2>3 DEF Shutdown, BeginDrain, FinishForget, FinishStop, Replace, ReplaceFails, Stop,
         Crash, Start, Done
    <3>2. QED
      BY <3>1 DEF NoneMeanwhile
  <2>4. CASE Reemit
    <3>1. pc' # "replace"
      BY <2>4, Zenon DEF Reemit, Done
    <3>2. QED
      BY <3>1 DEF NoneMeanwhile
  <2>5. QED
    BY <2>1, <2>2, <2>3, <2>4, ChangesPlace
<1>5. ReemitsLate'
  <2>1. CASE Replace
    BY <2>1, <1>0, GateOpens DEF ReemitsLate
  <2>2. CASE Reemit \/ (pc' = pc /\ cmd' = cmd)
    <3>1. pc' # "reemit" \/ (pc' = pc /\ cmd' = cmd)
      BY <2>2, Zenon DEF Reemit, Done
    <3>2. ~Replace => erasedAt' = NoTs \/ erasedAt' = erasedAt
      BY ChangesErasure
    <3>3. QED
      BY <3>1, <3>2, <2>1 DEF LateInv, ReemitsLate
  <2>3. CASE \/ Shutdown \/ BeginDrain \/ FinishForget \/ FinishStop \/ Reset
             \/ ReplaceFails \/ Stop \/ Crash \/ Start
    <3>1. pc' # "reemit"
      BY <2>3 DEF Shutdown, BeginDrain, FinishForget, FinishStop, Reset, ReplaceFails, Stop,
         Crash, Start, Done
    <3>2. QED
      BY <3>1 DEF ReemitsLate
  <2>4. QED
    BY <2>1, <2>2, <2>3, ChangesPlace
<1>6. QED
  BY <1>2, <1>3, <1>4, <1>5 DEF LateInv

LEMMA LateInvariant == Spec => []LateInv
<1>1. Init => LateInv
  BY DEF Init, LateInv, BoundarySet, LateActs, NoneMeanwhile, ReemitsLate
<1>2. TypeOK /\ TypeOK' /\ Apart /\ InLine /\ LateInv /\ [Next]_vars => LateInv'
  BY LateStep
<1>3. Spec => []InLine
  BY PanicInvariant, PTL DEF PastInv
<1>4. QED
  BY <1>1, <1>2, <1>3, WriterTypeCorrect, ActionsApart, PTL DEF Spec

(* The gate stays where the erase put it, seen from either side. *)
LEMMA GateStep ==
    ASSUME TypeOK, TypeOK', Apart, TimeInv, LateInv, [Next]_vars
    PROVE  /\ GateBelow /\ (erasedAt # NoTs => skew' <= skew) => GateBelow'
           /\ GateAbove /\ (erasedAt # NoTs => skew' >= skew) => GateAbove'
<1>0. /\ sq \in Sequencers /\ sq' \in Sequencers /\ now \in Int
      /\ skew \in Int /\ skew' \in Int
  BY DEF TypeOK, NumbersOK, ClocksOK
<1>1. Offset(sq) \in Int /\ Offset(sq') \in Int
  BY <1>0 DEF Offset, Sequencers
<1>2. CASE Replace
  BY <1>2, <1>0, GateOpens DEF GateBelow, GateAbove
<1>3. CASE erasedAt' = NoTs
  BY <1>3 DEF GateBelow, GateAbove
<1>4. ASSUME ~Start, ~Replace, erasedAt' = erasedAt, boundary' = boundary, erasedAt # NoTs
      PROVE  /\ GateBelow /\ skew' <= skew => GateBelow'
             /\ GateAbove /\ skew' >= skew => GateAbove'
  <2>1. MovedTo(skew, Offset(sq), Offset(sq'))
    BY <1>4, SequencerMoves
  <2>2. boundary - erasedAt \in Int
    BY <1>4 DEF LateInv, BoundarySet
  <2>3. ASSUME skew <= Offset(sq), Offset(sq) <= boundary - erasedAt, skew' <= skew
        PROVE  skew' <= Offset(sq') /\ Offset(sq') <= boundary - erasedAt
    BY <2>1, <2>2, <2>3, <1>0, <1>1 DEF MovedTo
  <2>4. ASSUME boundary - erasedAt <= Offset(sq), Offset(sq) <= skew, skew' >= skew
        PROVE  boundary - erasedAt <= Offset(sq') /\ Offset(sq') <= skew'
    BY <2>1, <2>2, <2>4, <1>0, <1>1 DEF MovedTo
  <2>5. GateBelow /\ skew' <= skew => GateBelow'
    BY <1>4, <2>3 DEF GateBelow
  <2>6. GateAbove /\ skew' >= skew => GateAbove'
    BY <1>4, <2>4 DEF GateAbove
  <2>7. QED
    BY <2>5, <2>6
<1>5. Start => erasedAt' = NoTs
  BY DEF Start, FreshMemory
<1>6. QED
  BY <1>2, <1>3, <1>4, <1>5, ChangesErasure

(* What the gate lets through, and what it keeps out. *)
LEMMA GateSorts ==
    ASSUME TypeOK, LateInv, NEW c \in Captures, erasedAt # NoTs
    PROVE  /\ GateBelow /\ ~Stale(c) => c.at >= erasedAt
           /\ GateAbove /\ Stale(c) => c.at < erasedAt
<1>1. /\ sq.baseU \in Int /\ sq.baseI \in Int /\ c.at \in Int /\ skew \in Int
      /\ erasedAt \in Int /\ boundary \in Int
  BY DEF TypeOK, NumbersOK, ClocksOK, Sequencers, Captures, CaptureFields, LateInv, BoundarySet
<1>2. Projected(sq, c.at) = Offset(sq) + c.at /\ Offset(sq) \in Int
  BY <1>1 DEF Projected, Offset
<1>3. Stale(c) <=> Offset(sq) + c.at < boundary
  BY <1>1, <1>2, NoTsAssumption DEF Stale
<1>4. GateBelow /\ ~Stale(c) => c.at >= erasedAt
  BY <1>1, <1>2, <1>3 DEF GateBelow
<1>5. GateAbove /\ Stale(c) => c.at < erasedAt
  BY <1>1, <1>2, <1>3 DEF GateAbove
<1>6. QED
  BY <1>4, <1>5

(* Only what the gate let through is kept. *)
LEMMA ErasedStep ==
    ASSUME TypeOK, Apart, NumbersInv, LateInv, GateBelow, ErasedStaysErased, [Next]_vars
    PROVE  ErasedStaysErased'
<1>k. ASSUME erasedAt' = erasedAt, Held' \subseteq Held PROVE ErasedStaysErased'
  BY <1>k DEF ErasedStaysErased
<1>o. ASSUME erasedAt' = erasedAt, NEW row, row.cap.at >= erasedAt,
             Held' \subseteq Held \cup {row}
      PROVE  ErasedStaysErased'
  BY <1>o DEF ErasedStaysErased
<1>1. CASE Replace
  <2>1. Held = {}
    BY <1>1 DEF Replace, NumbersInv, RowsGone, Waiting, Held
  <2>2. Held' = Held
    BY <1>1 DEF Replace, pending, Held
  <2>3. QED
    BY <2>1, <2>2 DEF ErasedStaysErased
<1>2. CASE erasedAt' = NoTs
  BY <1>2 DEF ErasedStaysErased
<1>e. ASSUME NEW c \in Captures, QueueCaptured(c), erasedAt # NoTs, erasedAt' = erasedAt
      PROVE  ErasedStaysErased'
  <2>1. CASE DropStale(c)
    <3>1. Held' \subseteq Held
      BY <2>1 DEF DropStale, pending, Held
    <3>2. QED
      BY <3>1, <1>e, <1>k
  <2>2. CASE ~Stale(c)
    <3>1. c.at >= erasedAt
      BY <2>2, <1>e, GateSorts
    <3>2. Scrubbed(c).at = c.at
      BY DEF Scrubbed, Captures, CaptureFields
    <3>3. CapturedRow(c).cap.at >= erasedAt
      BY <3>1, <3>2 DEF CapturedRow, Row
    <3>4. Held' \subseteq Held \/ Held' \subseteq Held \cup {CapturedRow(c)}
      BY <1>e, CapturedHeld DEF pending, Held
    <3>5. QED
      BY <3>3, <3>4, <1>e, <1>k, <1>o
  <2>3. QED
    BY <2>1, <2>2, <1>e DEF QueueCaptured, DropExcluded, StoreCaptured
<1>3. ASSUME ~Replace, erasedAt' = erasedAt, erasedAt # NoTs
      PROVE  ErasedStaysErased'
  <2>1. CASE TakeInput
    <3> DEFINE a == Head(rx)
    <3>1. rx # <<>> /\ Queue(a)
      BY <2>1 DEF TakeInput
    <3>2. a \in Events \cup Acts /\ a = rx[1] /\ 1 \in DOMAIN rx
      BY <3>1 DEF Apart
    <3>3. a \in Captures /\ (a.kind = "action" => a.at >= erasedAt)
      BY <3>2, <1>3 DEF Events, Acts, LateInv, LateActs
    <3> HIDE DEF a
    <3>4. CASE a.kind # "action"
      BY <3>1, <3>3, <3>4, <1>3, <1>e DEF Queue
    <3>5. CASE a.kind = "action"
      <4> DEFINE g == [a EXCEPT !.kind = "gap", !.app = NoApp]
      <4>1. Row(sq, a, FALSE).cap.at = a.at /\ Row(sq, g, FALSE).cap.at = a.at
        BY <3>3 DEF Row, Captures, CaptureFields
      <4>2. \/ UNCHANGED <<rows, batch, actions>>
            \/ batch' = batch
               /\ (PushAction(Row(sq, a, FALSE)) \/ PushAction(Row(sq, g, FALSE)))
        BY <3>1, <3>5, Zenon DEF Queue, DropAction, MarkGap, StoreAction, pending
      <4>3. CASE UNCHANGED <<rows, batch, actions>>
        <5>1. Held' \subseteq Held
          BY <4>3 DEF Held
        <5>2. QED
          BY <5>1, <1>3, <1>k
      <4>4. ASSUME NEW row \in {Row(sq, a, FALSE), Row(sq, g, FALSE)}, batch' = batch,
                   PushAction(row)
            PROVE  ErasedStaysErased'
        <5>1. Held' \subseteq Held \cup {row}
          BY <4>4, RowPushed
        <5>2. row.cap.at >= erasedAt
          BY <4>1, <4>4, <3>3, <3>5
        <5>3. QED
          BY <5>1, <5>2, <1>3, <1>o
      <4>5. QED
        BY <4>2, <4>3, <4>4
    <3>6. QED
      BY <3>4, <3>5
  <2>2. CASE Reemit
    <3>1. \/ UNCHANGED pending /\ rows' = rows
          \/ \E r \in todo : QueueCaptured([Capture("entered", NoApp) EXCEPT
                                               !.reason = r, !.at = cmd.at, !.dark = FALSE])
      BY <2>2, Zenon DEF Reemit
    <3>2. CASE UNCHANGED pending /\ rows' = rows
      <4>1. Held' \subseteq Held
        BY <3>2 DEF pending, Held
      <4>2. QED
        BY <4>1, <1>3, <1>k
    <3>3. ASSUME NEW r \in todo,
                 QueueCaptured([Capture("entered", NoApp) EXCEPT
                                   !.reason = r, !.at = cmd.at, !.dark = FALSE])
          PROVE  ErasedStaysErased'
      BY <3>3, <1>3, <1>e, ReemittedType
    <3>4. QED
      BY <3>1, <3>2, <3>3
  <2>3. CASE Start
    <3>1. erasedAt' = NoTs
      BY <2>3 DEF Start, FreshMemory
    <3>2. QED
      BY <3>1, <1>3
  <2>4. CASE Held' \subseteq Held
    BY <2>4, <1>3, <1>k
  <2>5. QED
    BY <2>1, <2>2, <2>3, <2>4, NothingGained
<1>4. QED
  BY <1>1, <1>2, <1>3, ChangesErasure

(***************************************************************************)
(* What was captured before a secure erase completed is not in the database  *)
(* it left, however late it comes out of the forwarder, whatever the command *)
(* drained and whatever a crash repaired, unless the wall clock is set       *)
(* forward after the erase: then the timebase may follow it and lift an old  *)
(* capture over the boundary.  Setting the clock back does no harm, nor does *)
(* what it did before the erase.                                             *)
(***************************************************************************)
THEOREM EraseLasts ==
    Spec /\ [][erasedAt # NoTs => skew' <= skew]_skew => []ErasedStaysErased
<1>1. Init => GateBelow /\ ErasedStaysErased
  BY DEF Init, GateBelow, ErasedStaysErased
<1>2. /\ TypeOK /\ TypeOK' /\ Apart /\ TimeInv /\ LateInv /\ NumbersInv
      /\ GateBelow /\ ErasedStaysErased
      /\ [Next]_vars /\ [erasedAt # NoTs => skew' <= skew]_skew
      => (GateBelow /\ ErasedStaysErased)'
  <2> SUFFICES ASSUME TypeOK, TypeOK', Apart, TimeInv, LateInv, NumbersInv,
                      GateBelow, ErasedStaysErased,
                      [Next]_vars, [erasedAt # NoTs => skew' <= skew]_skew
               PROVE  GateBelow' /\ ErasedStaysErased'
    OBVIOUS
  <2>1. skew \in Int
    BY DEF TypeOK, ClocksOK
  <2>2. erasedAt # NoTs => skew' <= skew
    BY <2>1
  <2>3. QED
    BY <2>2, GateStep, ErasedStep
<1>3. QED
  BY <1>1, <1>2, WriterTypeCorrect, ActionsApart, TimeInvariant, LateInvariant,
     NumbersInvariant, PTL DEF Spec

(***************************************************************************)
(* The erase gate drops nothing that was captured after the erase, unless    *)
(* the wall clock is set back after it.                                      *)
(***************************************************************************)
THEOREM GateDropsOnlyTheErased ==
    Spec /\ [][erasedAt # NoTs => skew' >= skew]_skew => []NewRowsPassGate
<1>1. Init => GateAbove
  BY DEF Init, GateAbove
<1>2. /\ TypeOK /\ TypeOK' /\ Apart /\ TimeInv /\ LateInv /\ GateAbove
      /\ [Next]_vars /\ [erasedAt # NoTs => skew' >= skew]_skew
      => GateAbove'
  <2> SUFFICES ASSUME TypeOK, TypeOK', Apart, TimeInv, LateInv, GateAbove,
                      [Next]_vars, [erasedAt # NoTs => skew' >= skew]_skew
               PROVE  GateAbove'
    OBVIOUS
  <2>1. skew \in Int
    BY DEF TypeOK, ClocksOK
  <2>2. erasedAt # NoTs => skew' >= skew
    BY <2>1
  <2>3. QED
    BY <2>2, GateStep
<1>3. TypeOK /\ LateInv /\ BoundaryKept /\ GateAbove => NewRowsPassGate
  <2> SUFFICES ASSUME TypeOK, LateInv, BoundaryKept, GateAbove, NEW i \in DOMAIN rx, Stale(rx[i])
               PROVE  rx[i].at < erasedAt
    BY DEF NewRowsPassGate
  <2>1. rx[i] \in Captures
    BY DEF TypeOK, ChannelsOK
  <2>2. erasedAt # NoTs
    BY DEF Stale, BoundaryKept
  <2>3. QED
    BY <2>1, <2>2, GateSorts
<1>4. Init => BoundaryKept
  BY DEF Init, BoundaryKept
<1>5. TypeOK /\ BoundaryKept /\ [Next]_vars => BoundaryKept'
  <2> SUFFICES ASSUME TypeOK, BoundaryKept, [Next]_vars PROVE BoundaryKept'
    OBVIOUS
  <2>1. CASE Replace
    <3>1. now # NoTs
      BY NoTsAssumption DEF TypeOK, ClocksOK
    <3>2. QED
      BY <2>1, <3>1 DEF Replace, BoundaryKept
  <2>2. QED
    BY <2>1, ChangesErasure DEF BoundaryKept
<1>6. QED
  BY <1>1, <1>2, <1>3, <1>4, <1>5, WriterTypeCorrect, ActionsApart, TimeInvariant,
     LateInvariant, PTL DEF Spec
-----------------------------------------------------------------------------
(* The fresh session while it is told the contexts in force: its first row   *)
(* is one of them, and each has been told or is still to be.                 *)
Tells(e, r) == e.cap.kind = "entered" /\ e.cap.reason = r

ReemitInv ==
    pc = "reemit" =>
        /\ sq.session = 1 /\ sessions = 1
        /\ boundary # NoTs => boundary <= Projected(sq, cmd.at)
        /\ \A e \in batch : e.cap.kind = "entered"
        /\ Suppress => /\ todo \subseteq reasons
                       /\ \A r \in reasons \ todo : \E e \in Held : Tells(e, r)

LEMMA ChangesReemit ==
    ASSUME [Next]_vars, pc = "reemit"
    PROVE  \/ Reemit \/ Crash
           \/ UNCHANGED <<pc, cmd, todo, sq, sessions, boundary, pending, rows, policy>>
<1>1. CASE \/ (\E app \in App : FocusTo(app)) \/ FocusClosed \/ PlainCapture \/ CutCapture
               \/ (\E r \in Reason : SensitiveBoundary(r)) \/ ResumeCapture \/ Tick
               \/ WallStep \/ CloseGate \/ OpenGate \/ PanicArm \/ WorkerStarts \/ WorkerStops
  <2>1. UNCHANGED writerVars
    BY <1>1 DEF FocusTo, FocusClosed, PlainCapture, CutCapture, SensitiveBoundary, ResumeCapture,
       Tick, WallStep, CloseGate, OpenGate, PanicArm, WorkerStarts, WorkerStops
  <2>2. QED
    BY <2>1 DEF writerVars, erasure, catalog
<1>2. CASE \/ SendForget \/ RecordCommand \/ PanicStop \/ PrivacyCommand
  <2>1. UNCHANGED restOfWriter
    BY <1>2 DEF SendForget, RecordCommand, PanicStop, PrivacyCommand
  <2>2. QED
    BY <2>1 DEF restOfWriter, erasure, catalog
<1>3. CASE Forward \/ \E app \in App \cup {NoApp} : ActionCaptured(app)
  BY <1>3 DEF Forward, ActionCaptured, erasure, catalog
<1>4. ~(\/ Shutdown \/ TakeInput \/ FlushTick \/ Heartbeat \/ BeatOpenFocus \/ StartRecording
        \/ PauseRecording \/ ResumeRecording \/ RefusePrivacy \/ BeginDrain
        \/ FinishForget \/ FinishStop \/ Reset \/ Replace \/ ReplaceFails \/ Stop \/ Start)
  BY DEF Shutdown, TakeInput, FlushTick, Heartbeat, BeatOpenFocus, StartRecording,
     PauseRecording, ResumeRecording, RefusePrivacy, BeginDrain, FinishForget, FinishStop,
     Reset, Replace, ReplaceFails, Stop, Start, Drained, Next1, Running
<1>5. CASE UNCHANGED vars
  BY <1>5 DEF vars, erasure, catalog
<1>6. QED
  BY <1>1, <1>2, <1>3, <1>4, <1>5, Zenon DEF Next

(* A context that is told is kept. *)
LEMMA ReemittedKept ==
    ASSUME TypeOK, NumbersInv, ReemitInv, pc = "reemit", ~LatchedFocusExcluded(latch),
           "busy" \notin Faults, NEW r \in todo,
           QueueCaptured([Capture("entered", NoApp) EXCEPT
                             !.reason = r, !.at = cmd.at, !.dark = FALSE])
    PROVE  /\ Held \subseteq Held' /\ \E e \in Held' : Tells(e, r)
           /\ \A e \in batch' : e.cap.kind = "entered"
           /\ sq' = Stamped(sq, cmd.at)
           /\ Suppress => reasons' = reasons \cup {r}
<1> DEFINE c == [Capture("entered", NoApp) EXCEPT !.reason = r, !.at = cmd.at, !.dark = FALSE]
           row == CapturedRow(c)
           full == batch \cup {row}
<1>1. c \in Captures /\ QueueCaptured(c)
  BY ReemittedType
<1>2. c.kind = "entered" /\ c.reason = r /\ c.at = cmd.at
  BY DEF Capture
<1> HIDE DEF c
<1>3. ~Stale(c) /\ ~Excludes(c, latch)
  <2>1. ~Excludes(c, latch)
    BY <1>2 DEF Excludes
  <2>2. boundary # NoTs => boundary \in Int /\ boundary <= Projected(sq, c.at)
    BY <1>2 DEF ReemitInv, TypeOK, ErasureOK
  <2>3. Projected(sq, c.at) \in Int
    BY <1>1, TimestampsAreInts DEF TypeOK, NumbersOK, Captures, CaptureFields
  <2>4. QED
    BY <2>1, <2>2, <2>3 DEF Stale
<1>4. StoreCaptured(c)
  BY <1>1, <1>3 DEF QueueCaptured, DropStale, DropExcluded
<1>5. SequencerFor(c) = sq /\ Scrubbed(c) = c
  BY <1>2 DEF SequencerFor, Scrubbed
<1>6. row.cap = c /\ row.sess = sq.session
  BY <1>5 DEF CapturedRow, Row
<1>7. sq' = Stamped(sq, c.at) /\ PushEvent(row) /\ actions' = actions /\ ApplyPolicyState(c)
  BY <1>4, <1>5, Zenon DEF StoreCaptured, CapturedRow
<1>8. Suppress => reasons' = reasons \cup {r}
  BY <1>7, <1>2 DEF ApplyPolicyState, ReasonsAfter
<1>9. \A e \in full : e.cap.kind = "entered" /\ e.sess = 1
  <2>1. \A e \in batch : e.cap.kind = "entered" /\ e.sess = sq.session
    BY DEF ReemitInv, NumbersInv, RowsPlaced, Waiting
  <2>2. QED
    BY <2>1, <1>6, <1>2 DEF ReemitInv
<1> HIDE DEF row
<1>10. full \subseteq rows' \cup batch' /\ batch' \subseteq full /\ rows \subseteq rows'
  <2>1. CommitOf(full, TRUE) = full
    BY <1>9 DEF CommitOf, Insertable, ReemitInv
  <2>2. Outcomes("busy") = {TRUE}
    BY DEF Outcomes
  <2>3. \/ batch' = full /\ rows' = rows
        \/ \E ok \in Outcomes("busy") : rows' = rows \cup CommitOf(full, ok) /\ batch' = {}
    BY <1>7, Zenon DEF PushEvent
  <2>4. QED
    BY <2>1, <2>2, <2>3
<1>11. row \in Held' /\ Held \subseteq Held'
  BY <1>7, <1>10 DEF Held
<1>12. Tells(row, r)
  BY <1>6, <1>2 DEF Tells
<1>13. QED
  BY <1>2, <1>7, <1>8, <1>9, <1>10, <1>11, <1>12

LEMMA ReemitStep ==
    ASSUME TypeOK, TypeOK', NumbersInv, ReemitInv, [Next]_vars, "busy" \notin Faults,
           pc = "reemit" => ~LatchedFocusExcluded(latch)
    PROVE  ReemitInv'
<1>1. CASE Replace
  <2>1. now \in Int /\ skew \in Int
    BY DEF TypeOK, ClocksOK
  <2>2. sq'.session = 1 /\ sessions' = 1
    BY <1>1 DEF Replace, NewSequencer
  <2>3. cmd'.at = now
    BY <1>1, GateOpens
  <2>4. sq'.baseI = now /\ sq'.baseU = Wall /\ Wall \in Int
    BY <1>1, <2>1 DEF Replace, NewSequencer, Wall
  <2>5. Projected(sq', cmd'.at) = Wall
    BY <2>1, <2>3, <2>4 DEF Projected
  <2>6. boundary' # NoTs => boundary' <= Projected(sq', cmd'.at)
    BY <1>1, <2>4, <2>5 DEF Replace
  <2>7. batch' = {}
    BY <1>1 DEF Replace, pending, NumbersInv, RowsGone, Waiting
  <2>8. Suppress => todo' = reasons /\ reasons' = reasons
    BY <1>1 DEF Replace, policy, ToReemit
  <2>9. QED
    BY <2>2, <2>6, <2>7, <2>8 DEF ReemitInv
<1>2. CASE pc = "reemit"
  <2>1. CASE Reemit
    <3>1. CASE todo = {} /\ Done
      BY <3>1 DEF Done, ReemitInv
    <3>2. ASSUME NEW r \in todo, todo' = todo \ {r}, UNCHANGED <<pc, cmd>>,
                 QueueCaptured([Capture("entered", NoApp) EXCEPT
                                   !.reason = r, !.at = cmd.at, !.dark = FALSE])
          PROVE  ReemitInv'
      <4>1. /\ Held \subseteq Held' /\ \E e \in Held' : Tells(e, r)
            /\ \A e \in batch' : e.cap.kind = "entered"
            /\ sq' = Stamped(sq, cmd.at)
            /\ Suppress => reasons' = reasons \cup {r}
        BY <3>2, <1>2, ReemittedKept
      <4>2. sessions' = sessions /\ boundary' = boundary
        BY <2>1 DEF Reemit, catalog, erasure
      <4>3. sq'.session = sq.session /\ Projected(sq', cmd.at) = Projected(sq, cmd.at)
        BY <4>1 DEF Stamped, Projected, TypeOK, NumbersOK, Sequencers
      <4>4. Suppress => /\ todo' \subseteq reasons'
                        /\ \A x \in reasons' \ todo' : \E e \in Held' : Tells(e, x)
        BY <4>1, <3>2, <1>2 DEF ReemitInv
      <4>5. QED
        BY <4>1, <4>2, <4>3, <4>4, <3>2, <1>2 DEF ReemitInv
    <3>3. QED
      BY <2>1, <3>1, <3>2, Zenon DEF Reemit
  <2>2. CASE Crash
    BY <2>2 DEF Crash, ReemitInv
  <2>3. CASE UNCHANGED <<pc, cmd, todo, sq, sessions, boundary, pending, rows, policy>>
    BY <2>3, <1>2 DEF ReemitInv, Held, pending, policy
  <2>4. QED
    BY <2>1, <2>2, <2>3, <1>2, ChangesReemit
<1>3. ASSUME ~Replace, pc # "reemit" PROVE pc' # "reemit"
  <2>1. ~Reemit
    BY <1>3 DEF Reemit
  <2>2. CASE \/ Shutdown \/ BeginDrain \/ FinishForget \/ FinishStop \/ Reset
             \/ ReplaceFails \/ Stop \/ Crash \/ Start
    BY <2>2, <1>3 DEF Shutdown, BeginDrain, FinishForget, FinishStop, Reset, ReplaceFails, Stop,
       Crash, Start, Done
  <2>3. QED
    BY <2>1, <2>2, <1>3, ChangesPlace
<1>4. QED
  BY <1>1, <1>2, <1>3 DEF ReemitInv

(***************************************************************************)
(* The replacement session says which protected contexts are in force before *)
(* it takes its first capture, whether an erase or an archive/reset made it, *)
(* if the window in focus is not an excluded one, nor unknown where some are *)
(* (the exclusion boundary drops the row then), and no commit fails.         *)
(***************************************************************************)
THEOREM ContextsTold ==
    ASSUME "busy" \notin Faults
    PROVE  Spec /\ [](pc = "reemit" => ~LatchedFocusExcluded(latch)) => []ContextsReemitted
<1>1. Init => ReemitInv
  BY DEF Init, ReemitInv
<1>2. /\ TypeOK /\ TypeOK' /\ NumbersInv /\ ReemitInv /\ [Next]_vars
      /\ (pc = "reemit" => ~LatchedFocusExcluded(latch))
      => ReemitInv'
  BY ReemitStep
<1>3. ReemitInv => ContextsReemitted
  BY DEF ReemitInv, ContextsReemitted, Tells
<1>4. QED
  BY <1>1, <1>2, <1>3, WriterTypeCorrect, NumbersInvariant, PTL DEF Spec

LEMMA ChangesLatch ==
    ASSUME [Next]_vars
    PROVE  latch' = latch \/ latch' = "unknown" \/ \E c : latch' = LatchAfter(c, latch)
<1>p. ASSUME UNCHANGED policy PROVE latch' = latch
  BY <1>p DEF policy
<1>q. ASSUME NEW c, QueueCaptured(c) PROVE latch' = latch \/ latch' = LatchAfter(c, latch)
  BY <1>q, <1>p DEF QueueCaptured, DropStale, DropExcluded, StoreCaptured, ApplyPolicyState
<1>1. CASE \/ (\E app \in App : FocusTo(app)) \/ FocusClosed \/ PlainCapture \/ CutCapture
               \/ (\E r \in Reason : SensitiveBoundary(r)) \/ ResumeCapture \/ Tick
               \/ WallStep \/ CloseGate \/ OpenGate \/ PanicArm \/ WorkerStarts \/ WorkerStops
  BY <1>1, <1>p DEF FocusTo, FocusClosed, PlainCapture, CutCapture, SensitiveBoundary,
     ResumeCapture, Tick, WallStep, CloseGate, OpenGate, PanicArm, WorkerStarts, WorkerStops,
     writerVars
<1>2. CASE \/ SendForget \/ RecordCommand \/ PanicStop \/ PrivacyCommand
  BY <1>2, <1>p DEF SendForget, RecordCommand, PanicStop, PrivacyCommand, restOfWriter
<1>3. CASE \/ Forward \/ (\E app \in App \cup {NoApp} : ActionCaptured(app)) \/ Shutdown
               \/ FlushTick \/ Heartbeat \/ BeatOpenFocus \/ StartRecording \/ PauseRecording
               \/ ResumeRecording \/ RefusePrivacy \/ BeginDrain \/ FinishStop \/ Reset
               \/ Replace \/ ReplaceFails \/ Stop
  BY <1>3, <1>p DEF Forward, ActionCaptured, Shutdown, FlushTick, Heartbeat, BeatOpenFocus,
     StartRecording, PauseRecording, ResumeRecording, RefusePrivacy, BeginDrain, FinishStop,
     Reset, Replace, ReplaceFails, Stop
<1>4. CASE FinishForget \/ Crash \/ Start
  BY <1>4 DEF FinishForget, Crash, Start, FreshMemory
<1>5. CASE TakeInput
  <2>1. QueueCaptured(Head(rx)) \/ UNCHANGED policy
    BY <1>5, Zenon DEF TakeInput, Queue, DropAction, MarkGap, StoreAction
  <2>2. QED
    BY <2>1, <1>p, <1>q
<1>6. CASE Reemit
  <2>1. UNCHANGED policy \/ \E c : QueueCaptured(c)
    BY <1>6, Zenon DEF Reemit
  <2>2. QED
    BY <2>1, <1>p, <1>q
<1>7. CASE UNCHANGED vars
  BY <1>7, <1>p DEF vars
<1>8. QED
  BY <1>1, <1>2, <1>3, <1>4, <1>5, <1>6, <1>7, Zenon DEF Next

(* Where nothing is excluded the window in focus never is. *)
FocusAllowed == latch # "excluded"

LEMMA NothingExcludedLatch ==
    ASSUME Excluded = {}
    PROVE  Spec => [](pc = "reemit" => ~LatchedFocusExcluded(latch))
<1>1. Init => FocusAllowed
  BY DEF Init, FocusAllowed
<1>2. FocusAllowed /\ [Next]_vars => FocusAllowed'
  <2> SUFFICES ASSUME FocusAllowed, [Next]_vars PROVE FocusAllowed'
    OBVIOUS
  <2>1. latch' = latch \/ latch' = "unknown" \/ \E c : latch' = LatchAfter(c, latch)
    BY ChangesLatch
  <2>2. QED
    BY <2>1 DEF LatchAfter, FocusAllowed
<1>3. FocusAllowed => (pc = "reemit" => ~LatchedFocusExcluded(latch))
  BY DEF LatchedFocusExcluded, FocusAllowed
<1>4. QED
  BY <1>1, <1>2, <1>3, PTL DEF Spec

(***************************************************************************)
(* Where nothing is excluded and no commit fails, it does so always.         *)
(***************************************************************************)
THEOREM ContextsToldWithoutExclusions ==
    ASSUME "busy" \notin Faults, Excluded = {}
    PROVE  Spec => []ContextsReemitted
BY ContextsTold, NothingExcludedLatch, PTL
=============================================================================
