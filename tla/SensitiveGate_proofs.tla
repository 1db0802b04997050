-------------------------- MODULE SensitiveGate_proofs --------------------------
(***************************************************************************)
(* Rows of a protected context are redacted (ProtectedRowsSuppressed) and   *)
(* the policy agrees with the contexts in force when capture is open        *)
(* (PolicyAgrees): for any contexts, transitions, suspensions, resumes,     *)
(* capacity of the channel and faults.                                     *)
(***************************************************************************)
EXTENDS SensitiveGate, Channel, SequenceTheorems, FiniteSetTheorems, TLAPS

-----------------------------------------------------------------------------
(* What is on in a channel that is appended to, taken from or joined.        *)

(* What is on is on or off. *)
LEMMA LitIsBoolean ==
    ASSUME NEW s, NEW i, NEW before, NEW On, NEW Off
    PROVE  Lit(s, i, before, On, Off) \in BOOLEAN
BY DEF Lit

(* With more on before, no less is on. *)
LEMMA LitMore ==
    ASSUME NEW s, NEW i, NEW before \in BOOLEAN, NEW later \in BOOLEAN, NEW On, NEW Off,
           before => later, Lit(s, i, before, On, Off)
    PROVE  Lit(s, i, later, On, Off)
BY DEF Lit

(* A message that joins a channel changes nothing for those ahead of it. *)
LEMMA LitAppended ==
    ASSUME NEW C, NEW s \in Seq(C), NEW c \in C,
           NEW before \in BOOLEAN, NEW On, NEW Off
    PROVE  /\ \A i \in 1 .. Len(s) + 1 :
                 Lit(s, i, before, On, Off) => Lit(Append(s, c), i, before, On, Off)
           /\ c \in On \/ (LitAfter(s, before, On, Off) /\ c \notin Off)
                 => LitAfter(Append(s, c), before, On, Off)
<1> DEFINE t == Append(s, c)
<1>1. /\ Len(s) \in Nat /\ Len(t) = Len(s) + 1 /\ t[Len(s) + 1] = c
      /\ \A k \in 1 .. Len(s) : t[k] = s[k]
  OBVIOUS
<1> HIDE DEF t
<1>2. \A i \in 1 .. Len(s) + 1 : Lit(s, i, before, On, Off) => Lit(t, i, before, On, Off)
  BY <1>1 DEF Lit
<1>3. ASSUME c \in On PROVE LitAfter(t, before, On, Off)
  <2>1. Len(s) + 1 \in 1 .. Len(t) /\ t[Len(s) + 1] \in On
    BY <1>1, <1>3
  <2>2. \A k \in 1 .. Len(t) : ~(Len(s) + 1 < k /\ k < Len(t) + 1)
    BY <1>1
  <2>3. Len(s) + 1 < Len(t) + 1
    BY <1>1
  <2>4. QED
    BY <2>1, <2>2, <2>3 DEF LitAfter, Lit
<1>4. ASSUME LitAfter(s, before, On, Off), c \notin Off PROVE LitAfter(t, before, On, Off)
  <2>1. CASE before /\ \A k \in 1 .. Len(s) : k < Len(s) + 1 => s[k] \notin Off
    <3>1. \A k \in 1 .. Len(t) : t[k] \notin Off
      BY <2>1, <1>1, <1>4
    <3>2. QED
      BY <2>1, <3>1 DEF LitAfter, Lit
  <2>2. ASSUME NEW j \in 1 .. Len(s), s[j] \in On,
               \A k \in 1 .. Len(s) : j < k /\ k < Len(s) + 1 => s[k] \notin Off
        PROVE  LitAfter(t, before, On, Off)
    <3>1. j \in 1 .. Len(t) /\ j < Len(t) + 1 /\ t[j] \in On
      BY <2>2, <1>1
    <3>2. \A k \in 1 .. Len(t) : j < k => t[k] \notin Off
      BY <2>2, <1>1, <1>4
    <3>3. QED
      BY <3>1, <3>2 DEF LitAfter, Lit
  <2>3. QED
    BY <2>1, <2>2, <1>4 DEF LitAfter, Lit
<1>5. QED
  BY <1>2, <1>3, <1>4 DEF t

(* What the first one of a channel leaves on is on for those that follow. *)
LEMMA LitTaken ==
    ASSUME NEW C, NEW s \in Seq(C), s # <<>>, NEW before \in BOOLEAN, NEW then \in BOOLEAN,
           NEW On, NEW Off, Head(s) \in On \/ (before /\ Head(s) \notin Off) => then
    PROVE  /\ Lit(s, 1, before, On, Off) => before
           /\ \A i \in 1 .. Len(s) :
                 Lit(s, i + 1, before, On, Off) => Lit(Tail(s), i, then, On, Off)
           /\ LitAfter(s, before, On, Off) => LitAfter(Tail(s), then, On, Off)
<1> DEFINE t == Tail(s)
<1>1. /\ Len(s) \in Nat /\ Len(s) > 0 /\ Head(s) = s[1] /\ Len(t) = Len(s) - 1
      /\ \A k \in 1 .. Len(t) : t[k] = s[k + 1]
  OBVIOUS
<1> HIDE DEF t
<1>2. Lit(s, 1, before, On, Off) => before
  BY <1>1 DEF Lit
<1>3. ASSUME NEW i \in 1 .. Len(s), Lit(s, i + 1, before, On, Off)
      PROVE  Lit(t, i, then, On, Off)
  <2>1. CASE before /\ \A k \in 1 .. Len(s) : k < i + 1 => s[k] \notin Off
    <3>1. s[1] \notin Off
      BY <2>1, <1>1
    <3>2. \A k \in 1 .. Len(t) : k < i => t[k] \notin Off
      BY <2>1, <1>1
    <3>3. QED
      BY <2>1, <3>1, <3>2, <1>1 DEF Lit
  <2>2. ASSUME NEW j \in 1 .. Len(s), j < i + 1, s[j] \in On,
               \A k \in 1 .. Len(s) : j < k /\ k < i + 1 => s[k] \notin Off
        PROVE  Lit(t, i, then, On, Off)
    <3>1. \A k \in 1 .. Len(t) : j - 1 < k /\ k < i => t[k] \notin Off
      BY <2>2, <1>1
    <3>2. CASE j = 1
      <4>1. then
        BY <3>2, <2>2, <1>1
      <4>2. \A k \in 1 .. Len(t) : k < i => t[k] \notin Off
        BY <3>1, <3>2
      <4>3. QED
        BY <4>1, <4>2 DEF Lit
    <3>3. CASE j # 1
      <4>1. j - 1 \in 1 .. Len(t) /\ j - 1 < i /\ t[j - 1] = s[j]
        BY <3>3, <2>2, <1>1
      <4>2. QED
        BY <4>1, <3>1, <2>2 DEF Lit
    <3>4. QED
      BY <3>2, <3>3
  <2>3. QED
    BY <2>1, <2>2, <1>3 DEF Lit
<1>4. LitAfter(s, before, On, Off) => LitAfter(t, then, On, Off)
  <2>1. Len(s) \in 1 .. Len(s) /\ Len(t) + 1 = Len(s)
    BY <1>1
  <2>2. QED
    BY <2>1, <1>3 DEF LitAfter
<1>5. QED
  BY <1>2, <1>3, <1>4 DEF t

(* Messages that turn nothing off leave on what is on; the last to turn it   *)
(* on leaves it on.                                                        *)
LEMMA LitJoined ==
    ASSUME NEW C, NEW s \in Seq(C), NEW t \in Seq(C), NEW before \in BOOLEAN,
           NEW On, NEW Off
    PROVE  /\ \A i \in 1 .. Len(s) :
                 Lit(s, i, before, On, Off) => Lit(s \o t, i, before, On, Off)
           /\ LitAfter(s, before, On, Off) /\ (\A k \in 1 .. Len(t) : t[k] \notin Off)
                 => \A i \in 1 .. Len(t) + 1 : Lit(s \o t, Len(s) + i, before, On, Off)
           /\ (\E j \in 1 .. Len(t) : t[j] \in On) /\ (\A k \in 1 .. Len(t) : t[k] \notin Off)
                 => LitAfter(s \o t, before, On, Off)
<1> DEFINE u == s \o t
<1>1. /\ Len(s) \in Nat /\ Len(t) \in Nat /\ Len(u) = Len(s) + Len(t)
      /\ \A k \in 1 .. Len(s) : u[k] = s[k]
      /\ \A k \in 1 .. Len(t) : u[Len(s) + k] = t[k]
  BY ConcatProperties
<1>2. \A k \in 1 .. Len(u) : k > Len(s) => k - Len(s) \in 1 .. Len(t) /\ u[k] = t[k - Len(s)]
  BY <1>1
<1> HIDE DEF u
<1>0. \A k \in 1 .. Len(u) : k \in 1 .. Len(s) \/ k > Len(s)
  BY <1>1
<1>3. ASSUME NEW i \in 1 .. Len(s), Lit(s, i, before, On, Off)
      PROVE  Lit(u, i, before, On, Off)
  <2>1. \A k \in 1 .. Len(u) : k < i => k \in 1 .. Len(s) /\ u[k] = s[k]
    BY <1>1
  <2>2. CASE before /\ \A k \in 1 .. Len(s) : k < i => s[k] \notin Off
    BY <2>1, <2>2 DEF Lit
  <2>3. ASSUME NEW j \in 1 .. Len(s), j < i, s[j] \in On,
               \A k \in 1 .. Len(s) : j < k /\ k < i => s[k] \notin Off
        PROVE  Lit(u, i, before, On, Off)
    <3>1. j \in 1 .. Len(u) /\ u[j] \in On
      BY <2>3, <1>1
    <3>2. QED
      BY <2>1, <2>3, <3>1 DEF Lit
  <2>4. QED
    BY <2>2, <2>3, <1>3 DEF Lit
<1>4. ASSUME LitAfter(s, before, On, Off), \A k \in 1 .. Len(t) : t[k] \notin Off,
             NEW i \in 1 .. Len(t) + 1
      PROVE  Lit(u, Len(s) + i, before, On, Off)
  <2>1. \A k \in 1 .. Len(u) : k > Len(s) => u[k] \notin Off
    BY <1>2, <1>4
  <2>2. CASE before /\ \A k \in 1 .. Len(s) : k < Len(s) + 1 => s[k] \notin Off
    <3>1. \A k \in 1 .. Len(u) : u[k] \notin Off
      <4>1. \A k \in 1 .. Len(s) : u[k] \notin Off
        BY <2>2, <1>1
      <4>2. QED
        BY <4>1, <2>1, <1>0
    <3>2. QED
      BY <2>2, <3>1 DEF Lit
  <2>3. ASSUME NEW j \in 1 .. Len(s), s[j] \in On,
               \A k \in 1 .. Len(s) : j < k /\ k < Len(s) + 1 => s[k] \notin Off
        PROVE  Lit(u, Len(s) + i, before, On, Off)
    <3>1. j \in 1 .. Len(u) /\ j < Len(s) + i /\ u[j] \in On
      BY <2>3, <1>1
    <3>2. \A k \in 1 .. Len(u) : j < k => u[k] \notin Off
      BY <2>3, <2>1, <1>1
    <3>3. QED
      BY <3>1, <3>2 DEF Lit
  <2>4. QED
    BY <2>2, <2>3, <1>4 DEF LitAfter, Lit
<1>5. ASSUME NEW j \in 1 .. Len(t), t[j] \in On, \A k \in 1 .. Len(t) : t[k] \notin Off
      PROVE  LitAfter(u, before, On, Off)
  <2>1. Len(s) + j \in 1 .. Len(u) /\ Len(s) + j < Len(u) + 1 /\ u[Len(s) + j] \in On
    BY <1>1, <1>5
  <2>2. \A k \in 1 .. Len(u) : Len(s) + j < k => u[k] \notin Off
    <3> SUFFICES ASSUME NEW k \in 1 .. Len(u), Len(s) + j < k PROVE u[k] \notin Off
      OBVIOUS
    <3>1. k - Len(s) \in 1 .. Len(t) /\ u[k] = t[k - Len(s)]
      BY <1>1, <1>2
    <3>2. QED
      BY <3>1, <1>5
  <2>3. QED
    BY <2>1, <2>2 DEF LitAfter, Lit
<1>6. QED
  BY <1>3, <1>4, <1>5 DEF u

(* Emptying a channel that was filled in two parts is emptying the one and   *)
(* then the other.                                                         *)
LEMMA LitSplit ==
    ASSUME NEW C, NEW s \in Seq(C), NEW t \in Seq(C), NEW before \in BOOLEAN, NEW On, NEW Off
    PROVE  LitAfter(s \o t, before, On, Off) <=> LitAfter(t, LitAfter(s, before, On, Off), On, Off)
<1> DEFINE u == s \o t
           on == LitAfter(s, before, On, Off)
<1>1. /\ Len(s) \in Nat /\ Len(t) \in Nat /\ Len(u) = Len(s) + Len(t)
      /\ \A k \in 1 .. Len(s) : u[k] = s[k]
      /\ \A k \in 1 .. Len(t) : u[Len(s) + k] = t[k]
  BY ConcatProperties
<1>2. \A k \in 1 .. Len(u) : k > Len(s) => k - Len(s) \in 1 .. Len(t) /\ u[k] = t[k - Len(s)]
  BY <1>1
<1>3. on <=> \/ before /\ \A k \in 1 .. Len(s) : s[k] \notin Off
             \/ \E j \in 1 .. Len(s) :
                   s[j] \in On /\ \A k \in 1 .. Len(s) : j < k => s[k] \notin Off
  BY <1>1 DEF LitAfter, Lit
<1>4. LitAfter(t, on, On, Off)
         <=> \/ on /\ \A k \in 1 .. Len(t) : t[k] \notin Off
             \/ \E j \in 1 .. Len(t) :
                   t[j] \in On /\ \A k \in 1 .. Len(t) : j < k => t[k] \notin Off
  <2> HIDE DEF on
  <2>1. QED
    BY <1>1 DEF LitAfter, Lit
<1>5. LitAfter(u, before, On, Off)
         <=> \/ before /\ \A k \in 1 .. Len(u) : u[k] \notin Off
             \/ \E j \in 1 .. Len(u) :
                   u[j] \in On /\ \A k \in 1 .. Len(u) : j < k => u[k] \notin Off
  <2> HIDE DEF u
  <2>1. QED
    BY <1>1 DEF LitAfter, Lit
<1> HIDE DEF u, on
<1>6. (\A k \in 1 .. Len(u) : u[k] \notin Off)
         <=> (\A k \in 1 .. Len(s) : s[k] \notin Off) /\ (\A k \in 1 .. Len(t) : t[k] \notin Off)
  <2>1. ASSUME \A k \in 1 .. Len(u) : u[k] \notin Off, NEW k \in 1 .. Len(t)
        PROVE  t[k] \notin Off
    <3>1. Len(s) + k \in 1 .. Len(u)
      BY <1>1
    <3>2. QED
      BY <2>1, <3>1, <1>1
  <2>2. ASSUME \A k \in 1 .. Len(u) : u[k] \notin Off, NEW k \in 1 .. Len(s)
        PROVE  s[k] \notin Off
    BY <2>2, <1>1
  <2>3. ASSUME \A k \in 1 .. Len(s) : s[k] \notin Off, \A k \in 1 .. Len(t) : t[k] \notin Off,
               NEW k \in 1 .. Len(u)
        PROVE  u[k] \notin Off
    <3>1. CASE k > Len(s)
      BY <3>1, <2>3, <1>2
    <3>2. CASE ~(k > Len(s))
      <4>1. k \in 1 .. Len(s)
        BY <3>2, <1>1
      <4>2. QED
        BY <4>1, <2>3, <1>1
    <3>3. QED
      BY <3>1, <3>2
  <2>4. QED
    BY <2>1, <2>2, <2>3
<1>7. ASSUME NEW j \in 1 .. Len(s)
      PROVE  (u[j] \in On /\ \A k \in 1 .. Len(u) : j < k => u[k] \notin Off)
                <=> /\ s[j] \in On /\ \A k \in 1 .. Len(s) : j < k => s[k] \notin Off
                    /\ \A k \in 1 .. Len(t) : t[k] \notin Off
  <2>1. ASSUME \A k \in 1 .. Len(u) : j < k => u[k] \notin Off, NEW k \in 1 .. Len(t)
        PROVE  t[k] \notin Off
    <3>1. Len(s) + k \in 1 .. Len(u) /\ j < Len(s) + k
      BY <1>1
    <3>2. QED
      BY <2>1, <3>1, <1>1
  <2>2. ASSUME \A k \in 1 .. Len(u) : j < k => u[k] \notin Off, NEW k \in 1 .. Len(s), j < k
        PROVE  s[k] \notin Off
    BY <2>2, <1>1
  <2>3. ASSUME \A k \in 1 .. Len(s) : j < k => s[k] \notin Off,
               \A k \in 1 .. Len(t) : t[k] \notin Off, NEW k \in 1 .. Len(u), j < k
        PROVE  u[k] \notin Off
    BY <2>3, <1>1, <1>2, SMTT(20)
  <2>4. u[j] = s[j]
    BY <1>1
  <2>5. QED
    BY <2>1, <2>2, <2>3, <2>4
<1>8. ASSUME NEW j \in 1 .. Len(t)
      PROVE  (u[Len(s) + j] \in On /\ \A k \in 1 .. Len(u) : Len(s) + j < k => u[k] \notin Off)
                <=> t[j] \in On /\ \A k \in 1 .. Len(t) : j < k => t[k] \notin Off
  <2>1. ASSUME \A k \in 1 .. Len(u) : Len(s) + j < k => u[k] \notin Off,
               NEW k \in 1 .. Len(t), j < k
        PROVE  t[k] \notin Off
    <3>1. Len(s) + k \in 1 .. Len(u) /\ Len(s) + j < Len(s) + k
      BY <1>1, <2>1
    <3>2. QED
      BY <2>1, <3>1, <1>1
  <2>2. ASSUME \A k \in 1 .. Len(t) : j < k => t[k] \notin Off,
               NEW k \in 1 .. Len(u), Len(s) + j < k
        PROVE  u[k] \notin Off
    <3>1. k - Len(s) \in 1 .. Len(t) /\ j < k - Len(s) /\ u[k] = t[k - Len(s)]
      BY <2>2, <1>1, <1>2
    <3>2. QED
      BY <2>2, <3>1
  <2>3. u[Len(s) + j] = t[j]
    BY <1>1
  <2>4. QED
    BY <2>1, <2>2, <2>3
<1>9. ASSUME LitAfter(u, before, On, Off) PROVE LitAfter(t, on, On, Off)
  <2>1. CASE before /\ \A k \in 1 .. Len(u) : u[k] \notin Off
    BY <2>1, <1>3, <1>4, <1>6
  <2>2. ASSUME NEW j \in 1 .. Len(u), u[j] \in On, \A k \in 1 .. Len(u) : j < k => u[k] \notin Off
        PROVE  LitAfter(t, on, On, Off)
    <3>1. CASE j \in 1 .. Len(s)
      BY <3>1, <2>2, <1>3, <1>4, <1>7
    <3>2. CASE j \notin 1 .. Len(s)
      <4>1. PICK i \in 1 .. Len(t) : j = Len(s) + i
        <5>1. j - Len(s) \in 1 .. Len(t) /\ Len(s) + (j - Len(s)) = j
          BY <3>2, <1>1
        <5>2. QED
          BY <5>1
      <4>2. t[i] \in On /\ \A k \in 1 .. Len(t) : i < k => t[k] \notin Off
        BY <4>1, <2>2, <1>8
      <4>3. QED
        BY <4>2, <1>4
    <3>3. QED
      BY <3>1, <3>2
  <2>3. QED
    BY <2>1, <2>2, <1>5, <1>9
<1>10. ASSUME LitAfter(t, on, On, Off) PROVE LitAfter(u, before, On, Off)
  <2>1. CASE on /\ \A k \in 1 .. Len(t) : t[k] \notin Off
    <3>1. CASE before /\ \A k \in 1 .. Len(s) : s[k] \notin Off
      BY <3>1, <2>1, <1>5, <1>6
    <3>2. ASSUME NEW j \in 1 .. Len(s), s[j] \in On,
                 \A k \in 1 .. Len(s) : j < k => s[k] \notin Off
          PROVE  LitAfter(u, before, On, Off)
      <4>1. j \in 1 .. Len(u)
        BY <1>1
      <4>2. QED
        BY <4>1, <3>2, <2>1, <1>5, <1>7
    <3>3. QED
      BY <3>1, <3>2, <2>1, <1>3
  <2>2. ASSUME NEW j \in 1 .. Len(t), t[j] \in On, \A k \in 1 .. Len(t) : j < k => t[k] \notin Off
        PROVE  LitAfter(u, before, On, Off)
    <3>1. Len(s) + j \in 1 .. Len(u)
      BY <1>1
    <3>2. QED
      BY <3>1, <2>2, <1>5, <1>8
  <2>3. QED
    BY <2>1, <2>2, <1>4, <1>10
<1>11. QED
  BY <1>9, <1>10 DEF u, on

-----------------------------------------------------------------------------

Kinds == {"entered", "exited"}
Other(v) == IF v = "entered" THEN "exited" ELSE "entered"
Mark(v, r) == [kind |-> v, reason |-> r]

Moving(thread) == thread.pc \in {"defer", "send"}

-----------------------------------------------------------------------------
(* What is on the way to the policy.                                        *)

(* Once policy P has taken what is in channel c, it has r as v says ... *)
Said(c, P, v, r) ==
    LitAfter(c, (v = "entered") <=> (r \in P), {Mark(v, r)}, {Mark(Other(v), r)})

(* ... and then what is in s after it. *)
ToldBy(c, P, s, v, r) == LitAfter(s, Said(c, P, v, r), {Mark(v, r)}, {Mark(Other(v), r)})

(* It has the contexts K and no other. *)
Agrees(c, P, s, K) ==
    \A r \in Reasons : \A v \in Kinds : ((v = "entered") <=> (r \in K)) => ToldBy(c, P, s, v, r)

(* The contexts in force, but for a change that has not been put to send. *)
Known ==
    {r \in Reasons : (r \in InForce) <=> ~((Moving(pump) /\ pump.row.reason = r)
                                            \/ (Moving(monitor) /\ r = Password))}

(* The resume has an answer that no transition has overtaken. *)
Answered ==
    \/ worker.pc \in {"lift", "open"}
    \/ worker.pc \in {"drain", "verify"} /\ worker.generation = generation

(* Capture is open, or about to be, with nothing to reconcile first. *)
Trusted == (suspended = "none" /\ ~restored) \/ Answered

(* The pump reconciles for a resume, and no transition has begun since. *)
Asked == pump.pc = "reconcile" /\ pump.asked
Answering == Asked /\ pump.generation = generation

PolicyFollows ==
    /\ Trusted => /\ Agrees(chan, policy, queue, Known)
                  /\ ~unreconciled /\ pump.pc # "reconcile"
    /\ Answering => Agrees(chan, policy, pump.rows, Known) /\ ~unreconciled

-----------------------------------------------------------------------------
(* Who may be where.                                                        *)

(* The guard is held while contexts change, by a resume that was asked for,  *)
(* and when it opens the gate.                                             *)
Guarded ==
    /\ Moving(pump) \/ Asked => guard = "pump"
    /\ Moving(monitor) => guard = "monitor"
    /\ worker.pc \in {"lift", "open"} => guard = "worker"

(* A resume goes on in a pause, with an answer only when no request is left. *)
Resuming ==
    /\ worker.pc = "idle" => ~barrier
    /\ worker.pc \in {"request", "wait", "drain", "verify", "lift"} => suspended = "pause"
    /\ worker.pc \in {"drain", "verify", "lift", "open"} => requests = 0
    /\ worker.pc \in {"drain", "verify"} => worker.generation <= generation
    /\ requests > 0 => suspended = "pause"
    /\ Asked => requests > 0 /\ pump.generation <= generation

(* No transition is under way behind an answer; one that follows it waits. *)
Quiet ==
    /\ Answered => queue = <<>> /\ pump.pc \in {"idle", "lock"} /\ monitor.pc \in {"idle", "lock"}
    /\ worker.pc \in {"drain", "verify"} /\ worker.generation = generation
          => pump.pc = "idle" /\ monitor.pc = "idle"
    /\ Answering => queue = <<>> /\ monitor.pc = "idle"

(* A boundary of the pump says what it changes, of a context of its own. *)
OwnBoundary(b) == b \in Boundary /\ b.reason \in Contexts
Boundaries ==
    /\ \A k \in 1 .. Len(queue) : OwnBoundary(queue[k])
    /\ pump.pc \in {"lock", "defer", "send"} => OwnBoundary(pump.row)
    /\ pump.pc = "lock" => (pump.row.kind = "entered" <=> pump.row.reason \notin active)
    /\ Moving(pump) => (pump.row.kind = "entered" <=> pump.row.reason \in active)

-----------------------------------------------------------------------------
(* Rows of protected contexts.                                              *)

(* A row in hand is of contexts in force; one that no recording reopened     *)
(* capture for is out of a capture that stayed open.                       *)
HandsCurrent ==
    \A p \in Producers :
       /\ hand[p].hot \subseteq InForce
       /\ hand[p].hot # {} /\ ~hand[p].restored => suspended = "none" /\ ~restored

(* Its contexts have been told, and what waits does not take them back. *)
HandsFollow ==
    \A p \in Producers : ~hand[p].restored =>
       \A r \in hand[p].hot :
          /\ Said(chan, policy, "entered", r)
          /\ \A k \in 1 .. Len(queue) : queue[k] # Exited(r)

RowsFollow ==
    \A i \in 1 .. Len(chan) :
       chan[i].kind = "row" /\ ~chan[i].restored =>
          \A r \in chan[i].hot :
             Lit(chan, i, r \in policy, {Entered(r)}, {Exited(r)})

WithinCapacity == Len(chan) <= ChannelBound

GateInv ==
    /\ WithinCapacity /\ Guarded /\ Resuming /\ Quiet /\ Boundaries
    /\ PolicyFollows /\ HandsCurrent /\ HandsFollow /\ RowsFollow

-----------------------------------------------------------------------------
(* SetToSeq lists every element of a finite set. *)
LEMMA Listed ==
    ASSUME NEW S, IsFiniteSet(S)
    PROVE  /\ SetToSeq(S) \in Seq(S) /\ DOMAIN SetToSeq(S) = 1 .. Len(SetToSeq(S))
           /\ \A x \in S : \E i \in 1 .. Len(SetToSeq(S)) : SetToSeq(S)[i] = x
<1> DEFINE n == Cardinality(S)
           q == SetToSeq(S)
<1>1. n \in Nat /\ ExistsBijection(1 .. n, S)
  BY FS_CardinalityType
<1>2. \E f \in [1 .. n -> S] : IsInjective(f)
  BY <1>1 DEF ExistsBijection, Bijection, Injection
<1>3. q \in [1 .. n -> S] /\ IsInjective(q)
  BY <1>2 DEF SetToSeq
<1> HIDE DEF q
<1>4. q \in Injection(1 .. n, S)
  BY <1>3 DEF Injection
<1>5. Cardinality(1 .. n) = n
  BY <1>1, FS_Interval
<1>6. q \in Surjection(1 .. n, S)
  BY <1>4, <1>5, FS_Injection
<1>7. \A x \in S : \E i \in 1 .. n : q[i] = x
  BY <1>6 DEF Surjection
<1>8. q \in Seq(S) /\ Len(q) = n /\ DOMAIN q = 1 .. n
  BY <1>1, <1>3
<1>9. QED
  BY <1>7, <1>8 DEF q

LEMMA FiniteReasons == IsFiniteSet(Reasons)
BY GateConstants, FS_AddElement DEF Reasons

(* Boundaries of different kinds or reasons are different. *)
LEMMA MarksApart ==
    ASSUME NEW r, NEW q
    PROVE  /\ Entered(r) # Exited(q)
           /\ Entered(r) = Entered(q) => r = q
           /\ Exited(r) = Exited(q) => r = q
<1>1. /\ Entered(r).kind = "entered" /\ Exited(q).kind = "exited"
      /\ Entered(r).reason = r /\ Entered(q).reason = q
      /\ Exited(r).reason = r /\ Exited(q).reason = q
  BY DEF Entered, Exited
<1>2. QED
  BY <1>1

(* The reconciliation says of every reason whether it is in force. *)
LEMMA Reconciles ==
    ASSUME TypeOK
    PROVE  /\ Reconciliation \in Seq(Boundary)
           /\ \A r \in Reasons : \A v \in Kinds : \A before \in BOOLEAN :
                 ((v = "entered") <=> (r \in InForce))
                    => LitAfter(Reconciliation, before, {Mark(v, r)}, {Mark(Other(v), r)})
<1> DEFINE gone == SetToSeq(Reasons)
           back == SetToSeq(InForce)
           s == [i \in DOMAIN gone |-> Exited(gone[i])]
           t == [i \in DOMAIN back |-> Entered(back[i])]
<1>1. InForce \subseteq Reasons
  BY DEF InForce, Reasons, TypeOK
<1>2. IsFiniteSet(InForce)
  BY <1>1, FiniteReasons, FS_Subset
<1>3. /\ gone \in Seq(Reasons) /\ DOMAIN gone = 1 .. Len(gone) /\ Len(gone) \in Nat
      /\ \A x \in Reasons : \E i \in 1 .. Len(gone) : gone[i] = x
  BY FiniteReasons, Listed
<1>4. /\ back \in Seq(InForce) /\ DOMAIN back = 1 .. Len(back) /\ Len(back) \in Nat
      /\ \A x \in InForce : \E i \in 1 .. Len(back) : back[i] = x
  BY <1>2, Listed
<1> HIDE DEF gone, back
<1>5. /\ s \in Seq(Boundary) /\ Len(s) = Len(gone)
      /\ \A i \in 1 .. Len(gone) : s[i] = Exited(gone[i]) /\ gone[i] \in Reasons
  <2>1. \A i \in 1 .. Len(gone) : gone[i] \in Reasons /\ Exited(gone[i]) \in Boundary
    BY <1>3 DEF Exited, Boundary
  <2>2. QED
    BY <2>1, <1>3
<1>6. /\ t \in Seq(Boundary) /\ Len(t) = Len(back)
      /\ \A i \in 1 .. Len(back) : t[i] = Entered(back[i]) /\ back[i] \in InForce
  <2>1. \A i \in 1 .. Len(back) : back[i] \in InForce /\ Entered(back[i]) \in Boundary
    BY <1>4, <1>1 DEF Entered, Boundary
  <2>2. QED
    BY <2>1, <1>4
<1>7. Reconciliation = s \o t
  BY DEF Reconciliation, s, t, gone, back
<1> HIDE DEF s, t
<1>8. ASSUME NEW r \in Reasons, r \in InForce, NEW before \in BOOLEAN
      PROVE  LitAfter(s \o t, before, {Entered(r)}, {Exited(r)})
  <2>1. \E j \in 1 .. Len(t) : t[j] \in {Entered(r)}
    BY <1>4, <1>6, <1>8
  <2>2. \A k \in 1 .. Len(t) : t[k] \notin {Exited(r)}
    BY <1>6, MarksApart
  <2>3. QED
    BY <2>1, <2>2, <1>5, <1>6, LitJoined
<1>9. ASSUME NEW r \in Reasons, r \notin InForce, NEW before \in BOOLEAN
      PROVE  LitAfter(s \o t, before, {Exited(r)}, {Entered(r)})
  <2>1. PICK j \in 1 .. Len(s) : s[j] = Exited(r)
    BY <1>3, <1>5
  <2>2. \A k \in 1 .. Len(s) : s[k] \notin {Entered(r)}
    BY <1>5, MarksApart
  <2>3. Lit(s, Len(s) + 1, before, {Exited(r)}, {Entered(r)})
    BY <2>1, <2>2, <1>3, <1>5 DEF Lit
  <2>4. \A k \in 1 .. Len(t) : t[k] \notin {Entered(r)}
    BY <1>6, <1>9, MarksApart
  <2>5. LitAfter(s, before, {Exited(r)}, {Entered(r)})
    BY <2>3 DEF LitAfter
  <2>6. Lit(s \o t, Len(s) + (Len(t) + 1), before, {Exited(r)}, {Entered(r)})
    <3>1. Len(t) + 1 \in 1 .. Len(t) + 1
      BY <1>4, <1>6
    <3>2. QED
      BY <2>4, <2>5, <3>1, <1>5, <1>6, LitJoined
  <2>7. Len(s) + (Len(t) + 1) = Len(s \o t) + 1
    <3>1. Len(s \o t) = Len(s) + Len(t)
      BY <1>5, <1>6, ConcatProperties
    <3>2. QED
      BY <3>1, <1>3, <1>4, <1>5, <1>6
  <2>8. QED
    BY <2>6, <2>7 DEF LitAfter
<1>10. s \o t \in Seq(Boundary)
  BY <1>5, <1>6
<1>11. QED
  BY <1>7, <1>8, <1>9, <1>10 DEF Kinds, Other, Mark, Entered, Exited

-----------------------------------------------------------------------------
(* What fits of the boundaries joins the channel, and the rest waits. *)
LEMMA Sends ==
    ASSUME TypeOK, WithinCapacity, NEW b \in Seq(Boundary), SendOrQueue(b)
    PROVE  \E sent, left \in Seq(Boundary) :
              /\ b = sent \o left /\ chan' = chan \o sent /\ queue' = left
              /\ \A k \in 1 .. Len(sent) : \E i \in 1 .. Len(b) : sent[k] = b[i]
              /\ \A k \in 1 .. Len(left) : \E i \in 1 .. Len(b) : left[k] = b[i]
              /\ Len(chan') <= ChannelBound
<1> DEFINE fits == IF Len(b) <= ChannelBound - Len(chan)
                   THEN Len(b) ELSE ChannelBound - Len(chan)
           sent == SubSeq(b, 1, fits)
           left == SubSeq(b, fits + 1, Len(b))
<1>1. /\ chan \in Seq(Boundary \cup Ordinary) /\ Len(chan) \in Nat /\ Len(b) \in Nat
      /\ ChannelBound \in Nat
  BY GateConstants DEF TypeOK
<1>2. fits \in 0 .. Len(b) /\ fits <= ChannelBound - Len(chan)
  BY <1>1 DEF WithinCapacity
<1>3. chan' = chan \o sent /\ queue' = left
  BY DEF SendOrQueue
<1> HIDE DEF fits
<1>4. /\ sent \in Seq(Boundary) /\ Len(sent) = fits
      /\ left \in Seq(Boundary) /\ Len(left) = Len(b) - fits
      /\ \A i \in 1 .. fits : sent[i] = b[i]
      /\ \A i \in 1 .. Len(b) - fits : left[i] = b[fits + i]
  BY <1>1, <1>2
<1>5. b = sent \o left
  <2> HIDE DEF sent, left
  <2>1. sent \o left \in Seq(Boundary) /\ Len(sent \o left) = Len(b)
    <3>1. sent \o left \in Seq(Boundary) /\ Len(sent \o left) = Len(sent) + Len(left)
      BY <1>4, ConcatProperties
    <3>2. QED
      BY <3>1, <1>1, <1>2, <1>4
  <2>2. \A i \in 1 .. Len(b) : (sent \o left)[i] = b[i]
    <3> SUFFICES ASSUME NEW i \in 1 .. Len(b) PROVE (sent \o left)[i] = b[i]
      OBVIOUS
    <3>1. CASE i <= fits
      BY <3>1, <1>1, <1>2, <1>4
    <3>2. CASE ~(i <= fits)
      <4>1. PICK j \in 1 .. Len(b) - fits : i = fits + j
        <5>1. i - fits \in 1 .. Len(b) - fits /\ fits + (i - fits) = i
          BY <3>2, <1>1, <1>2
        <5>2. QED
          BY <5>1
      <4>2. (sent \o left)[i] = left[j]
        <5>1. i - fits = j /\ i \in 1 .. Len(sent) + Len(left)
          BY <4>1, <1>1, <1>2, <1>4
        <5>2. QED
          BY <5>1, <3>2, <1>4, ConcatProperties
      <4>3. left[j] = b[fits + j]
        BY <4>1, <1>4
      <4>4. QED
        BY <4>1, <4>2, <4>3
    <3>3. QED
      BY <3>1, <3>2
  <2>3. QED
    BY <2>1, <2>2, SeqEqual
<1>6. Len(chan \o sent) = Len(chan) + fits
  BY <1>1, <1>4, ConcatProperties
<1>7. Len(chan') <= ChannelBound
  BY <1>1, <1>2, <1>3, <1>6
<1> HIDE DEF sent, left
<1>8. \A k \in 1 .. Len(sent) : \E i \in 1 .. Len(b) : sent[k] = b[i]
  BY <1>1, <1>2, <1>4
<1>9. \A k \in 1 .. Len(left) : \E i \in 1 .. Len(b) : left[k] = b[i]
  <2> SUFFICES ASSUME NEW k \in 1 .. Len(left) PROVE \E i \in 1 .. Len(b) : left[k] = b[i]
    OBVIOUS
  <2>1. k \in 1 .. Len(b) - fits /\ fits + k \in 1 .. Len(b)
    BY <1>1, <1>2, <1>4
  <2>2. QED
    BY <2>1, <1>4
<1>10. QED
  BY <1>3, <1>4, <1>5, <1>7, <1>8, <1>9

-----------------------------------------------------------------------------
(* What a thread that is not idle carries. *)
LEMMA Carried ==
    ASSUME TypeOK
    PROVE  /\ pump.pc \in {"idle", "lock", "defer", "send", "reconcile"}
           /\ pump.pc = "idle" => pump = Idle
           /\ pump.pc \in {"lock", "defer", "send"}
                 => pump \in [pc : {"lock", "defer", "send"}, row : Boundary]
           /\ pump.pc = "reconcile"
                 => pump \in [pc : {"reconcile"}, rows : Seq(Boundary), asked : BOOLEAN,
                              generation : Nat]
           /\ monitor.pc \in {"idle", "lock", "defer", "send"}
           /\ monitor.pc = "idle" => monitor = Idle
           /\ monitor.pc # "idle" => monitor \in [pc : {"lock", "defer", "send"}, sample : BOOLEAN]
           /\ worker.pc \in {"idle", "request", "wait", "drain", "verify", "lift", "open"}
           /\ worker.pc = "idle" => worker = Idle
           /\ worker.pc # "idle"
                 => worker \in [pc : {"request", "wait", "drain", "verify", "lift", "open"},
                                try : 1 .. Attempts, generation : Nat]
<1>1. /\ pump.pc \in {"idle", "lock", "defer", "send", "reconcile"}
      /\ pump.pc = "idle" => pump = Idle
      /\ pump.pc \in {"lock", "defer", "send"}
            => pump \in [pc : {"lock", "defer", "send"}, row : Boundary]
      /\ pump.pc = "reconcile"
            => pump \in [pc : {"reconcile"}, rows : Seq(Boundary), asked : BOOLEAN,
                         generation : Nat]
  BY DEF TypeOK, PumpStates, Idle
<1>2. /\ monitor.pc \in {"idle", "lock", "defer", "send"}
      /\ monitor.pc = "idle" => monitor = Idle
      /\ monitor.pc # "idle" => monitor \in [pc : {"lock", "defer", "send"}, sample : BOOLEAN]
  BY DEF TypeOK, MonitorStates, Idle
<1>3. /\ worker.pc \in {"idle", "request", "wait", "drain", "verify", "lift", "open"}
      /\ worker.pc = "idle" => worker = Idle
      /\ worker.pc # "idle"
            => worker \in [pc : {"request", "wait", "drain", "verify", "lift", "open"},
                           try : 1 .. Attempts, generation : Nat]
  BY DEF TypeOK, WorkerStates, Idle
<1>4. QED
  BY <1>1, <1>2, <1>3

LEMMA BoundariesTyped ==
    /\ Password \in Reasons
    /\ \A r \in Reasons : Entered(r) \in Boundary /\ Exited(r) \in Boundary
BY DEF Entered, Exited, Boundary, Reasons

LEMMA NextTryTyped ==
    ASSUME TypeOK, worker.pc # "idle", NextTry
    PROVE  worker' \in WorkerStates /\ barrier' \in BOOLEAN
<1>1. worker \in [pc : {"request", "wait", "drain", "verify", "lift", "open"},
                 try : 1 .. Attempts, generation : Nat]
  BY Carried
<1>2. barrier \in BOOLEAN
  BY DEF TypeOK
<1>3. QED
  <2>1. CASE worker.try < Attempts
    <3>1. worker' = [worker EXCEPT !.pc = "request", !.try = @ + 1] /\ barrier' = barrier
      BY <2>1 DEF NextTry
    <3>2. worker.try \in 1 .. Attempts /\ worker.try + 1 \in 1 .. Attempts
      BY <2>1, <1>1 DEF Attempts
    <3>3. worker' \in [pc : {"request", "wait", "drain", "verify", "lift", "open"},
                      try : 1 .. Attempts, generation : Nat]
      BY <3>1, <3>2, <1>1
    <3>4. QED
      BY <3>1, <3>3, <1>2 DEF WorkerStates
  <2>2. CASE ~(worker.try < Attempts)
    BY <2>2 DEF NextTry, WorkerStates
  <2>3. QED
    BY <2>1, <2>2

(* No step leaves the types. *)
LEMMA TypeStep ==
    ASSUME TypeOK, WithinCapacity, Resuming, Boundaries, [Next]_vars
    PROVE  TypeOK'
<1>1. CASE BeginTransition
  <2>1. pump' \in PumpStates
    BY <1>1 DEF BeginTransition, TypeOK, PumpStates, Idle, Entered, Exited, Boundary, Reasons
  <2>2. used' \in [transitions : Nat, suspends : Nat, resumes : Nat, rows : Nat]
    BY <1>1 DEF BeginTransition, TypeOK
  <2>3. QED
    BY <1>1, <2>1, <2>2 DEF BeginTransition, TypeOK, gates, contexts, reseeds, Announce
<1>2. CASE ChangeContext
  <2>1. pump' \in PumpStates
    BY <1>2 DEF ChangeContext, TypeOK, PumpStates, Idle
  <2>2. active' \subseteq Contexts
    BY <1>2 DEF ChangeContext, TypeOK, Boundaries, OwnBoundary
  <2>3. hand' \in [Producers -> [held : BOOLEAN, hot : SUBSET Reasons, restored : BOOLEAN]]
    BY <1>2 DEF ChangeContext, TypeOK, Interrupted
  <2>4. QED
    BY <1>2, <2>1, <2>2, <2>3 DEF ChangeContext, TypeOK, gates, contexts, reseeds
<1>3. CASE DeferTransition
  <2>1. pump' \in PumpStates
    BY <1>3 DEF DeferTransition, TypeOK, PumpStates, Idle
  <2>2. queue' \in Seq(Boundary)
    BY <1>3, EmptySeq DEF DeferTransition, TypeOK
  <2>3. QED
    BY <1>3, <2>1, <2>2 DEF DeferTransition, TypeOK, gates, contexts, reseeds
<1>4. CASE SendTransition
  <2>1. PICK b \in Seq(Boundary) : SendOrQueue(b)
    <3>1. pump.row \in Boundary /\ queue \in Seq(Boundary)
      BY <1>4, Carried DEF SendTransition, TypeOK
    <3>2. Append(queue, pump.row) \in Seq(Boundary)
      BY <3>1
    <3>3. QED
      BY <1>4, <3>2 DEF SendTransition
  <2>2. PICK sent, left \in Seq(Boundary) :
           b = sent \o left /\ chan' = chan \o sent /\ queue' = left
    BY <2>1, Sends
  <2>3. sent \in Seq(Boundary \cup Ordinary)
    BY SeqMonotonic
  <2>4. chan' \in Seq(Boundary \cup Ordinary) /\ queue' \in Seq(Boundary)
    BY <2>2, <2>3, ConcatProperties DEF TypeOK
  <2>5. pump' \in PumpStates
    BY <1>4 DEF SendTransition, PumpStates
  <2>6. QED
    BY <1>4, <2>4, <2>5 DEF SendTransition, TypeOK, gates, reseeds
<1>5. CASE FlushQueue
  <2>1. CASE ShouldDefer
    <3>1. queue' \in Seq(Boundary)
      BY <1>5, <2>1, EmptySeq DEF FlushQueue
    <3>2. QED
      BY <1>5, <2>1, <3>1 DEF FlushQueue, TypeOK, gates, reseeds
  <2>2. CASE ~ShouldDefer
    <3>1. PICK b \in Seq(Boundary) : SendOrQueue(b)
      <4>1. queue \in Seq(Boundary)
        BY DEF TypeOK
      <4>2. QED
        BY <1>5, <4>1, <2>2 DEF FlushQueue
    <3>2. PICK sent, left \in Seq(Boundary) :
             b = sent \o left /\ chan' = chan \o sent /\ queue' = left
      BY <3>1, Sends
    <3>3. sent \in Seq(Boundary \cup Ordinary)
      BY SeqMonotonic
    <3>4. chan' \in Seq(Boundary \cup Ordinary) /\ queue' \in Seq(Boundary)
      BY <3>2, <3>3, ConcatProperties DEF TypeOK
    <3>5. QED
      BY <1>5, <2>2, <3>4 DEF FlushQueue, TypeOK, gates, reseeds
  <2>3. QED
    BY <2>1, <2>2
<1>6. CASE MonitorSamples
  <2>1. monitor' \in MonitorStates
    BY <1>6 DEF MonitorSamples, TypeOK, MonitorStates, Idle
  <2>2. used' \in [transitions : Nat, suspends : Nat, resumes : Nat, rows : Nat]
    BY <1>6 DEF MonitorSamples, TypeOK
  <2>3. QED
    BY <1>6, <2>1, <2>2 DEF MonitorSamples, TypeOK, gates, contexts, reseeds, Announce
<1>7. CASE MonitorSwaps
  <2>1. monitor' \in MonitorStates
    BY <1>7 DEF MonitorSwaps, TypeOK, MonitorStates, Idle
  <2>2. hand' \in [Producers -> [held : BOOLEAN, hot : SUBSET Reasons, restored : BOOLEAN]]
    <3>1. CASE confirmed = monitor.sample
      BY <1>7, <3>1 DEF MonitorSwaps, TypeOK
    <3>2. CASE confirmed # monitor.sample
      <4> DEFINE gone == IF confirmed THEN {Password} ELSE {}
      <4>1. Interrupted(gone)
        BY <1>7, <3>2 DEF MonitorSwaps
      <4> HIDE DEF gone
      <4>2. QED
        BY <4>1 DEF Interrupted, TypeOK
    <3>3. QED
      BY <3>1, <3>2
  <2>3. confirmed' \in BOOLEAN
    BY <1>7, Carried DEF MonitorSwaps
  <2>4. guard' \in {"none", "pump", "monitor", "worker"}
    BY <1>7 DEF MonitorSwaps, TypeOK
  <2>5. QED
    BY <1>7, <2>1, <2>2, <2>3, <2>4 DEF MonitorSwaps, TypeOK, gates, reseeds
<1>8. CASE MonitorDefers
  <2>1. monitor' \in MonitorStates
    BY <1>8 DEF MonitorDefers, TypeOK, MonitorStates, Idle
  <2>2. QED
    BY <1>8, <2>1 DEF MonitorDefers, TypeOK, gates, contexts, reseeds
<1>9. CASE MonitorSends
  <2>1. monitor' \in MonitorStates
    BY <1>9 DEF MonitorSends, MonitorStates, Idle
  <2>2. hand' \in [Producers -> [held : BOOLEAN, hot : SUBSET Reasons, restored : BOOLEAN]]
    BY <1>9 DEF MonitorSends, TypeOK, Interrupted
  <2>3. chan' \in Seq(Boundary \cup Ordinary)
    <3>1. CASE Room
      <4>1. PICK c \in Boundary : chan' = Append(chan, c)
        BY <1>9, <3>1, BoundariesTyped DEF MonitorSends
      <4>2. QED
        BY <4>1 DEF TypeOK
    <3>2. CASE ~Room
      BY <1>9, <3>2 DEF MonitorSends, TypeOK
    <3>3. QED
      BY <3>1, <3>2
  <2>4. QED
    BY <1>9, <2>1, <2>2, <2>3 DEF MonitorSends, TypeOK, gates, contexts, reseeds
<1>10. ASSUME NEW p \in Producers, CheckRow(p) PROVE TypeOK'
  <2>1. hand' \in [Producers -> [held : BOOLEAN, hot : SUBSET Reasons, restored : BOOLEAN]]
    BY <1>10 DEF CheckRow, TypeOK, InForce, Reasons
  <2>2. used' \in [transitions : Nat, suspends : Nat, resumes : Nat, rows : Nat]
    BY <1>10 DEF CheckRow, TypeOK
  <2>3. QED
    BY <1>10, <2>1, <2>2 DEF CheckRow, TypeOK, gates, contexts, reseeds
<1>11. ASSUME NEW p \in Producers, SendRow(p) PROVE TypeOK'
  <2>1. hand' \in [Producers -> [held : BOOLEAN, hot : SUBSET Reasons, restored : BOOLEAN]]
    BY <1>11 DEF SendRow, TypeOK, NoRow
  <2>2. chan' \in Seq(Boundary \cup Ordinary)
    BY <1>11 DEF SendRow, TypeOK, Ordinary
  <2>3. QED
    BY <1>11, <2>1, <2>2 DEF SendRow, TypeOK, gates, contexts, reseeds
<1>12. CASE TakeRow
  <2>1. policy' \subseteq Reasons
    BY <1>12 DEF TakeRow, TypeOK, Boundary, Ordinary
  <2>2. chan' \in Seq(Boundary \cup Ordinary)
    BY <1>12 DEF TakeRow, TypeOK
  <2>3. QED
    BY <1>12, <2>1, <2>2 DEF TakeRow, TypeOK, gates, contexts, reseeds
<1>13. ASSUME NEW by \in Suspenders, Suspend(by) PROVE TypeOK'
  <2>1. hand' \in [Producers -> [held : BOOLEAN, hot : SUBSET Reasons, restored : BOOLEAN]]
    BY <1>13 DEF Suspend, TypeOK, Interrupted
  <2>2. used' \in [transitions : Nat, suspends : Nat, resumes : Nat, rows : Nat]
    BY <1>13 DEF Suspend, TypeOK
  <2>3. QED
    BY <1>13, <2>1, <2>2 DEF Suspend, TypeOK, gates, contexts, reseeds, Interrupted
<1>14. CASE RestoreAfterRecording
  BY <1>14 DEF RestoreAfterRecording, TypeOK, gates, contexts, reseeds
<1>15. CASE BeginResume
  <2>1. worker' \in WorkerStates
    BY <1>15 DEF BeginResume, WorkerStates, Idle, Attempts
  <2>2. used' \in [transitions : Nat, suspends : Nat, resumes : Nat, rows : Nat]
    BY <1>15 DEF BeginResume, TypeOK
  <2>3. QED
    BY <1>15, <2>1, <2>2 DEF BeginResume, TypeOK, gates, contexts, reseeds
<1>16. CASE RequestReconcile
  <2>1. worker' \in WorkerStates
    BY <1>16, Carried DEF RequestReconcile, WorkerStates
  <2>2. QED
    BY <1>16, <2>1 DEF RequestReconcile, TypeOK, gates, contexts, reseeds
<1>17. CASE ReplyLate
  <2>1. worker' \in WorkerStates
    BY <1>17, NextTryTyped DEF ReplyLate
  <2>2. QED
    BY <1>17, <2>1 DEF ReplyLate, TypeOK, gates, contexts, reseeds, NextTry
<1>18. CASE DrainForwarder
  <2>1. worker' \in WorkerStates
    BY <1>18, NextTryTyped, Carried DEF DrainForwarder, WorkerStates, Idle, Attempts
  <2>2. QED
    BY <1>18, <2>1 DEF DrainForwarder, TypeOK, gates, contexts, reseeds, NextTry
<1>19. CASE VerifyGeneration
  <2>1. worker' \in WorkerStates
    BY <1>19, NextTryTyped, Carried DEF VerifyGeneration, WorkerStates, Idle, Attempts
  <2>2. QED
    BY <1>19, <2>1 DEF VerifyGeneration, TypeOK, gates, contexts, reseeds, NextTry
<1>20. CASE LiftSuspension
  <2>1. worker' \in WorkerStates
    BY <1>20 DEF LiftSuspension, TypeOK, WorkerStates, Idle, Attempts
  <2>2. QED
    BY <1>20, <2>1 DEF LiftSuspension, TypeOK, gates, contexts, reseeds
<1>21. CASE LowerBarrier
  <2>1. worker' \in WorkerStates
    BY <1>21 DEF LowerBarrier, WorkerStates, Idle, Attempts
  <2>2. QED
    BY <1>21, <2>1 DEF LowerBarrier, TypeOK, gates, contexts, reseeds
<1>22. CASE BeginReconcile
  <2>1. pump' \in PumpStates
    <3>1. CASE TransitionActive
      BY <1>22, <3>1 DEF BeginReconcile, TypeOK
    <3>2. CASE ~TransitionActive
      <4>1. pump' = [pc |-> "reconcile", rows |-> Reconciliation, asked |-> TRUE,
                     generation |-> generation]
        BY <1>22, <3>2 DEF BeginReconcile
      <4>2. Reconciliation \in Seq(Boundary) /\ generation \in Nat
        BY Reconciles DEF TypeOK
      <4>3. QED
        BY <4>1, <4>2 DEF PumpStates
    <3>3. QED
      BY <3>1, <3>2
  <2>2. requests' \in Nat
    BY <1>22 DEF BeginReconcile, TypeOK, Answer
  <2>3. worker' \in WorkerStates
    BY <1>22, NextTryTyped, Carried DEF BeginReconcile, TypeOK, Answer, WorkerStates, Idle, Attempts
  <2>4. queue' \in Seq(Boundary) /\ unreconciled' \in BOOLEAN
        /\ guard' \in {"none", "pump", "monitor", "worker"}
    BY <1>22, EmptySeq DEF BeginReconcile, TypeOK
  <2>5. barrier' \in BOOLEAN
    BY <1>22, NextTryTyped DEF BeginReconcile, Answer, TypeOK
  <2>6. QED
    BY <1>22, <2>1, <2>2, <2>3, <2>4, <2>5 DEF BeginReconcile, TypeOK, reseeds
<1>23. CASE SendReconciled
  <2>1. pump' \in PumpStates
    <3>1. pump \in [pc : {"reconcile"}, rows : Seq(Boundary), asked : BOOLEAN, generation : Nat]
      BY <1>23, Carried DEF SendReconciled
    <3>2. Tail(pump.rows) \in Seq(Boundary)
      BY <1>23, <3>1, HeadTailProperties DEF SendReconciled
    <3>3. QED
      BY <1>23, <3>1, <3>2 DEF SendReconciled, PumpStates
  <2>2. chan' \in Seq(Boundary \cup Ordinary)
    BY <1>23 DEF SendReconciled, TypeOK, PumpStates, Idle
  <2>3. QED
    BY <1>23, <2>1, <2>2 DEF SendReconciled, TypeOK, gates, contexts, reseeds
<1>24. CASE EndReconcile
  <2>1. pump' \in PumpStates
    BY <1>24 DEF EndReconcile, TypeOK, PumpStates, Idle
  <2>2. requests' \in Nat
    BY <1>24 DEF EndReconcile, TypeOK, Answer, Resuming, Asked
  <2>3. worker' \in WorkerStates
    BY <1>24, NextTryTyped, Carried DEF EndReconcile, TypeOK, Answer, WorkerStates, Idle, Attempts
  <2>4. QED
    BY <1>24, <2>1, <2>2, <2>3 DEF EndReconcile, TypeOK, gates, contexts, reseeds, Answer, NextTry
<1>25. CASE Reseed
  <2>1. pump' \in PumpStates
    <3>1. CASE ~unreconciled
      BY <1>25, <3>1 DEF Reseed, TypeOK
    <3>2. CASE unreconciled
      <4>1. pump' = [pc |-> "reconcile", rows |-> Reconciliation, asked |-> FALSE,
                     generation |-> generation]
        BY <1>25, <3>2 DEF Reseed
      <4>2. Reconciliation \in Seq(Boundary) /\ generation \in Nat
        BY Reconciles DEF TypeOK
      <4>3. QED
        BY <4>1, <4>2 DEF PumpStates
    <3>3. QED
      BY <3>1, <3>2
  <2>2. queue' \in Seq(Boundary)
    BY <1>25, EmptySeq DEF Reseed, TypeOK
  <2>3. QED
    BY <1>25, <2>1, <2>2 DEF Reseed, TypeOK, gates
<1>26. CASE UNCHANGED vars
  BY <1>26 DEF vars, TypeOK, gates, contexts, reseeds
<1>27. QED
  BY <1>1, <1>2, <1>3, <1>4, <1>5, <1>6, <1>7, <1>8, <1>9, <1>10, <1>11, <1>12, <1>13, <1>14, <1>15, <1>16, <1>17, <1>18, <1>19, <1>20, <1>21, <1>22, <1>23, <1>24, <1>25, <1>26
     DEF Next, Pump, Monitor, Worker, Producers

-----------------------------------------------------------------------------
LEMMA Plain ==
    ASSUME TypeOK
    PROVE  /\ generation \in Nat /\ requests \in Nat
           /\ {barrier, confirmed, unreconciled, restored} \subseteq BOOLEAN
           /\ active \subseteq Contexts /\ policy \subseteq Reasons
           /\ queue \in Seq(Boundary) /\ chan \in Seq(Boundary \cup Ordinary)
BY DEF TypeOK

(* The next try, or the error. *)
Retries ==
    \/ worker'.pc = "request" /\ barrier' = barrier
    \/ worker'.pc = "idle" /\ barrier' = FALSE

LEMMA TriesNext == ASSUME TypeOK, worker.pc # "idle", NextTry PROVE Retries
<1>1. worker \in [pc : {"request", "wait", "drain", "verify", "lift", "open"},
                 try : 1 .. Attempts, generation : Nat]
  BY Carried
<1>2. QED
  <2>1. CASE worker.try < Attempts
    <3>1. worker' = [worker EXCEPT !.pc = "request", !.try = @ + 1] /\ barrier' = barrier
      BY <2>1 DEF NextTry
    <3>2. QED
      BY <3>1, <1>1 DEF Retries
  <2>2. CASE ~(worker.try < Attempts)
    BY <2>2 DEF NextTry, Retries, Idle
  <2>3. QED
    BY <2>1, <2>2

(* An answer counts when the last request is answered and it is in time. *)
LEMMA Answers ==
    ASSUME TypeOK, NEW result \in BOOLEAN, Answer(result)
    PROVE  /\ requests' = requests - 1
           /\ \/ /\ requests > 1 \/ worker.pc # "wait"
                 /\ worker' = worker /\ barrier' = barrier
              \/ /\ ~(requests > 1) /\ worker.pc = "wait" /\ result
                 /\ worker'.pc = "drain" /\ worker'.generation = generation
                 /\ barrier' = barrier
              \/ ~(requests > 1) /\ worker.pc = "wait" /\ ~result /\ Retries
<1>1. CASE requests > 1 \/ worker.pc # "wait"
  BY <1>1 DEF Answer
<1>2. CASE ~(requests > 1) /\ worker.pc = "wait"
  <2>1. worker \in [pc : {"request", "wait", "drain", "verify", "lift", "open"},
                   try : 1 .. Attempts, generation : Nat]
    BY <1>2, Carried
  <2>2. CASE result /\ barrier' = barrier
             /\ worker' = [worker EXCEPT !.pc = "drain", !.generation = generation]
    BY <2>1, <2>2, <1>2 DEF Answer
  <2>3. CASE ~result /\ NextTry
    BY <2>3, <1>2, TriesNext DEF Answer
  <2>4. QED
    BY <1>2, <2>2, <2>3 DEF Answer
<1>3. QED
  BY <1>1, <1>2

(* The guard is held where it has to be. *)
LEMMA GuardStep ==
    ASSUME TypeOK, Guarded, Resuming, [Next]_vars
    PROVE  Guarded'
<1>1. CASE BeginTransition
  BY <1>1, Carried DEF BeginTransition, Guarded, Moving, Asked, Idle
<1>2. CASE ChangeContext
  BY <1>2, Carried DEF ChangeContext, Guarded, Moving, Asked, Idle
<1>3. CASE DeferTransition
  BY <1>3, Carried DEF DeferTransition, Guarded, Moving, Asked, Idle
<1>4. CASE SendTransition
  BY <1>4, Carried DEF SendTransition, Guarded, Moving, Asked, Idle
<1>5. CASE FlushQueue
  BY <1>5, Carried DEF FlushQueue, Guarded, Moving, Asked, Idle
<1>6. CASE MonitorSamples
  BY <1>6, Carried DEF MonitorSamples, Guarded, Moving, Asked, Idle
<1>7. CASE MonitorSwaps
  BY <1>7, Carried DEF MonitorSwaps, Guarded, Moving, Asked, Idle
<1>8. CASE MonitorDefers
  BY <1>8, Carried DEF MonitorDefers, Guarded, Moving, Asked, Idle
<1>9. CASE MonitorSends
  BY <1>9, Carried DEF MonitorSends, Guarded, Moving, Asked, Idle
<1>10. ASSUME NEW p \in Producers, CheckRow(p) PROVE Guarded'
  BY <1>10, Carried DEF CheckRow, Guarded, Moving, Asked, Idle
<1>11. ASSUME NEW p \in Producers, SendRow(p) PROVE Guarded'
  BY <1>11, Carried DEF SendRow, Guarded, Moving, Asked, Idle
<1>12. CASE TakeRow
  BY <1>12, Carried DEF TakeRow, Guarded, Moving, Asked, Idle
<1>13. ASSUME NEW by \in Suspenders, Suspend(by) PROVE Guarded'
  BY <1>13, Carried DEF Suspend, Guarded, Moving, Asked, Idle
<1>14. CASE RestoreAfterRecording
  BY <1>14, Carried DEF RestoreAfterRecording, Guarded, Moving, Asked, Idle
<1>15. CASE BeginResume
  BY <1>15, Carried DEF BeginResume, Guarded, Moving, Asked, Idle
<1>16. CASE RequestReconcile
  BY <1>16, Carried DEF RequestReconcile, Guarded, Moving, Asked, Idle
<1>17. CASE ReplyLate
  BY <1>17, Carried, TriesNext DEF ReplyLate, Guarded, Moving, Asked, Idle, Retries
<1>18. CASE DrainForwarder
  BY <1>18, Carried, TriesNext DEF DrainForwarder, Guarded, Moving, Asked, Idle, Retries
<1>19. CASE VerifyGeneration
  <2>1. CASE NextTry /\ UNCHANGED guard
    BY <1>19, <2>1, Carried, TriesNext DEF VerifyGeneration, Guarded, Moving, Asked, Idle, Retries
  <2>2. CASE worker' = [worker EXCEPT !.pc = "lift"] /\ guard' = "worker" /\ UNCHANGED barrier
             /\ Unchallenged
    BY <1>19, <2>2, Carried DEF VerifyGeneration, Guarded, Moving, Asked, Idle
  <2>3. CASE worker' = Idle /\ barrier' = FALSE /\ UNCHANGED guard
    BY <1>19, <2>3, Carried DEF VerifyGeneration, Guarded, Moving, Asked, Idle
  <2>4. QED
    BY <1>19, <2>1, <2>2, <2>3 DEF VerifyGeneration
<1>20. CASE LiftSuspension
  BY <1>20, Carried DEF LiftSuspension, Guarded, Moving, Asked, Idle
<1>21. CASE LowerBarrier
  BY <1>21, Carried DEF LowerBarrier, Guarded, Moving, Asked, Idle
<1>22. CASE BeginReconcile
  <2>1. CASE TransitionActive
    <3>1. Answer(FALSE)
      BY <1>22, <2>1 DEF BeginReconcile
    <3>2. QED
      BY <1>22, <2>1, <3>1, Answers, Carried, Plain DEF BeginReconcile, Retries, Guarded, Moving, Asked, Idle
  <2>2. CASE ~TransitionActive
    BY <1>22, <2>2, Carried, Plain DEF BeginReconcile, Guarded, Moving, Asked, Idle
  <2>3. QED
    BY <2>1, <2>2
<1>23. CASE SendReconciled
  BY <1>23, Carried DEF SendReconciled, Guarded, Moving, Asked, Idle
<1>24. CASE EndReconcile
  <2>1. CASE pump.asked
    <3>1. PICK result \in BOOLEAN : Answer(result)
      BY <1>24, <2>1, Zenon DEF EndReconcile
    <3>2. QED
      BY <1>24, <2>1, <3>1, Answers, Carried, Plain DEF EndReconcile, Retries, Guarded, Moving, Asked, Idle
  <2>2. CASE ~pump.asked
    BY <1>24, <2>2, Carried, Plain DEF EndReconcile, Guarded, Moving, Asked, Idle
  <2>3. QED
    BY <2>1, <2>2
<1>25. CASE Reseed
  BY <1>25, Carried DEF Reseed, Guarded, Moving, Asked, Idle
<1>26. CASE UNCHANGED vars
  BY <1>26, Carried DEF vars, Guarded, Moving, Asked, Idle
<1>27. QED
  BY <1>1, <1>2, <1>3, <1>4, <1>5, <1>6, <1>7, <1>8, <1>9, <1>10, <1>11, <1>12, <1>13, <1>14, <1>15, <1>16, <1>17, <1>18, <1>19, <1>20, <1>21, <1>22, <1>23, <1>24, <1>25, <1>26
     DEF Next, Pump, Monitor, Worker, Producers

(* A resume keeps to its pause and its requests. *)
LEMMA ResumeStep ==
    ASSUME TypeOK, Guarded, Resuming, [Next]_vars
    PROVE  Resuming'
<1>1. CASE BeginTransition
  BY <1>1, Carried, Plain DEF BeginTransition, Resuming, Asked, Idle, gates, Announce
<1>2. CASE ChangeContext
  BY <1>2, Carried, Plain DEF ChangeContext, Resuming, Asked, Idle, gates
<1>3. CASE DeferTransition
  BY <1>3, Carried, Plain DEF DeferTransition, Resuming, Asked, Idle, gates
<1>4. CASE SendTransition
  BY <1>4, Carried, Plain DEF SendTransition, Resuming, Asked, Idle, gates
<1>5. CASE FlushQueue
  BY <1>5, Carried, Plain DEF FlushQueue, Resuming, Asked, Idle, gates
<1>6. CASE MonitorSamples
  BY <1>6, Carried, Plain DEF MonitorSamples, Resuming, Asked, Idle, gates, Announce
<1>7. CASE MonitorSwaps
  BY <1>7, Carried, Plain DEF MonitorSwaps, Resuming, Asked, Idle, gates
<1>8. CASE MonitorDefers
  BY <1>8, Carried, Plain DEF MonitorDefers, Resuming, Asked, Idle, gates
<1>9. CASE MonitorSends
  BY <1>9, Carried, Plain DEF MonitorSends, Resuming, Asked, Idle, gates
<1>10. ASSUME NEW p \in Producers, CheckRow(p) PROVE Resuming'
  BY <1>10, Carried, Plain DEF CheckRow, Resuming, Asked, Idle, gates
<1>11. ASSUME NEW p \in Producers, SendRow(p) PROVE Resuming'
  BY <1>11, Carried, Plain DEF SendRow, Resuming, Asked, Idle, gates
<1>12. CASE TakeRow
  BY <1>12, Carried, Plain DEF TakeRow, Resuming, Asked, Idle, gates
<1>13. ASSUME NEW by \in Suspenders, Suspend(by) PROVE Resuming'
  BY <1>13, Carried, Plain DEF Suspend, Resuming, Asked, Idle, gates
<1>14. CASE RestoreAfterRecording
  BY <1>14, Carried, Plain DEF RestoreAfterRecording, Resuming, Asked, Idle, gates
<1>15. CASE BeginResume
  BY <1>15, Carried, Plain DEF BeginResume, Resuming, Asked, Idle, gates
<1>16. CASE RequestReconcile
  BY <1>16, Carried, Plain DEF RequestReconcile, Resuming, Asked, Idle, gates
<1>17. CASE ReplyLate
  BY <1>17, Carried, Plain, TriesNext DEF ReplyLate, Resuming, Asked, Idle, gates, Retries
<1>18. CASE DrainForwarder
  BY <1>18, Carried, Plain, TriesNext DEF DrainForwarder, Resuming, Asked, Idle, gates, Retries
<1>19. CASE VerifyGeneration
  <2>1. CASE NextTry /\ UNCHANGED guard
    BY <1>19, <2>1, Carried, Plain, TriesNext DEF VerifyGeneration, Resuming, Asked, Idle, gates, Retries
  <2>2. CASE worker' = [worker EXCEPT !.pc = "lift"] /\ guard' = "worker" /\ UNCHANGED barrier
             /\ Unchallenged
    BY <1>19, <2>2, Carried, Plain DEF VerifyGeneration, Resuming, Asked, Idle, gates
  <2>3. CASE worker' = Idle /\ barrier' = FALSE /\ UNCHANGED guard
    BY <1>19, <2>3, Carried, Plain DEF VerifyGeneration, Resuming, Asked, Idle, gates
  <2>4. QED
    BY <1>19, <2>1, <2>2, <2>3 DEF VerifyGeneration
<1>20. CASE LiftSuspension
  BY <1>20, Carried, Plain DEF LiftSuspension, Resuming, Asked, Idle, gates
<1>21. CASE LowerBarrier
  BY <1>21, Carried, Plain DEF LowerBarrier, Resuming, Asked, Idle, gates
<1>22. CASE BeginReconcile
  <2>1. CASE TransitionActive
    <3>1. Answer(FALSE)
      BY <1>22, <2>1 DEF BeginReconcile
    <3>2. /\ ~Asked' /\ suspended' = suspended /\ generation' = generation
          /\ requests \in Nat /\ requests > 0 /\ suspended = "pause" /\ generation \in Nat
      BY <1>22, <2>1, Plain DEF BeginReconcile, PumpFree, Asked, Idle, Resuming
    <3>3. requests' = requests - 1
      BY <3>1, Answers
    <3>4. CASE worker' = worker /\ barrier' = barrier
      BY <3>2, <3>3, <3>4 DEF Resuming
    <3>5. CASE ~(requests > 1) /\ worker.pc = "wait" /\ barrier' = barrier
               /\ worker'.pc = "drain" /\ worker'.generation = generation
      BY <3>2, <3>3, <3>5 DEF Resuming
    <3>6. CASE worker.pc = "wait" /\ Retries
      BY <3>2, <3>3, <3>6 DEF Resuming, Retries
    <3>7. QED
      BY <3>1, <3>4, <3>5, <3>6, Answers
  <2>2. CASE ~TransitionActive
    BY <1>22, <2>2, Carried, Plain DEF BeginReconcile, Resuming, Asked, Idle, gates
  <2>3. QED
    BY <2>1, <2>2
<1>23. CASE SendReconciled
  BY <1>23, Carried, Plain DEF SendReconciled, Resuming, Asked, Idle, gates
<1>24. CASE EndReconcile
  <2>1. CASE pump.asked
    <3>1. PICK result \in BOOLEAN : Answer(result)
      BY <1>24, <2>1, Zenon DEF EndReconcile
    <3>2. /\ ~Asked' /\ suspended' = suspended /\ generation' = generation
          /\ requests \in Nat /\ requests > 0 /\ suspended = "pause" /\ generation \in Nat
      BY <1>24, <2>1, Plain DEF EndReconcile, PumpFree, Asked, Idle, Resuming
    <3>3. requests' = requests - 1
      BY <3>1, Answers
    <3>4. CASE worker' = worker /\ barrier' = barrier
      BY <3>2, <3>3, <3>4 DEF Resuming
    <3>5. CASE ~(requests > 1) /\ worker.pc = "wait" /\ barrier' = barrier
               /\ worker'.pc = "drain" /\ worker'.generation = generation
      BY <3>2, <3>3, <3>5 DEF Resuming
    <3>6. CASE worker.pc = "wait" /\ Retries
      BY <3>2, <3>3, <3>6 DEF Resuming, Retries
    <3>7. QED
      BY <3>1, <3>4, <3>5, <3>6, Answers
  <2>2. CASE ~pump.asked
    BY <1>24, <2>2, Carried, Plain DEF EndReconcile, Resuming, Asked, Idle, gates
  <2>3. QED
    BY <2>1, <2>2
<1>25. CASE Reseed
  BY <1>25, Carried, Plain DEF Reseed, Resuming, Asked, Idle, gates
<1>26. CASE UNCHANGED vars
  BY <1>26, Carried, Plain DEF vars, Resuming, Asked, Idle, gates
<1>27. QED
  BY <1>1, <1>2, <1>3, <1>4, <1>5, <1>6, <1>7, <1>8, <1>9, <1>10, <1>11, <1>12, <1>13, <1>14, <1>15, <1>16, <1>17, <1>18, <1>19, <1>20, <1>21, <1>22, <1>23, <1>24, <1>25, <1>26
     DEF Next, Pump, Monitor, Worker, Producers

(* Nothing is under way behind an answer. *)
LEMMA QuietStep ==
    ASSUME TypeOK, Guarded, Resuming, Quiet, PolicyFollows, [Next]_vars
    PROVE  Quiet'
<1>1. CASE BeginTransition
  BY <1>1, Carried, Plain DEF BeginTransition, Quiet, Answered, Answering, Asked, Moving, Idle, Guarded, Resuming, contexts, Announce, PumpFree
<1>2. CASE ChangeContext
  BY <1>2, Carried, Plain DEF ChangeContext, Quiet, Answered, Answering, Asked, Moving, Idle, Guarded, Resuming, contexts
<1>3. CASE DeferTransition
  BY <1>3, Carried, Plain DEF DeferTransition, Quiet, Answered, Answering, Asked, Moving, Idle, Guarded, Resuming, contexts
<1>4. CASE SendTransition
  BY <1>4, Carried, Plain DEF SendTransition, Quiet, Answered, Answering, Asked, Moving, Idle, Guarded, Resuming, contexts
<1>5. CASE FlushQueue
  BY <1>5, Carried, Plain DEF FlushQueue, Quiet, Answered, Answering, Asked, Moving, Idle, Guarded, Resuming, contexts, PumpFree
<1>6. CASE MonitorSamples
  BY <1>6, Carried, Plain DEF MonitorSamples, Quiet, Answered, Answering, Asked, Moving, Idle, Guarded, Resuming, contexts, Announce
<1>7. CASE MonitorSwaps
  BY <1>7, Carried, Plain DEF MonitorSwaps, Quiet, Answered, Answering, Asked, Moving, Idle, Guarded, Resuming, contexts
<1>8. CASE MonitorDefers
  BY <1>8, Carried, Plain DEF MonitorDefers, Quiet, Answered, Answering, Asked, Moving, Idle, Guarded, Resuming, contexts
<1>9. CASE MonitorSends
  BY <1>9, Carried, Plain DEF MonitorSends, Quiet, Answered, Answering, Asked, Moving, Idle, Guarded, Resuming, contexts
<1>10. ASSUME NEW p \in Producers, CheckRow(p) PROVE Quiet'
  BY <1>10, Carried, Plain DEF CheckRow, Quiet, Answered, Answering, Asked, Moving, Idle, Guarded, Resuming, contexts
<1>11. ASSUME NEW p \in Producers, SendRow(p) PROVE Quiet'
  BY <1>11, Carried, Plain DEF SendRow, Quiet, Answered, Answering, Asked, Moving, Idle, Guarded, Resuming, contexts
<1>12. CASE TakeRow
  BY <1>12, Carried, Plain DEF TakeRow, Quiet, Answered, Answering, Asked, Moving, Idle, Guarded, Resuming, contexts
<1>13. ASSUME NEW by \in Suspenders, Suspend(by) PROVE Quiet'
  BY <1>13, Carried, Plain DEF Suspend, Quiet, Answered, Answering, Asked, Moving, Idle, Guarded, Resuming, contexts
<1>14. CASE RestoreAfterRecording
  BY <1>14, Carried, Plain DEF RestoreAfterRecording, Quiet, Answered, Answering, Asked, Moving, Idle, Guarded, Resuming, contexts
<1>15. CASE BeginResume
  BY <1>15, Carried, Plain DEF BeginResume, Quiet, Answered, Answering, Asked, Moving, Idle, Guarded, Resuming, contexts
<1>16. CASE RequestReconcile
  BY <1>16, Carried, Plain DEF RequestReconcile, Quiet, Answered, Answering, Asked, Moving, Idle, Guarded, Resuming, contexts
<1>17. CASE ReplyLate
  BY <1>17, Carried, Plain, TriesNext DEF ReplyLate, Quiet, Answered, Answering, Asked, Moving, Idle, Guarded, Resuming, contexts, Retries
<1>18. CASE DrainForwarder
  BY <1>18, Carried, Plain, TriesNext DEF DrainForwarder, Quiet, Answered, Answering, Asked, Moving, Idle, Guarded, Resuming, contexts, Retries
<1>19. CASE VerifyGeneration
  <2>1. CASE NextTry /\ UNCHANGED guard
    BY <1>19, <2>1, Carried, Plain, TriesNext DEF VerifyGeneration, Quiet, Answered, Answering, Asked, Moving, Idle, Guarded, Resuming, contexts, Unchallenged, TransitionActive, Retries
  <2>2. CASE worker' = [worker EXCEPT !.pc = "lift"] /\ guard' = "worker" /\ UNCHANGED barrier
             /\ Unchallenged
    BY <1>19, <2>2, Carried, Plain DEF VerifyGeneration, Quiet, Answered, Answering, Asked, Moving, Idle, Guarded, Resuming, contexts, Unchallenged, TransitionActive
  <2>3. CASE worker' = Idle /\ barrier' = FALSE /\ UNCHANGED guard
    BY <1>19, <2>3, Carried, Plain DEF VerifyGeneration, Quiet, Answered, Answering, Asked, Moving, Idle, Guarded, Resuming, contexts, Unchallenged, TransitionActive
  <2>4. QED
    BY <1>19, <2>1, <2>2, <2>3 DEF VerifyGeneration
<1>20. CASE LiftSuspension
  BY <1>20, Carried, Plain DEF LiftSuspension, Quiet, Answered, Answering, Asked, Moving, Idle, Guarded, Resuming, contexts
<1>21. CASE LowerBarrier
  BY <1>21, Carried, Plain DEF LowerBarrier, Quiet, Answered, Answering, Asked, Moving, Idle, Guarded, Resuming, contexts
<1>22. CASE BeginReconcile
  <2>1. ~Answered /\ requests > 0 /\ PumpFree
    BY <1>22, Plain DEF BeginReconcile, Answered, Resuming
  <2>2. CASE TransitionActive
    <3>1. Answer(FALSE)
      BY <1>22, <2>2 DEF BeginReconcile
    <3>2. /\ ~Asked' /\ generation' = generation /\ queue' = queue
          /\ pump' = pump /\ monitor' = monitor
      BY <1>22, <2>1, <2>2 DEF BeginReconcile, PumpFree, Asked, Idle
    <3>3. worker' = worker \/ Retries
      BY <3>1, Answers
    <3>4. QED
      BY <2>1, <3>2, <3>3 DEF Quiet, Answered, Answering, Retries
  <2>3. CASE ~TransitionActive
    <3>1. ~Answered' /\ queue' = <<>> /\ monitor'.pc = "idle"
      BY <1>22, <2>1, <2>3, Carried DEF BeginReconcile, Answered, TransitionActive, Idle
    <3>2. QED
      BY <3>1 DEF Quiet, Answered, Answering
  <2>4. QED
    BY <2>2, <2>3
<1>23. CASE SendReconciled
  BY <1>23, Carried, Plain DEF SendReconciled, Quiet, Answered, Answering, Asked, Moving, Idle, Guarded, Resuming, contexts
<1>24. CASE EndReconcile
  <2> DEFINE result == ~TransitionActive /\ generation = pump.generation
  <2>1. CASE pump.asked
    <3>1. result \in BOOLEAN /\ Answer(result)
      BY <1>24, <2>1 DEF EndReconcile
    <3>2. /\ ~Asked' /\ generation' = generation /\ queue' = queue
          /\ pump'.pc = "idle" /\ monitor' = monitor
          /\ requests \in Nat /\ requests > 0 /\ generation \in Nat
      BY <1>24, <2>1, Plain DEF EndReconcile, Asked, Idle, Resuming, contexts
    <3>3. CASE worker' = worker
      BY <3>2, <3>3 DEF Quiet, Answered, Answering, Resuming
    <3>4. CASE result /\ worker'.pc = "drain" /\ worker'.generation = generation
      BY <3>2, <3>4, Carried DEF Quiet, Answered, Answering, TransitionActive
    <3>5. CASE Retries
      BY <3>2, <3>5 DEF Quiet, Answered, Answering, Retries
    <3> HIDE DEF result
    <3>6. QED
      BY <3>1, <3>3, <3>4, <3>5, Answers
  <2>2. CASE ~pump.asked
    BY <1>24, <2>2, Carried DEF EndReconcile, Quiet, Answered, Answering, Asked, Idle, contexts
  <2>3. QED
    BY <2>1, <2>2
<1>25. CASE Reseed
  BY <1>25, Carried, Plain DEF Reseed, Quiet, Answered, Answering, Asked, Moving, Idle, Guarded, Resuming, contexts, PolicyFollows, Trusted, PumpFree
<1>26. CASE UNCHANGED vars
  BY <1>26, Carried, Plain DEF vars, Quiet, Answered, Answering, Asked, Moving, Idle, Guarded, Resuming, contexts
<1>27. QED
  BY <1>1, <1>2, <1>3, <1>4, <1>5, <1>6, <1>7, <1>8, <1>9, <1>10, <1>11, <1>12, <1>13, <1>14, <1>15, <1>16, <1>17, <1>18, <1>19, <1>20, <1>21, <1>22, <1>23, <1>24, <1>25, <1>26
     DEF Next, Pump, Monitor, Worker, Producers

(* The boundaries of the pump stay true. *)
LEMMA BoundaryStep ==
    ASSUME TypeOK, WithinCapacity, Boundaries, [Next]_vars
    PROVE  Boundaries'
<1>1. CASE BeginTransition
  BY <1>1, Carried DEF BeginTransition, Boundaries, OwnBoundary, Moving, Idle, contexts, Entered, Exited, Boundary, Reasons
<1>2. CASE ChangeContext
  BY <1>2, Carried DEF ChangeContext, Boundaries, OwnBoundary, Moving, Idle, contexts
<1>3. CASE DeferTransition
  BY <1>3, Carried DEF DeferTransition, Boundaries, OwnBoundary, Moving, Idle, contexts
<1>4. CASE SendTransition
  <2>1. OwnBoundary(pump.row) /\ queue \in Seq(Boundary) /\ pump.row \in Boundary
    BY <1>4, Plain DEF SendTransition, Boundaries, OwnBoundary
  <2> DEFINE b == Append(queue, pump.row)
  <2>2. b \in Seq(Boundary) /\ Len(b) = Len(queue) + 1 /\ Len(queue) \in Nat
        /\ b[Len(queue) + 1] = pump.row /\ \A i \in 1 .. Len(queue) : b[i] = queue[i]
    BY <2>1
  <2>3. SendOrQueue(b)
    BY <1>4 DEF SendTransition
  <2> HIDE DEF b
  <2>4. \A i \in 1 .. Len(b) : OwnBoundary(b[i])
    <3> SUFFICES ASSUME NEW i \in 1 .. Len(b) PROVE OwnBoundary(b[i])
      OBVIOUS
    <3>1. CASE i = Len(queue) + 1
      BY <3>1, <2>1, <2>2
    <3>2. CASE i # Len(queue) + 1
      <4>1. i \in 1 .. Len(queue)
        BY <3>2, <2>2
      <4>2. QED
        BY <4>1, <2>2 DEF Boundaries
    <3>3. QED
      BY <3>1, <3>2
  <2>5. \A k \in 1 .. Len(queue') : OwnBoundary(queue'[k])
    <3>1. PICK left \in Seq(Boundary) :
             queue' = left /\ \A k \in 1 .. Len(left) : \E i \in 1 .. Len(b) : left[k] = b[i]
      BY <2>2, <2>3, Sends
    <3>2. QED
      BY <3>1, <2>4
  <2>6. pump'.pc = "idle"
    BY <1>4 DEF SendTransition, Idle
  <2>7. QED
    BY <2>5, <2>6 DEF Boundaries, Moving, OwnBoundary
<1>5. CASE FlushQueue
  <2>1. pump'.pc = "idle"
    BY <1>5 DEF FlushQueue, PumpFree, Idle
  <2>2. CASE ShouldDefer
    BY <1>5, <2>1, <2>2, EmptySeq DEF FlushQueue, Boundaries, Moving
  <2>3. CASE ~ShouldDefer
    <3>1. SendOrQueue(queue) /\ queue \in Seq(Boundary)
      BY <1>5, <2>3, Plain DEF FlushQueue
    <3>2. \A k \in 1 .. Len(queue') : OwnBoundary(queue'[k])
      BY <3>1, Sends DEF Boundaries
    <3>3. QED
      BY <2>1, <3>2 DEF Boundaries, Moving, OwnBoundary
  <2>4. QED
    BY <2>2, <2>3
<1>6. CASE MonitorSamples
  BY <1>6, Carried DEF MonitorSamples, Boundaries, OwnBoundary, Moving, Idle, contexts
<1>7. CASE MonitorSwaps
  BY <1>7, Carried DEF MonitorSwaps, Boundaries, OwnBoundary, Moving, Idle, contexts
<1>8. CASE MonitorDefers
  BY <1>8, Carried DEF MonitorDefers, Boundaries, OwnBoundary, Moving, Idle, contexts
<1>9. CASE MonitorSends
  BY <1>9, Carried DEF MonitorSends, Boundaries, OwnBoundary, Moving, Idle, contexts
<1>10. ASSUME NEW p \in Producers, CheckRow(p) PROVE Boundaries'
  BY <1>10, Carried DEF CheckRow, Boundaries, OwnBoundary, Moving, Idle, contexts
<1>11. ASSUME NEW p \in Producers, SendRow(p) PROVE Boundaries'
  BY <1>11, Carried DEF SendRow, Boundaries, OwnBoundary, Moving, Idle, contexts
<1>12. CASE TakeRow
  BY <1>12, Carried DEF TakeRow, Boundaries, OwnBoundary, Moving, Idle, contexts
<1>13. ASSUME NEW by \in Suspenders, Suspend(by) PROVE Boundaries'
  BY <1>13, Carried DEF Suspend, Boundaries, OwnBoundary, Moving, Idle, contexts
<1>14. CASE RestoreAfterRecording
  BY <1>14, Carried DEF RestoreAfterRecording, Boundaries, OwnBoundary, Moving, Idle, contexts
<1>15. CASE BeginResume
  BY <1>15, Carried DEF BeginResume, Boundaries, OwnBoundary, Moving, Idle, contexts
<1>16. CASE RequestReconcile
  BY <1>16, Carried DEF RequestReconcile, Boundaries, OwnBoundary, Moving, Idle, contexts
<1>17. CASE ReplyLate
  BY <1>17, Carried, TriesNext DEF ReplyLate, Boundaries, OwnBoundary, Moving, Idle, contexts, Retries
<1>18. CASE DrainForwarder
  BY <1>18, Carried, TriesNext DEF DrainForwarder, Boundaries, OwnBoundary, Moving, Idle, contexts, Retries
<1>19. CASE VerifyGeneration
  BY <1>19, Carried, TriesNext DEF VerifyGeneration, Boundaries, OwnBoundary, Moving, Idle, contexts, Retries
<1>20. CASE LiftSuspension
  BY <1>20, Carried DEF LiftSuspension, Boundaries, OwnBoundary, Moving, Idle, contexts
<1>21. CASE LowerBarrier
  BY <1>21, Carried DEF LowerBarrier, Boundaries, OwnBoundary, Moving, Idle, contexts
<1>22. CASE BeginReconcile
  <2>1. CASE TransitionActive
    BY <1>22, <2>1 DEF BeginReconcile, Boundaries, Moving
  <2>2. CASE ~TransitionActive
    <3>1. pump'.pc = "reconcile" /\ queue' = <<>>
      BY <1>22, <2>2 DEF BeginReconcile
    <3>2. QED
      BY <3>1, EmptySeq DEF Boundaries, Moving
  <2>3. QED
    BY <2>1, <2>2
<1>23. CASE SendReconciled
  BY <1>23, Carried DEF SendReconciled, Boundaries, OwnBoundary, Moving, Idle, contexts
<1>24. CASE EndReconcile
  BY <1>24 DEF EndReconcile, Boundaries, Moving, Idle, contexts
<1>25. CASE Reseed
  BY <1>25, Carried DEF Reseed, Boundaries, OwnBoundary, Moving, Idle, contexts
<1>26. CASE UNCHANGED vars
  BY <1>26, Carried DEF vars, Boundaries, OwnBoundary, Moving, Idle, contexts
<1>27. QED
  BY <1>1, <1>2, <1>3, <1>4, <1>5, <1>6, <1>7, <1>8, <1>9, <1>10, <1>11, <1>12, <1>13, <1>14, <1>15, <1>16, <1>17, <1>18, <1>19, <1>20, <1>21, <1>22, <1>23, <1>24, <1>25, <1>26
     DEF Next, Pump, Monitor, Worker, Producers

-----------------------------------------------------------------------------
(* The channel to the policy.                                               *)
Rows == Boundary \cup Ordinary

(* Boundaries by their kind and reason. *)
LEMMA MarkTypes ==
    /\ \A v \in Kinds : Other(v) \in Kinds /\ Other(v) # v
    /\ \A v \in Kinds, r \in Reasons : Mark(v, r) \in Boundary
    /\ \A v, w, r, q : Mark(v, r) = Mark(w, q) => v = w /\ r = q
    /\ \A v, r : Mark(v, r).kind = v /\ Mark(v, r).reason = r
    /\ \A row \in Ordinary : \A v \in Kinds : \A r : row # Mark(v, r)
    /\ \A b \in Boundary : b.kind \in Kinds /\ b.reason \in Reasons /\ b = Mark(b.kind, b.reason)
<1>1. \A v, r : Mark(v, r).kind = v /\ Mark(v, r).reason = r
  BY DEF Mark
<1>2. \A v, w, r, q : Mark(v, r) = Mark(w, q) => v = w /\ r = q
  BY <1>1
<1>3. \A row \in Ordinary : \A v \in Kinds : \A r : row # Mark(v, r)
  BY <1>1 DEF Ordinary, Kinds
<1>4. \A v \in Kinds : Other(v) \in Kinds /\ Other(v) # v
  BY DEF Kinds, Other
<1>5. \A v \in Kinds, r \in Reasons : Mark(v, r) \in Boundary
  BY DEF Kinds, Mark, Boundary
<1>6. \A b \in Boundary : b.kind \in Kinds /\ b.reason \in Reasons /\ b = Mark(b.kind, b.reason)
  BY DEF Kinds, Mark, Boundary
<1>7. QED
  BY <1>1, <1>2, <1>3, <1>4, <1>5, <1>6

LEMMA SaidBoolean ==
    ASSUME NEW c, NEW P, NEW s, NEW v, NEW r
    PROVE  Said(c, P, v, r) \in BOOLEAN /\ ToldBy(c, P, s, v, r) \in BOOLEAN
BY LitIsBoolean DEF Said, ToldBy, LitAfter

(* Telling more is no loss for what is told after it. *)
LEMMA ToldMore ==
    ASSUME NEW c, NEW P, NEW d, NEW Q, NEW s, NEW v, NEW r,
           Said(c, P, v, r) => Said(d, Q, v, r), ToldBy(c, P, s, v, r)
    PROVE  ToldBy(d, Q, s, v, r)
<1>1. Said(c, P, v, r) \in BOOLEAN /\ Said(d, Q, v, r) \in BOOLEAN
  BY SaidBoolean
<1>2. QED
  BY <1>1, LitMore DEF ToldBy, LitAfter

(* What more channels say agrees as well. *)
LEMMA SaidMore ==
    ASSUME NEW c, NEW P, NEW d, NEW Q, NEW s, NEW K, Agrees(c, P, s, K),
           \A r \in Reasons : \A v \in Kinds : Said(c, P, v, r) => Said(d, Q, v, r)
    PROVE  Agrees(d, Q, s, K)
BY ToldMore DEF Agrees

(* An ordinary row says nothing of a context. *)
LEMMA SaidRow ==
    ASSUME NEW c \in Seq(Rows), NEW P, NEW row \in Ordinary, NEW v \in Kinds, NEW r,
           Said(c, P, v, r)
    PROVE  Said(Append(c, row), P, v, r)
<1>1. row \notin {Mark(Other(v), r)} /\ row \in Rows
  BY MarkTypes DEF Rows
<1>2. QED
  BY <1>1, LitAppended DEF Said

(* A boundary says it of its reason. *)
LEMMA SaidBoundary ==
    ASSUME NEW c \in Seq(Rows), NEW P, NEW w \in Kinds, NEW q \in Reasons,
           NEW v \in Kinds, NEW r
    PROVE  /\ r # q /\ Said(c, P, v, r) => Said(Append(c, Mark(w, q)), P, v, r)
           /\ r = q /\ v = w => Said(Append(c, Mark(w, q)), P, v, r)
           /\ v = w /\ Said(c, P, v, r) => Said(Append(c, Mark(w, q)), P, v, r)
<1>1. Mark(w, q) \in Rows
  BY MarkTypes DEF Rows
<1>2. r # q \/ v = w => Mark(w, q) \notin {Mark(Other(v), r)}
  BY MarkTypes
<1>3. r = q /\ v = w => Mark(w, q) \in {Mark(v, r)}
  OBVIOUS
<1>4. QED
  BY <1>1, <1>2, <1>3, LitAppended DEF Said

(* What the policy takes is what it was told. *)
TakenBy(row, P) ==
    CASE row.kind = "entered" -> P \cup {row.reason}
      [] row.kind = "exited"  -> P \ {row.reason}
      [] OTHER                -> P

LEMMA Takes ==
    ASSUME NEW row \in Rows, NEW P, NEW v \in Kinds, NEW r
    PROVE  row \in {Mark(v, r)} \/ (((v = "entered") <=> (r \in P)) /\ row \notin {Mark(Other(v), r)})
              => ((v = "entered") <=> (r \in TakenBy(row, P)))
<1>1. CASE row \in Ordinary
  <2>1. row.kind = "row" /\ row \notin {Mark(v, r)}
    BY <1>1, MarkTypes DEF Ordinary
  <2>2. TakenBy(row, P) = P
    BY <2>1 DEF TakenBy
  <2>3. QED
    BY <2>1, <2>2
<1>2. CASE row \in Boundary
  <2>1. row.kind \in Kinds /\ row = Mark(row.kind, row.reason)
    BY <1>2, MarkTypes
  <2>2. row \in {Mark(v, r)} => row.kind = v /\ row.reason = r
    BY MarkTypes
  <2>3. row \notin {Mark(Other(v), r)} => row.kind = v \/ row.reason # r
    BY <2>1 DEF Kinds, Other
  <2>4. CASE row.kind = "entered"
    BY <2>2, <2>3, <2>4 DEF TakenBy, Kinds
  <2>5. CASE row.kind = "exited"
    BY <2>2, <2>3, <2>5 DEF TakenBy, Kinds
  <2>6. QED
    BY <2>1, <2>4, <2>5 DEF Kinds
<1>3. QED
  BY <1>1, <1>2 DEF Rows

(* The policy takes what comes next: what was told stays told. *)
LEMMA SaidTaken ==
    ASSUME NEW c \in Seq(Rows), c # <<>>, NEW P, NEW v \in Kinds, NEW r, Said(c, P, v, r)
    PROVE  Said(Tail(c), TakenBy(Head(c), P), v, r)
<1>1. Head(c) \in Rows
  BY HeadTailProperties
<1>2. QED
  BY <1>1, Takes, LitTaken DEF Said

(* Boundaries that wait may be put into the channel, in order. *)
LEMMA AgreesSent ==
    ASSUME NEW c \in Seq(Rows), NEW P, NEW sent \in Seq(Boundary), NEW left \in Seq(Boundary),
           NEW K, Agrees(c, P, sent \o left, K)
    PROVE  Agrees(c \o sent, P, left, K)
<1> SUFFICES ASSUME NEW r \in Reasons, NEW v \in Kinds, ToldBy(c, P, sent \o left, v, r)
             PROVE  ToldBy(c \o sent, P, left, v, r)
  BY DEF Agrees
<1> DEFINE On == {Mark(v, r)}
           Off == {Mark(Other(v), r)}
           has == (v = "entered") <=> (r \in P)
<1>1. sent \in Seq(Rows)
  BY SeqMonotonic DEF Rows
<1>2. Said(c, P, v, r) \in BOOLEAN
  BY SaidBoolean
<1>3. LitAfter(left, LitAfter(sent, Said(c, P, v, r), On, Off), On, Off)
  BY <1>2, LitSplit DEF ToldBy
<1>4. LitAfter(sent, Said(c, P, v, r), On, Off) <=> LitAfter(c \o sent, has, On, Off)
  <2>1. has \in BOOLEAN
    OBVIOUS
  <2>2. Said(c, P, v, r) = LitAfter(c, has, On, Off)
    BY DEF Said
  <2> HIDE DEF has, On, Off
  <2>3. QED
    BY <1>1, <2>1, <2>2, LitSplit
<1>5. LitAfter(sent, Said(c, P, v, r), On, Off) = Said(c \o sent, P, v, r)
  <2>1. LitAfter(sent, Said(c, P, v, r), On, Off) \in BOOLEAN
    BY LitIsBoolean DEF LitAfter
  <2>2. Said(c \o sent, P, v, r) \in BOOLEAN
    BY SaidBoolean
  <2>3. QED
    BY <1>4, <2>1, <2>2 DEF Said
<1>6. QED
  BY <1>3, <1>5 DEF ToldBy

(* One more boundary waits, and says so of its reason. *)
LEMMA AgreesQueued ==
    ASSUME NEW c, NEW P, NEW s \in Seq(Boundary), NEW w \in Kinds, NEW q \in Reasons, NEW K, NEW L,
           Agrees(c, P, s, K),
           \A r \in Reasons : r # q => (r \in L <=> r \in K),
           (w = "entered") <=> (q \in L)
    PROVE  Agrees(c, P, Append(s, Mark(w, q)), L)
<1> SUFFICES ASSUME NEW r \in Reasons, NEW v \in Kinds, (v = "entered") <=> (r \in L)
             PROVE  ToldBy(c, P, Append(s, Mark(w, q)), v, r)
  BY DEF Agrees
<1>1. Mark(w, q) \in Boundary /\ Said(c, P, v, r) \in BOOLEAN
  BY MarkTypes, SaidBoolean
<1>2. CASE r = q
  <2>1. v = w
    BY <1>2 DEF Kinds
  <2>2. QED
    BY <1>1, <1>2, <2>1, LitAppended DEF ToldBy
<1>3. CASE r # q
  <2>1. ToldBy(c, P, s, v, r)
    BY <1>3 DEF Agrees
  <2>2. Mark(w, q) \notin {Mark(Other(v), r)}
    BY <1>3, MarkTypes
  <2>3. QED
    BY <1>1, <2>1, <2>2, LitAppended DEF ToldBy
<1>4. QED
  BY <1>2, <1>3

(* A boundary overtakes those that wait, none of which is of its reason. *)
LEMMA AgreesOvertaken ==
    ASSUME NEW c \in Seq(Rows), NEW P, NEW s \in Seq(Boundary), NEW w \in Kinds, NEW q \in Reasons,
           NEW K, NEW L, Agrees(c, P, s, K),
           \A r \in Reasons : r # q => (r \in L <=> r \in K),
           (w = "entered") <=> (q \in L),
           \A k \in 1 .. Len(s) : s[k].reason # q
    PROVE  Agrees(Append(c, Mark(w, q)), P, s, L)
<1> SUFFICES ASSUME NEW r \in Reasons, NEW v \in Kinds, (v = "entered") <=> (r \in L)
             PROVE  ToldBy(Append(c, Mark(w, q)), P, s, v, r)
  BY DEF Agrees
<1>1. CASE r = q
  <2>1. v = w
    BY <1>1 DEF Kinds
  <2>2. Said(Append(c, Mark(w, q)), P, v, r)
    BY <1>1, <2>1, SaidBoundary
  <2>3. LitAfter(s, TRUE, {Mark(v, r)}, {Mark(Other(v), r)})
    <3>1. \A k \in 1 .. Len(s) : s[k] \notin {Mark(Other(v), r)}
      BY <1>1, MarkTypes
    <3>2. QED
      BY <3>1 DEF LitAfter, Lit
  <2>4. QED
    BY <2>2, <2>3, SaidBoolean DEF ToldBy
<1>2. CASE r # q
  <2>1. ToldBy(c, P, s, v, r)
    BY <1>2 DEF Agrees
  <2>2. QED
    BY <1>2, <2>1, SaidBoundary, ToldMore
<1>3. QED
  BY <1>1, <1>2

-----------------------------------------------------------------------------
(* Where nothing is told and nothing is learnt, the policy follows on. *)
LEMMA FollowsOn ==
    ASSUME PolicyFollows, UNCHANGED <<chan, policy, queue, unreconciled>>, Known' = Known,
           Trusted' => Trusted /\ pump'.pc # "reconcile",
           Answering' => Answering /\ pump'.rows = pump.rows
    PROVE  PolicyFollows'
BY DEF PolicyFollows

(* The row that the channel gets is an ordinary one, or it gets none. *)
LEMMA RowSaid ==
    ASSUME TypeOK, NEW p \in Producers, SendRow(p)
    PROVE  \A v \in Kinds : \A r \in Reasons :
              Said(chan, policy, v, r) => Said(chan', policy', v, r)
<1>1. policy' = policy
  BY DEF SendRow
<1>2. CASE Room
  <2>1. PICK row \in Ordinary : chan' = Append(chan, row)
    <3>1. [kind |-> "row", hot |-> hand[p].hot, restored |-> hand[p].restored] \in Ordinary
      BY DEF TypeOK, Ordinary
    <3>2. QED
      BY <1>2, <3>1 DEF SendRow
  <2>2. QED
    BY <1>1, <2>1, Plain, SaidRow DEF Rows
<1>3. CASE ~Room
  BY <1>1, <1>3 DEF SendRow
<1>4. QED
  BY <1>2, <1>3

LEMMA TakeSaid ==
    ASSUME TypeOK, TakeRow
    PROVE  \A v \in Kinds : \A r \in Reasons :
              Said(chan, policy, v, r) => Said(chan', policy', v, r)
<1>1. chan # <<>> /\ chan' = Tail(chan) /\ policy' = TakenBy(Head(chan), policy)
  BY DEF TakeRow, TakenBy
<1>2. QED
  BY <1>1, Plain, SaidTaken DEF Rows

(* The policy agrees after every step. *)
LEMMA PolicyStep ==
    ASSUME TypeOK, WithinCapacity, Guarded, Resuming, Quiet, Boundaries, PolicyFollows, [Next]_vars
    PROVE  PolicyFollows'
<1>1. CASE BeginTransition
  <2>1. Known' = Known
    BY <1>1 DEF BeginTransition, Known, InForce, Moving, PumpFree, Idle, contexts
  <2>2. Trusted' => Trusted
    BY <1>1, Plain DEF BeginTransition, Announce, Trusted, Answered, Resuming, gates, reseeds
  <2>3. pump'.pc = "lock"
    BY <1>1 DEF BeginTransition
  <2>4. QED
    BY <1>1, <2>1, <2>2, <2>3, FollowsOn DEF BeginTransition, contexts, Answering, Asked
<1>2. CASE ChangeContext
  <2>1. pump'.pc = "defer" /\ pump'.row = pump.row /\ pump.row \in Boundary
    BY <1>2, Carried DEF ChangeContext
  <2>2. Known' = Known
    <3>1. \A r : r # pump.row.reason => (r \in active' <=> r \in active)
      BY <1>2 DEF ChangeContext
    <3>2. pump.row.reason \in Contexts /\ pump.row.reason # Password
      BY <1>2, GateConstants DEF ChangeContext, Boundaries, OwnBoundary
    <3>3. (pump.row.reason \in active') <=> (pump.row.reason \notin active)
      BY <1>2 DEF ChangeContext, Boundaries
    <3>4. monitor' = monitor /\ confirmed' = confirmed
      BY <1>2 DEF ChangeContext
    <3>5. Moving(pump)' /\ ~Moving(pump)
      BY <1>2, <2>1 DEF ChangeContext, Moving
    <3> SUFFICES ASSUME NEW r \in Reasons PROVE (r \in Known') <=> (r \in Known)
      BY DEF Known
    <3>6. CASE r = pump.row.reason
      BY <2>1, <3>2, <3>3, <3>4, <3>5, <3>6 DEF Known, InForce, Moving
    <3>7. CASE r # pump.row.reason
      BY <2>1, <3>1, <3>4, <3>5, <3>7 DEF Known, InForce, Moving
    <3>8. QED
      BY <3>6, <3>7
  <2>3. Trusted' => Trusted
    BY <1>2 DEF ChangeContext, Trusted, Answered, gates, reseeds
  <2>4. QED
    BY <1>2, <2>1, <2>2, <2>3, FollowsOn DEF ChangeContext, Answering, Asked
<1>3. CASE DeferTransition
  <2>1. CASE ShouldDefer
    <3>1. guard = "pump"
      BY <1>3 DEF DeferTransition, Guarded, Moving
    <3>2. ~Trusted
      BY <1>3, <2>1, <3>1, Carried
         DEF DeferTransition, Trusted, Answered, ShouldDefer, Guarded, Resuming, Quiet
    <3>3. ~Trusted' /\ ~Answering'
      BY <1>3, <2>1, <3>2
         DEF DeferTransition, Trusted, Answered, Answering, Asked, Idle, gates, reseeds
    <3>4. QED
      BY <3>3 DEF PolicyFollows
  <2>2. CASE ~ShouldDefer
    <3>1. pump'.pc = "send" /\ pump'.row = pump.row
      BY <1>3, <2>2, Carried DEF DeferTransition
    <3>2. Known' = Known
      BY <1>3, <3>1 DEF DeferTransition, Known, InForce, Moving
    <3>3. Trusted' => Trusted
      BY <1>3 DEF DeferTransition, Trusted, Answered, gates, reseeds
    <3>4. QED
      BY <1>3, <2>2, <3>1, <3>2, <3>3, FollowsOn DEF DeferTransition, Answering, Asked
  <2>3. QED
    BY <2>1, <2>2
<1>4. CASE SendTransition
  <2> DEFINE b == Append(queue, pump.row)
  <2>1. /\ pump.row \in Boundary /\ pump.row.kind \in Kinds /\ pump.row.reason \in Reasons
        /\ pump.row = Mark(pump.row.kind, pump.row.reason)
        /\ queue \in Seq(Boundary) /\ chan \in Seq(Rows) /\ b \in Seq(Boundary)
    BY <1>4, Plain, MarkTypes DEF SendTransition, Boundaries, OwnBoundary, Rows
  <2>2. pump'.pc = "idle" /\ policy' = policy
    BY <1>4 DEF SendTransition, Idle
  <2>3. \A r \in Reasons : r # pump.row.reason => (r \in Known' <=> r \in Known)
    BY <1>4, <2>2 DEF SendTransition, Known, InForce, Moving
  <2>4. (pump.row.kind = "entered") <=> (pump.row.reason \in Known')
    <3>1. pump.row.reason \in Contexts /\ pump.row.reason # Password
          /\ (pump.row.kind = "entered" <=> pump.row.reason \in active)
      BY <1>4, GateConstants DEF SendTransition, Boundaries, OwnBoundary, Moving
    <3>2. QED
      BY <1>4, <2>1, <2>2, <3>1 DEF SendTransition, Known, InForce, Moving
  <2>5. Trusted' => Trusted /\ unreconciled' = unreconciled
    BY <1>4 DEF SendTransition, Trusted, Answered, gates, reseeds
  <2>6. ASSUME Trusted PROVE Agrees(chan', policy', queue', Known')
    <3>1. Agrees(chan, policy, queue, Known)
      BY <2>6 DEF PolicyFollows
    <3> DEFINE K == Known
               L == Known'
    <3>2. (\A r \in Reasons : r # pump.row.reason => (r \in L <=> r \in K))
          /\ ((pump.row.kind = "entered") <=> (pump.row.reason \in L))
      BY <2>3, <2>4
    <3> HIDE DEF K, L
    <3>3. Agrees(chan, policy, queue, K)
      BY <3>1 DEF K
    <3>4. Agrees(chan, policy, Append(queue, Mark(pump.row.kind, pump.row.reason)), L)
      BY <2>1, <3>2, <3>3, AgreesQueued
    <3>5. Agrees(chan, policy, b, L)
      BY <2>1, <3>4
    <3>6. SendOrQueue(b)
      BY <1>4 DEF SendTransition
    <3> HIDE DEF b
    <3>7. PICK sent, left \in Seq(Boundary) :
             b = sent \o left /\ chan' = chan \o sent /\ queue' = left
      <4>1. b \in Seq(Boundary)
        BY <2>1
      <4>2. QED
        BY <4>1, <3>6, Sends
    <3>8. Agrees(chan', policy, queue', L)
      BY <2>1, <3>5, <3>7, AgreesSent
    <3>9. QED
      BY <2>2, <3>8 DEF L
  <2>7. QED
    BY <2>2, <2>5, <2>6 DEF PolicyFollows, Answering, Asked
<1>5. CASE FlushQueue
  <2>1. pump.pc = "idle" /\ pump' = pump /\ queue # <<>> /\ policy' = policy
    BY <1>5 DEF FlushQueue, PumpFree, Idle
  <2>2. Trusted' => Trusted
    BY <1>5 DEF FlushQueue, Trusted, Answered, gates, reseeds
  <2>3. Known' = Known
    BY <1>5 DEF FlushQueue, Known, InForce, Moving
  <2>4. CASE ShouldDefer
    <3>1. ~Trusted
      BY <2>1, <2>4, Carried DEF Trusted, Answered, ShouldDefer, Resuming, Quiet
    <3>2. QED
      BY <2>1, <2>2, <3>1 DEF PolicyFollows, Answering, Asked
  <2>5. CASE ~ShouldDefer
    <3>1. SendOrQueue(queue) /\ unreconciled' = unreconciled
      BY <1>5, <2>5 DEF FlushQueue
    <3>2. queue \in Seq(Boundary) /\ chan \in Seq(Rows)
      BY Plain DEF Rows
    <3>3. PICK sent, left \in Seq(Boundary) :
             queue = sent \o left /\ chan' = chan \o sent /\ queue' = left
      <4> DEFINE b == queue
      <4>1. b \in Seq(Boundary) /\ SendOrQueue(b)
        BY <3>1, <3>2
      <4> HIDE DEF b
      <4>2. \E sent, left \in Seq(Boundary) :
               b = sent \o left /\ chan' = chan \o sent /\ queue' = left
        BY <4>1, Sends
      <4>3. QED
        BY <4>2 DEF b
    <3>4. ASSUME Agrees(chan, policy, queue, Known) PROVE Agrees(chan', policy', queue', Known')
      <4> DEFINE K == Known
      <4>1. Agrees(chan, policy, sent \o left, K)
        BY <3>3, <3>4
      <4> HIDE DEF K
      <4>2. Agrees(chan', policy', queue', K)
        BY <2>1, <3>2, <3>3, <4>1, AgreesSent
      <4>3. QED
        BY <2>3, <4>2 DEF K
    <3>5. QED
      BY <2>1, <2>2, <3>1, <3>4 DEF PolicyFollows, Answering, Asked
  <2>6. QED
    BY <2>4, <2>5
<1>6. CASE MonitorSamples
  <2>1. Known' = Known
    BY <1>6 DEF MonitorSamples, Known, InForce, Moving, Idle, contexts
  <2>2. Trusted' => Trusted
    BY <1>6, Plain DEF MonitorSamples, Announce, Trusted, Answered, Resuming, gates, reseeds
  <2>3. ~Answering'
    BY <1>6, Plain, Carried DEF MonitorSamples, Announce, Answering, Asked, Resuming
  <2>4. QED
    BY <1>6, <2>1, <2>2, <2>3, FollowsOn DEF MonitorSamples, PolicyFollows, contexts
<1>7. CASE MonitorSwaps
  <2>1. Known' = Known
    <3>1. CASE confirmed = monitor.sample
      BY <1>7, <3>1 DEF MonitorSwaps, Known, InForce, Moving, Idle
    <3>2. CASE confirmed # monitor.sample
      <4>1. monitor'.pc = "defer"
        BY <1>7, <3>2, Carried DEF MonitorSwaps
      <4>2. confirmed' = ~confirmed /\ confirmed \in BOOLEAN
        BY <1>7, <3>2, Carried, Plain DEF MonitorSwaps
      <4>3. active' = active /\ pump' = pump /\ Password \notin active
        BY <1>7, Plain, GateConstants DEF MonitorSwaps
      <4>4. pump.row.reason # Password \/ ~Moving(pump)
        BY GateConstants DEF Boundaries, OwnBoundary, Moving
      <4>5. Moving(monitor)' /\ ~Moving(monitor)
        BY <1>7, <4>1 DEF MonitorSwaps, Moving
      <4> SUFFICES ASSUME NEW r \in Reasons PROVE (r \in Known') <=> (r \in Known)
        BY DEF Known
      <4>6. CASE r = Password
        BY <4>2, <4>3, <4>4, <4>5, <4>6 DEF Known, InForce, Moving
      <4>7. CASE r # Password
        BY <4>3, <4>7 DEF Known, InForce, Moving
      <4>8. QED
        BY <4>6, <4>7
    <3>3. QED
      BY <3>1, <3>2
  <2>2. Trusted' => Trusted
    BY <1>7 DEF MonitorSwaps, Trusted, Answered, gates, reseeds
  <2>3. Answering' => Answering /\ pump'.rows = pump.rows
    BY <1>7 DEF MonitorSwaps, Answering, Asked
  <2>4. QED
    BY <1>7, <2>1, <2>2, <2>3, FollowsOn DEF MonitorSwaps, PolicyFollows
<1>8. CASE MonitorDefers
  <2>1. guard = "monitor" /\ pump' = pump /\ ~Asked /\ generation' = generation
    BY <1>8 DEF MonitorDefers, Guarded, Moving
  <2>2. CASE ShouldDefer
    <3>1. ~Trusted
      BY <1>8, <2>1, <2>2, Carried
         DEF MonitorDefers, Trusted, Answered, ShouldDefer, Guarded, Resuming, Quiet
    <3>2. ~Trusted' /\ ~Answering'
      BY <1>8, <2>1, <3>1 DEF MonitorDefers, Trusted, Answered, Answering, Asked, gates, reseeds
    <3>3. QED
      BY <3>2 DEF PolicyFollows
  <2>3. CASE ~ShouldDefer
    <3>1. monitor'.pc = "send"
      BY <1>8, <2>3, Carried DEF MonitorDefers
    <3>2. Known' = Known
      BY <1>8, <3>1 DEF MonitorDefers, Known, InForce, Moving, contexts
    <3>3. Trusted' => Trusted
      BY <1>8 DEF MonitorDefers, Trusted, Answered, gates, reseeds
    <3>4. QED
      BY <1>8, <2>1, <2>3, <3>2, <3>3, FollowsOn
         DEF MonitorDefers, PolicyFollows, Answering, Asked, contexts
  <2>4. QED
    BY <2>2, <2>3
<1>9. CASE MonitorSends
  <2>1. /\ guard = "monitor" /\ pump' = pump /\ ~Asked /\ generation' = generation
        /\ queue' = queue /\ policy' = policy /\ unreconciled' = unreconciled /\ active' = active
        /\ monitor.pc = "send" /\ monitor'.pc = "idle"
    BY <1>9 DEF MonitorSends, Guarded, Moving, Idle
  <2>2. Trusted' => Trusted
    BY <1>9 DEF MonitorSends, Trusted, Answered, gates, reseeds
  <2>3. /\ Password \in Reasons /\ Password \notin active /\ confirmed \in BOOLEAN
        /\ pump.row.reason # Password \/ ~Moving(pump)
    BY Plain, GateConstants, BoundariesTyped DEF Boundaries, OwnBoundary, Moving
  <2>4. \A r \in Reasons : r # Password => (r \in Known' <=> r \in Known)
    BY <2>1 DEF Known, InForce, Moving
  <2>5. ASSUME Trusted PROVE Agrees(chan', policy', queue', Known')
    <3>1. Agrees(chan, policy, queue, Known)
      BY <2>5 DEF PolicyFollows
    <3>2. CASE Room
      <4> DEFINE w == IF confirmed THEN "entered" ELSE "exited"
      <4>1. confirmed' = confirmed /\ chan' = Append(chan, Mark(w, Password))
        BY <1>9, <3>2 DEF MonitorSends, Entered, Exited, Mark
      <4>2. (w = "entered") <=> (Password \in Known')
        BY <2>1, <2>3, <4>1 DEF Known, InForce, Moving
      <4>3. w \in Kinds
        BY DEF Kinds
      <4>4. \A k \in 1 .. Len(queue) : queue[k].reason # Password
        BY GateConstants DEF Boundaries, OwnBoundary
      <4>5. chan \in Seq(Rows) /\ queue \in Seq(Boundary)
        BY Plain DEF Rows
      <4> DEFINE K == Known
                 L == Known'
      <4>6. (\A r \in Reasons : r # Password => (r \in L <=> r \in K))
            /\ ((w = "entered") <=> (Password \in L))
        BY <2>4, <4>2
      <4> HIDE DEF K, L, w
      <4>7. Agrees(chan, policy, queue, K)
        BY <3>1 DEF K
      <4>8. Agrees(Append(chan, Mark(w, Password)), policy, queue, L)
        BY <2>3, <4>3, <4>4, <4>5, <4>6, <4>7, AgreesOvertaken
      <4>9. QED
        BY <2>1, <4>1, <4>8 DEF L
    <3>3. CASE ~Room
      <4>1. chan' = chan /\ confirmed' = ~confirmed
        BY <1>9, <3>3 DEF MonitorSends
      <4>2. (Password \in Known') <=> (Password \in Known)
        BY <2>1, <2>3, <4>1 DEF Known, InForce, Moving
      <4>3. Known' = Known
        BY <2>4, <4>2 DEF Known
      <4>4. QED
        BY <2>1, <3>1, <4>1, <4>3
    <3>4. QED
      BY <3>2, <3>3
  <2>6. QED
    BY <2>1, <2>2, <2>5 DEF PolicyFollows, Answering, Asked
<1>10. ASSUME NEW p \in Producers, CheckRow(p) PROVE PolicyFollows'
  <2>1. Known' = Known
    BY <1>10 DEF CheckRow, Known, InForce, Moving, contexts
  <2>2. Trusted' => Trusted
    BY <1>10, Carried DEF CheckRow, Trusted, Answered, gates, reseeds
  <2>3. Answering' => Answering /\ pump'.rows = pump.rows
    BY <1>10, Carried DEF CheckRow, Answering, Asked
  <2>4. QED
    BY <1>10, <2>1, <2>2, <2>3, FollowsOn DEF CheckRow, PolicyFollows, contexts
<1>11. ASSUME NEW p \in Producers, SendRow(p) PROVE PolicyFollows'
  <2>1. \A v \in Kinds : \A r \in Reasons :
           Said(chan, policy, v, r) => Said(chan', policy', v, r)
    BY <1>11, RowSaid
  <2>2. Known' = Known
    BY <1>11 DEF SendRow, Known, InForce, Moving, contexts
  <2>3. Trusted' = Trusted /\ Answering' = Answering
    BY <1>11 DEF SendRow, Trusted, Answered, Answering, Asked, gates, reseeds
  <2>4. queue' = queue /\ unreconciled' = unreconciled /\ pump' = pump
    BY <1>11 DEF SendRow, contexts
  <2>5. \A q : Agrees(chan, policy, q, Known) => Agrees(chan', policy', q, Known)
    BY <2>1, SaidMore
  <2>6. QED
    BY <2>2, <2>3, <2>4, <2>5 DEF PolicyFollows
<1>12. CASE TakeRow
  <2>1. \A v \in Kinds : \A r \in Reasons :
           Said(chan, policy, v, r) => Said(chan', policy', v, r)
    BY <1>12, TakeSaid
  <2>2. Known' = Known
    BY <1>12 DEF TakeRow, Known, InForce, Moving, contexts
  <2>3. Trusted' = Trusted /\ Answering' = Answering
    BY <1>12 DEF TakeRow, Trusted, Answered, Answering, Asked, gates, reseeds
  <2>4. queue' = queue /\ unreconciled' = unreconciled /\ pump' = pump
    BY <1>12 DEF TakeRow, contexts
  <2>5. \A q : Agrees(chan, policy, q, Known) => Agrees(chan', policy', q, Known)
    BY <2>1, SaidMore
  <2>6. QED
    BY <2>2, <2>3, <2>4, <2>5 DEF PolicyFollows
<1>13. ASSUME NEW by \in Suspenders, Suspend(by) PROVE PolicyFollows'
  <2>1. Known' = Known
    BY <1>13 DEF Suspend, Known, InForce, Moving, contexts
  <2>2. Trusted' => Trusted
    BY <1>13, Carried DEF Suspend, Trusted, Answered, gates, reseeds
  <2>3. Answering' => Answering /\ pump'.rows = pump.rows
    BY <1>13, Carried DEF Suspend, Answering, Asked
  <2>4. QED
    BY <1>13, <2>1, <2>2, <2>3, FollowsOn DEF Suspend, PolicyFollows, contexts
<1>14. CASE RestoreAfterRecording
  <2>1. Known' = Known
    BY <1>14 DEF RestoreAfterRecording, Known, InForce, Moving, contexts
  <2>2. Trusted' => Trusted
    BY <1>14, Carried DEF RestoreAfterRecording, Trusted, Answered, gates, reseeds
  <2>3. Answering' => Answering /\ pump'.rows = pump.rows
    BY <1>14, Carried DEF RestoreAfterRecording, Answering, Asked
  <2>4. QED
    BY <1>14, <2>1, <2>2, <2>3, FollowsOn DEF RestoreAfterRecording, PolicyFollows, contexts
<1>15. CASE BeginResume
  <2>1. Known' = Known
    BY <1>15 DEF BeginResume, Known, InForce, Moving, contexts
  <2>2. Trusted' => Trusted
    BY <1>15, Carried DEF BeginResume, Trusted, Answered, gates, reseeds
  <2>3. Answering' => Answering /\ pump'.rows = pump.rows
    BY <1>15, Carried DEF BeginResume, Answering, Asked
  <2>4. QED
    BY <1>15, <2>1, <2>2, <2>3, FollowsOn DEF BeginResume, PolicyFollows, contexts
<1>16. CASE RequestReconcile
  <2>1. Known' = Known
    BY <1>16 DEF RequestReconcile, Known, InForce, Moving, contexts
  <2>2. Trusted' => Trusted
    BY <1>16, Carried DEF RequestReconcile, Trusted, Answered, gates, reseeds
  <2>3. Answering' => Answering /\ pump'.rows = pump.rows
    BY <1>16, Carried DEF RequestReconcile, Answering, Asked
  <2>4. QED
    BY <1>16, <2>1, <2>2, <2>3, FollowsOn DEF RequestReconcile, PolicyFollows, contexts
<1>17. CASE ReplyLate
  <2>1. Known' = Known
    BY <1>17 DEF ReplyLate, Known, InForce, Moving, contexts
  <2>2. Trusted' => Trusted
    BY <1>17, Carried, TriesNext DEF ReplyLate, Trusted, Answered, gates, reseeds, Retries
  <2>3. Answering' => Answering /\ pump'.rows = pump.rows
    BY <1>17, Carried DEF ReplyLate, Answering, Asked
  <2>4. QED
    BY <1>17, <2>1, <2>2, <2>3, FollowsOn DEF ReplyLate, PolicyFollows, contexts
<1>18. CASE DrainForwarder
  <2>1. Known' = Known
    BY <1>18 DEF DrainForwarder, Known, InForce, Moving, contexts
  <2>2. Trusted' => Trusted
    BY <1>18, Carried, TriesNext DEF DrainForwarder, Trusted, Answered, gates, reseeds, Retries
  <2>3. Answering' => Answering /\ pump'.rows = pump.rows
    BY <1>18, Carried DEF DrainForwarder, Answering, Asked
  <2>4. QED
    BY <1>18, <2>1, <2>2, <2>3, FollowsOn DEF DrainForwarder, PolicyFollows, contexts
<1>19. CASE VerifyGeneration
  <2>1. Known' = Known
    BY <1>19 DEF VerifyGeneration, Known, InForce, Moving, contexts
  <2>2. Trusted' => Trusted
    <3>1. CASE NextTry
      BY <1>19, <3>1, TriesNext DEF VerifyGeneration, Trusted, Answered, Retries, reseeds
    <3>2. CASE Unchallenged
      BY <1>19, <3>2 DEF VerifyGeneration, Trusted, Answered, Unchallenged
    <3>3. QED
      BY <1>19, <3>1, <3>2 DEF VerifyGeneration
  <2>3. Answering' => Answering /\ pump'.rows = pump.rows
    BY <1>19, Carried DEF VerifyGeneration, Answering, Asked
  <2>4. QED
    BY <1>19, <2>1, <2>2, <2>3, FollowsOn DEF VerifyGeneration, PolicyFollows, contexts
<1>20. CASE LiftSuspension
  <2>1. Known' = Known
    BY <1>20 DEF LiftSuspension, Known, InForce, Moving, contexts
  <2>2. Trusted' => Trusted
    BY <1>20, Carried DEF LiftSuspension, Trusted, Answered, gates, reseeds
  <2>3. Answering' => Answering /\ pump'.rows = pump.rows
    BY <1>20, Carried DEF LiftSuspension, Answering, Asked
  <2>4. QED
    BY <1>20, <2>1, <2>2, <2>3, FollowsOn DEF LiftSuspension, PolicyFollows, contexts
<1>21. CASE LowerBarrier
  <2>1. Known' = Known
    BY <1>21 DEF LowerBarrier, Known, InForce, Moving, contexts
  <2>2. Trusted' => Trusted
    BY <1>21, Carried DEF LowerBarrier, Trusted, Answered, gates, reseeds
  <2>3. Answering' => Answering /\ pump'.rows = pump.rows
    BY <1>21, Carried DEF LowerBarrier, Answering, Asked
  <2>4. QED
    BY <1>21, <2>1, <2>2, <2>3, FollowsOn DEF LowerBarrier, PolicyFollows, contexts
<1>22. CASE BeginReconcile
  <2>1. ~Trusted /\ requests > 0 /\ pump = Idle /\ requests \in Nat
    BY <1>22, Plain DEF BeginReconcile, Trusted, Answered, Resuming, PumpFree
  <2>2. /\ generation' = generation /\ suspended' = suspended /\ chan' = chan /\ policy' = policy
        /\ active' = active /\ confirmed' = confirmed /\ monitor' = monitor /\ restored' = restored
    BY <1>22 DEF BeginReconcile, reseeds
  <2>3. suspended' # "none"
    BY <1>22, <2>1, <2>2 DEF BeginReconcile, Resuming
  <2>4. CASE TransitionActive
    <3>1. Answer(FALSE) /\ pump' = pump
      BY <1>22, <2>4 DEF BeginReconcile
    <3>2. worker' = worker \/ Retries
      BY <3>1, Answers
    <3>3. ~Trusted' /\ ~Answering'
      BY <2>1, <2>2, <2>3, <3>1, <3>2 DEF Trusted, Answered, Answering, Asked, Idle, Retries
    <3>4. QED
      BY <3>3 DEF PolicyFollows
  <2>5. CASE ~TransitionActive
    <3>1. /\ worker' = worker /\ ~unreconciled'
          /\ pump' = [pc |-> "reconcile", rows |-> Reconciliation, asked |-> TRUE,
                      generation |-> generation]
      BY <1>22, <2>5 DEF BeginReconcile
    <3>2. ~Trusted'
      BY <2>1, <2>2, <2>3, <3>1 DEF Trusted, Answered
    <3>3. Known' = InForce
      <4>1. ~Moving(pump') /\ ~Moving(monitor') /\ InForce' = InForce
        BY <2>2, <2>5, <3>1, Carried DEF Moving, TransitionActive, InForce
      <4>2. InForce \subseteq Reasons
        BY Plain DEF InForce, Reasons
      <4>3. QED
        BY <4>1, <4>2 DEF Known, Moving
    <3>4. Agrees(chan, policy, Reconciliation, InForce)
      BY Reconciles, SaidBoolean DEF Agrees, ToldBy
    <3>5. pump'.rows = Reconciliation
      BY <3>1
    <3>6. QED
      BY <2>2, <3>1, <3>2, <3>3, <3>4, <3>5 DEF PolicyFollows
  <2>6. QED
    BY <2>4, <2>5
<1>23. CASE SendReconciled
  <2>1. /\ pump.pc = "reconcile" /\ pump.rows # <<>> /\ pump.rows \in Seq(Boundary)
        /\ chan' = Append(chan, Head(pump.rows)) /\ pump'.rows = Tail(pump.rows)
        /\ pump'.pc = "reconcile" /\ pump'.asked = pump.asked /\ pump'.generation = pump.generation
        /\ policy' = policy /\ queue' = queue /\ unreconciled' = unreconciled
        /\ generation' = generation
    BY <1>23, Carried DEF SendReconciled, contexts
  <2>2. Known' = Known
    BY <1>23, <2>1 DEF SendReconciled, Known, InForce, Moving, contexts
  <2>3. ~Trusted'
    BY <1>23, <2>1 DEF SendReconciled, Trusted, Answered, PolicyFollows, gates, reseeds
  <2>4. ASSUME Answering PROVE Agrees(chan', policy', pump'.rows, Known')
    <3> DEFINE K == Known
    <3>1. Agrees(chan, policy, pump.rows, K)
      BY <2>4 DEF PolicyFollows
    <3> HIDE DEF K
    <3>2. /\ Head(pump.rows) \in Boundary /\ Tail(pump.rows) \in Seq(Boundary)
          /\ <<Head(pump.rows)>> \in Seq(Boundary)
          /\ pump.rows = <<Head(pump.rows)>> \o Tail(pump.rows)
      BY <2>1, HeadTailProperties
    <3>3. chan \in Seq(Rows)
      BY Plain DEF Rows
    <3>4. Agrees(chan \o <<Head(pump.rows)>>, policy, Tail(pump.rows), K)
      BY <3>1, <3>2, <3>3, AgreesSent
    <3>5. chan \o <<Head(pump.rows)>> = chan'
      BY <2>1, <3>2, <3>3 DEF Rows
    <3>6. QED
      BY <2>1, <2>2, <3>4, <3>5 DEF K
  <2>5. Answering' => Answering
    BY <2>1 DEF Answering, Asked
  <2>6. QED
    BY <2>1, <2>3, <2>4, <2>5 DEF PolicyFollows
<1>24. CASE EndReconcile
  <2>1. /\ pump.pc = "reconcile" /\ pump.rows = <<>> /\ pump'.pc = "idle" /\ policy' = policy
        /\ chan' = chan /\ queue' = queue /\ unreconciled' = unreconciled /\ monitor' = monitor
        /\ generation' = generation /\ suspended' = suspended /\ restored' = restored
    BY <1>24 DEF EndReconcile, Idle, contexts, reseeds
  <2>2. Known' = Known /\ ~Trusted /\ ~Answering'
    BY <1>24, <2>1
       DEF EndReconcile, Known, InForce, Moving, contexts, PolicyFollows, Answering, Asked
  <2>3. CASE ~Trusted'
    BY <2>2, <2>3 DEF PolicyFollows
  <2>4. CASE Trusted'
    <3> DEFINE result == ~TransitionActive /\ generation = pump.generation
    <3>1. worker' # worker
      BY <2>1, <2>2, <2>4 DEF Trusted, Answered
    <3>2. pump.asked /\ result \in BOOLEAN /\ Answer(result)
      BY <1>24, <3>1 DEF EndReconcile
    <3>3. suspended' # "none"
      BY <2>1, <3>2 DEF Resuming, Asked
    <3>4. result
      <4> HIDE DEF result
      <4>1. ~Retries
        BY <2>4, <3>3 DEF Trusted, Answered, Retries
      <4>2. QED
        BY <3>1, <3>2, <4>1, Answers
    <3>5. Answering
      BY <2>1, <3>2, <3>4 DEF Answering, Asked
    <3>6. queue = pump.rows
      BY <2>1, <3>5 DEF Quiet
    <3>7. Agrees(chan, policy, queue, Known) /\ ~unreconciled
      BY <3>5, <3>6 DEF PolicyFollows
    <3>8. Agrees(chan', policy', queue', Known')
      BY <2>1, <2>2, <3>7
    <3>9. QED
      BY <2>1, <2>2, <3>7, <3>8 DEF PolicyFollows
  <2>5. QED
    BY <2>3, <2>4
<1>25. CASE Reseed
  <2>1. /\ pump = Idle /\ generation' = generation /\ worker' = worker /\ chan' = chan
        /\ policy' = policy /\ suspended' = suspended /\ restored' = restored
    BY <1>25 DEF Reseed, PumpFree, gates
  <2>2. Trusted' = Trusted
    BY <2>1 DEF Trusted, Answered
  <2>3. CASE unreconciled
    <3>1. pump'.asked = FALSE
      BY <1>25, <2>3 DEF Reseed
    <3>2. QED
      BY <2>2, <2>3, <3>1 DEF PolicyFollows, Answering, Asked
  <2>4. CASE ~unreconciled
    <3>1. pump' = pump /\ queue' = queue /\ ~unreconciled'
      BY <1>25, <2>4 DEF Reseed
    <3>2. Known' = Known
      BY <1>25, <3>1 DEF Reseed, Known, InForce, Moving
    <3>3. ~Answering'
      BY <2>1, <3>1 DEF Answering, Asked, Idle
    <3>4. QED
      BY <2>1, <2>2, <3>1, <3>2, <3>3 DEF PolicyFollows
  <2>5. QED
    BY <2>3, <2>4
<1>26. CASE UNCHANGED vars
  <2>1. Known' = Known /\ Trusted' = Trusted /\ Answering' = Answering
    BY <1>26 DEF vars, Known, InForce, Moving, Trusted, Answered, Answering, Asked, gates, reseeds, contexts
  <2>2. QED
    BY <1>26, <2>1, FollowsOn DEF vars, PolicyFollows, contexts
<1>27. QED
  BY <1>1, <1>2, <1>3, <1>4, <1>5, <1>6, <1>7, <1>8, <1>9, <1>10, <1>11, <1>12, <1>13, <1>14, <1>15, <1>16, <1>17, <1>18, <1>19, <1>20, <1>21, <1>22, <1>23, <1>24, <1>25, <1>26
     DEF Next, Pump, Monitor, Worker, Producers

-----------------------------------------------------------------------------
(* What a step adds to the channel, in boundaries. *)
JoinedBoundaries ==
    \E sent \in Seq(Boundary) : /\ chan' = chan \o sent /\ policy' = policy
                               /\ Len(chan') <= ChannelBound

(* The four ways a step treats the channel and the policy it leads to. *)
Joined == \/ chan' = chan /\ policy' = policy
          \/ JoinedBoundaries
          \/ \E p \in Producers : SendRow(p) /\ Room
          \/ TakeRow

(* What joins the channel. *)
LEMMA Joins ==
    ASSUME TypeOK, WithinCapacity, Boundaries, [Next]_vars
    PROVE  Joined
<1>1. ASSUME NEW b \in Seq(Boundary), SendOrQueue(b), policy' = policy PROVE Joined
  BY <1>1, Sends DEF Joined, JoinedBoundaries
<1>2. ASSUME NEW c \in Boundary, Room, chan' = Append(chan, c), policy' = policy PROVE Joined
  <2>1. chan \in Seq(Rows) /\ c \in Rows /\ <<c>> \in Seq(Boundary) /\ ChannelBound \in Nat
    BY Plain, GateConstants DEF Rows
  <2>2. Append(chan, c) = chan \o <<c>> /\ Len(Append(chan, c)) = Len(chan) + 1
        /\ Len(chan) \in Nat
    BY <2>1
  <2>3. Len(chan') <= ChannelBound
    BY <1>2, <2>1, <2>2 DEF Room
  <2>4. QED
    BY <1>2, <2>1, <2>2, <2>3 DEF Joined, JoinedBoundaries
<1>3. CASE SendTransition
  <2>1. Append(queue, pump.row) \in Seq(Boundary) /\ SendOrQueue(Append(queue, pump.row))
    BY <1>3, Plain DEF SendTransition, Boundaries, OwnBoundary
  <2>2. policy' = policy
    BY <1>3 DEF SendTransition
  <2>3. QED
    BY <1>1, <2>1, <2>2
<1>4. CASE FlushQueue
  <2>1. policy' = policy
    BY <1>4 DEF FlushQueue
  <2>2. CASE ShouldDefer
    BY <1>4, <2>1, <2>2 DEF FlushQueue, Joined
  <2>3. CASE ~ShouldDefer
    <3>1. SendOrQueue(queue) /\ queue \in Seq(Boundary)
      BY <1>4, <2>3, Plain DEF FlushQueue
    <3>2. QED
      BY <1>1, <2>1, <3>1
  <2>4. QED
    BY <2>2, <2>3
<1>5. CASE MonitorSends
  <2>1. policy' = policy
    BY <1>5 DEF MonitorSends
  <2>2. CASE Room
    <3>1. \E c \in Boundary : chan' = Append(chan, c)
      BY <1>5, <2>2, BoundariesTyped DEF MonitorSends
    <3>2. QED
      BY <1>2, <2>1, <2>2, <3>1
  <2>3. CASE ~Room
    BY <1>5, <2>1, <2>3 DEF MonitorSends, Joined
  <2>4. QED
    BY <2>2, <2>3
<1>6. CASE SendReconciled
  <2>1. pump.rows \in Seq(Boundary) /\ pump.rows # <<>> /\ Room /\ policy' = policy
        /\ chan' = Append(chan, Head(pump.rows))
    BY <1>6, Carried DEF SendReconciled
  <2>2. Head(pump.rows) \in Boundary
    BY <2>1, HeadTailProperties
  <2>3. QED
    BY <1>2, <2>1, <2>2
<1>7. ASSUME NEW p \in Producers, SendRow(p) PROVE Joined
  BY <1>7 DEF SendRow, Joined
<1>8. CASE TakeRow
  BY <1>8 DEF Joined
<1>9. CASE BeginTransition \/ ChangeContext \/ DeferTransition
  BY <1>9 DEF BeginTransition, ChangeContext, DeferTransition, Joined
<1>10. CASE MonitorSamples \/ MonitorSwaps \/ MonitorDefers
  BY <1>10 DEF MonitorSamples, MonitorSwaps, MonitorDefers, Joined
<1>11. CASE (\E p \in Producers : CheckRow(p)) \/ (\E by \in Suspenders : Suspend(by))
  BY <1>11 DEF CheckRow, Suspend, Joined
<1>12. CASE RestoreAfterRecording \/ BeginResume \/ RequestReconcile \/ ReplyLate
  BY <1>12 DEF RestoreAfterRecording, BeginResume, RequestReconcile, ReplyLate, Joined
<1>13. CASE DrainForwarder \/ VerifyGeneration \/ LiftSuspension \/ LowerBarrier
  BY <1>13 DEF DrainForwarder, VerifyGeneration, LiftSuspension, LowerBarrier, Joined
<1>14. CASE BeginReconcile \/ EndReconcile \/ Reseed
  BY <1>14 DEF BeginReconcile, EndReconcile, Reseed, Joined
<1>15. CASE UNCHANGED vars
  BY <1>15 DEF vars, Joined
<1>16. QED
  BY <1>3, <1>4, <1>5, <1>6, <1>7, <1>8, <1>9, <1>10, <1>11, <1>12, <1>13, <1>14, <1>15
     DEF Next, Pump, Monitor, Worker, Producers

(* The channel holds no more than its capacity. *)
LEMMA CapacityStep ==
    ASSUME TypeOK, WithinCapacity, Boundaries, [Next]_vars
    PROVE  WithinCapacity'
<1>1. chan \in Seq(Rows) /\ Len(chan) \in Nat /\ ChannelBound \in Nat
  BY Plain, GateConstants DEF Rows
<1>2. CASE chan' = chan
  BY <1>2 DEF WithinCapacity
<1>3. CASE Len(chan') <= ChannelBound
  BY <1>3 DEF WithinCapacity
<1>4. ASSUME NEW p \in Producers, SendRow(p), Room PROVE WithinCapacity'
  <2>1. PICK row \in Ordinary : chan' = Append(chan, row)
    <3>1. [kind |-> "row", hot |-> hand[p].hot, restored |-> hand[p].restored] \in Ordinary
      BY DEF TypeOK, Ordinary
    <3>2. QED
      BY <1>4, <3>1 DEF SendRow
  <2>2. Len(chan') = Len(chan) + 1
    BY <1>1, <2>1 DEF Rows
  <2>3. QED
    BY <1>1, <1>4, <2>2 DEF Room, WithinCapacity
<1>5. CASE TakeRow
  <2>1. chan # <<>> /\ chan' = Tail(chan)
    BY <1>5 DEF TakeRow
  <2>2. Len(chan') = Len(chan) - 1
    BY <1>1, <2>1, HeadTailProperties
  <2>3. QED
    BY <1>1, <2>2 DEF WithinCapacity
<1>6. QED
  BY <1>2, <1>3, <1>4, <1>5, Joins DEF Joined, JoinedBoundaries

-----------------------------------------------------------------------------
(* An interruption takes contexts from the rows in hand. *)
LEMMA Interrupts ==
    ASSUME TypeOK, NEW gone, Interrupted(gone), NEW p \in Producers
    PROVE  hand'[p].hot = hand[p].hot \ gone /\ hand'[p].restored = hand[p].restored
BY DEF Interrupted, TypeOK

(* A row in hand stays of contexts that stay in force. *)
LEMMA CurrentStep ==
    ASSUME TypeOK, Resuming, HandsCurrent, [Next]_vars
    PROVE  HandsCurrent'
<1>1. CASE BeginTransition
  BY <1>1 DEF BeginTransition, HandsCurrent, InForce, gates, contexts, reseeds
<1>2. CASE ChangeContext
  <2> SUFFICES ASSUME NEW p \in Producers
               PROVE  /\ hand'[p].hot \subseteq InForce'
                      /\ hand'[p].hot # {} /\ ~hand'[p].restored => suspended' = "none" /\ ~restored'
    BY DEF HandsCurrent
  <2>1. hand'[p].hot = hand[p].hot \ (active \ active') /\ hand'[p].restored = hand[p].restored
    BY <1>2, Interrupts DEF ChangeContext
  <2>2. QED
    BY <1>2, <2>1 DEF ChangeContext, HandsCurrent, InForce, gates, reseeds
<1>3. CASE DeferTransition
  BY <1>3 DEF DeferTransition, HandsCurrent, InForce, gates, contexts, reseeds
<1>4. CASE SendTransition
  BY <1>4 DEF SendTransition, HandsCurrent, InForce, gates, contexts, reseeds
<1>5. CASE FlushQueue
  BY <1>5 DEF FlushQueue, HandsCurrent, InForce, gates, contexts, reseeds
<1>6. CASE MonitorSamples
  BY <1>6 DEF MonitorSamples, HandsCurrent, InForce, gates, contexts, reseeds
<1>7. CASE MonitorSwaps
  <2>1. CASE confirmed = monitor.sample
    BY <1>7, <2>1 DEF MonitorSwaps, HandsCurrent, InForce, gates, reseeds
  <2>2. CASE confirmed # monitor.sample
    <3> DEFINE gone == IF confirmed THEN {Password} ELSE {}
    <3>1. Interrupted(gone)
      BY <1>7, <2>2 DEF MonitorSwaps
    <3> SUFFICES ASSUME NEW p \in Producers
                 PROVE  /\ hand'[p].hot \subseteq InForce'
                        /\ hand'[p].hot # {} /\ ~hand'[p].restored
                              => suspended' = "none" /\ ~restored'
      BY DEF HandsCurrent
    <3>2. hand'[p].hot = hand[p].hot \ gone /\ hand'[p].restored = hand[p].restored
      <4> HIDE DEF gone
      <4>1. QED
        BY <3>1, Interrupts
    <3>3. active' = active /\ suspended' = suspended /\ restored' = restored
      BY <1>7 DEF MonitorSwaps, gates, reseeds
    <3>4. QED
      BY <3>2, <3>3 DEF HandsCurrent, InForce
  <2>3. QED
    BY <2>1, <2>2
<1>8. CASE MonitorDefers
  BY <1>8 DEF MonitorDefers, HandsCurrent, InForce, gates, contexts, reseeds
<1>9. CASE MonitorSends
  <2>1. CASE Room
    BY <1>9, <2>1 DEF MonitorSends, HandsCurrent, InForce, gates, reseeds
  <2>2. CASE ~Room
    <3>1. Interrupted({Password})
      BY <1>9, <2>2 DEF MonitorSends
    <3> SUFFICES ASSUME NEW p \in Producers
                 PROVE  /\ hand'[p].hot \subseteq InForce'
                        /\ hand'[p].hot # {} /\ ~hand'[p].restored
                              => suspended' = "none" /\ ~restored'
      BY DEF HandsCurrent
    <3>2. hand'[p].hot = hand[p].hot \ {Password} /\ hand'[p].restored = hand[p].restored
      BY <3>1, Interrupts
    <3>3. active' = active /\ suspended' = suspended /\ restored' = restored
      BY <1>9 DEF MonitorSends, gates, reseeds
    <3>4. QED
      BY <3>2, <3>3 DEF HandsCurrent, InForce
  <2>3. QED
    BY <2>1, <2>2
<1>10. ASSUME NEW p \in Producers, CheckRow(p) PROVE HandsCurrent'
  <2>1. hand'[p] = [held |-> TRUE, hot |-> InForce, restored |-> restored]
        /\ \A q \in Producers : q # p => hand'[q] = hand[q]
    BY <1>10 DEF CheckRow, TypeOK
  <2>2. InForce' = InForce /\ suspended' = suspended /\ restored' = restored /\ suspended = "none"
    BY <1>10 DEF CheckRow, InForce, Open, ShouldDefer, gates, contexts, reseeds
  <2>3. ASSUME NEW q \in Producers
        PROVE  /\ hand'[q].hot \subseteq InForce'
               /\ hand'[q].hot # {} /\ ~hand'[q].restored => suspended' = "none" /\ ~restored'
    BY <2>1, <2>2 DEF HandsCurrent
  <2>4. QED
    BY <2>3 DEF HandsCurrent
<1>11. ASSUME NEW p \in Producers, SendRow(p) PROVE HandsCurrent'
  <2>1. hand'[p].hot = {} /\ \A q \in Producers : q # p => hand'[q] = hand[q]
    BY <1>11 DEF SendRow, TypeOK, NoRow
  <2>2. InForce' = InForce /\ suspended' = suspended /\ restored' = restored
    BY <1>11 DEF SendRow, InForce, gates, contexts, reseeds
  <2>3. ASSUME NEW q \in Producers
        PROVE  /\ hand'[q].hot \subseteq InForce'
               /\ hand'[q].hot # {} /\ ~hand'[q].restored => suspended' = "none" /\ ~restored'
    BY <2>1, <2>2 DEF HandsCurrent
  <2>4. QED
    BY <2>3 DEF HandsCurrent
<1>12. CASE TakeRow
  BY <1>12 DEF TakeRow, HandsCurrent, InForce, gates, contexts, reseeds
<1>13. ASSUME NEW by \in Suspenders, Suspend(by) PROVE HandsCurrent'
  <2>1. Interrupted(Reasons)
    BY <1>13 DEF Suspend
  <2> SUFFICES ASSUME NEW p \in Producers PROVE hand'[p].hot = {}
    BY DEF HandsCurrent
  <2>2. hand[p].hot \subseteq Reasons
    BY DEF TypeOK
  <2>3. QED
    BY <2>1, <2>2, Interrupts
<1>14. CASE RestoreAfterRecording
  BY <1>14 DEF RestoreAfterRecording, HandsCurrent, InForce, contexts
<1>15. CASE BeginResume
  BY <1>15 DEF BeginResume, HandsCurrent, InForce, gates, contexts, reseeds
<1>16. CASE RequestReconcile
  BY <1>16 DEF RequestReconcile, HandsCurrent, InForce, gates, contexts, reseeds
<1>17. CASE ReplyLate
  BY <1>17 DEF ReplyLate, HandsCurrent, InForce, gates, contexts, reseeds
<1>18. CASE DrainForwarder
  BY <1>18 DEF DrainForwarder, HandsCurrent, InForce, gates, contexts, reseeds
<1>19. CASE VerifyGeneration
  BY <1>19 DEF VerifyGeneration, HandsCurrent, InForce, gates, contexts, reseeds
<1>20. CASE LiftSuspension
  BY <1>20 DEF LiftSuspension, HandsCurrent, InForce, Resuming, contexts, reseeds
<1>21. CASE LowerBarrier
  BY <1>21 DEF LowerBarrier, HandsCurrent, InForce, contexts
<1>22. CASE BeginReconcile
  BY <1>22 DEF BeginReconcile, HandsCurrent, InForce, gates, contexts, reseeds
<1>23. CASE SendReconciled
  BY <1>23 DEF SendReconciled, HandsCurrent, InForce, gates, contexts, reseeds
<1>24. CASE EndReconcile
  BY <1>24 DEF EndReconcile, HandsCurrent, InForce, gates, contexts, reseeds
<1>25. CASE Reseed
  BY <1>25 DEF Reseed, HandsCurrent, InForce, gates, contexts, reseeds
<1>26. CASE UNCHANGED vars
  BY <1>26 DEF vars, HandsCurrent, InForce, gates, contexts, reseeds
<1>27. QED
  BY <1>1, <1>2, <1>3, <1>4, <1>5, <1>6, <1>7, <1>8, <1>9, <1>10, <1>11, <1>12, <1>13, <1>14, <1>15, <1>16, <1>17, <1>18, <1>19, <1>20, <1>21, <1>22, <1>23, <1>24, <1>25, <1>26
     DEF Next, Pump, Monitor, Worker, Producers

-----------------------------------------------------------------------------
(* A context that was entered, in the terms of rows. *)
LEMMA SaidEntered ==
    ASSUME NEW c, NEW P, NEW r
    PROVE  Said(c, P, "entered", r) <=> LitAfter(c, r \in P, {Entered(r)}, {Exited(r)})
<1>1. (("entered" = "entered") <=> (r \in P)) = (r \in P)
  OBVIOUS
<1>2. Other("entered") = "exited"
  BY DEF Other
<1>3. QED
  BY <1>1, <1>2 DEF Said, Mark, Entered, Exited

(* An empty channel says what the policy has. *)
LEMMA SaidEmpty ==
    ASSUME NEW P, NEW v, NEW r
    PROVE  Said(<<>>, P, v, r) <=> ((v = "entered") <=> (r \in P))
<1>1. Len(<<>>) = 0
  OBVIOUS
<1>2. \A k \in 1 .. 0 : FALSE
  OBVIOUS
<1>3. QED
  BY <1>1, <1>2 DEF Said, LitAfter, Lit

(* When capture is open the policy is told of what is in force, by what is   *)
(* in the channel at the latest.                                           *)
LEMMA OpenTold ==
    ASSUME TypeOK, PolicyFollows, Open, ~restored
    PROVE  \A r \in Reasons : \A v \in Kinds :
              ((v = "entered") <=> (r \in InForce)) => Said(chan, policy, v, r)
<1>1. Trusted /\ queue = <<>> /\ ~Moving(pump) /\ ~Moving(monitor)
  BY Carried DEF Open, ShouldDefer, TransitionActive, Trusted, Moving
<1>2. Agrees(chan, policy, <<>>, Known)
  BY <1>1 DEF PolicyFollows
<1>3. \A r \in Reasons : r \in Known <=> r \in InForce
  BY <1>1 DEF Known
<1>4. ASSUME NEW r \in Reasons, NEW v \in Kinds, (v = "entered") <=> (r \in InForce)
      PROVE  Said(chan, policy, v, r)
  <2>1. ToldBy(chan, policy, <<>>, v, r)
    BY <1>2, <1>3, <1>4 DEF Agrees
  <2>2. Len(<<>>) = 0 /\ \A k \in 1 .. 0 : FALSE
    OBVIOUS
  <2>3. QED
    BY <2>1, <2>2 DEF ToldBy, LitAfter, Lit
<1>5. QED
  BY <1>4

(* What no row in hand is harmed by. *)
LEMMA HandsKept ==
    ASSUME TypeOK, HandsFollow, queue' = queue \/ queue' = <<>>,
           \A r \in Reasons : Said(chan, policy, "entered", r) => Said(chan', policy', "entered", r),
           \A p \in Producers : \/ hand'[p].hot = {}
                                \/ /\ hand'[p].hot \subseteq hand[p].hot
                                   /\ hand'[p].restored = hand[p].restored
    PROVE  HandsFollow'
<1> SUFFICES ASSUME NEW p \in Producers, ~hand'[p].restored, NEW r \in hand'[p].hot
             PROVE  /\ Said(chan', policy', "entered", r)
                    /\ \A k \in 1 .. Len(queue') : queue'[k] # Exited(r)
  BY DEF HandsFollow
<1>1. ~hand[p].restored /\ r \in hand[p].hot
  OBVIOUS
<1>2. r \in Reasons
  BY <1>1 DEF TypeOK
<1>3. Said(chan, policy, "entered", r) /\ \A k \in 1 .. Len(queue) : queue[k] # Exited(r)
  BY <1>1 DEF HandsFollow
<1>4. CASE queue' = <<>>
  BY <1>2, <1>3, <1>4
<1>5. CASE queue' = queue
  BY <1>2, <1>3, <1>5
<1>6. QED
  BY <1>4, <1>5

(* Steps that tell the policy nothing. *)
LEMMA HandsUntouched ==
    ASSUME TypeOK, HandsFollow, queue' = queue \/ queue' = <<>>,
           chan' = chan, policy' = policy, hand' = hand
    PROVE  HandsFollow'
BY HandsKept

LEMMA HandsInterrupted ==
    ASSUME TypeOK, HandsFollow, queue' = queue, chan' = chan, policy' = policy,
           NEW gone, Interrupted(gone)
    PROVE  HandsFollow'
<1>1. \A p \in Producers : /\ hand'[p].hot \subseteq hand[p].hot
                           /\ hand'[p].restored = hand[p].restored
  BY Interrupts
<1>2. QED
  BY <1>1, HandsKept

(* Boundaries that take back no context of a row in hand are sent or queued. *)
LEMMA HandsSend ==
    ASSUME TypeOK, WithinCapacity, HandsFollow, NEW b \in Seq(Boundary), SendOrQueue(b),
           policy' = policy, hand' = hand,
           \A p \in Producers : ~hand[p].restored =>
              \A r \in hand[p].hot : \A k \in 1 .. Len(b) : b[k] # Exited(r)
    PROVE  HandsFollow'
<1>1. PICK sent, left \in Seq(Boundary) :
              /\ chan' = chan \o sent /\ queue' = left
              /\ \A k \in 1 .. Len(sent) : \E i \in 1 .. Len(b) : sent[k] = b[i]
              /\ \A k \in 1 .. Len(left) : \E i \in 1 .. Len(b) : left[k] = b[i]
  BY Sends
<1>2. chan \in Seq(Rows) /\ sent \in Seq(Rows)
  BY Plain, <1>1 DEF Rows
<1> SUFFICES ASSUME NEW p \in Producers, ~hand[p].restored, NEW r \in hand[p].hot
             PROVE  /\ Said(chan', policy, "entered", r)
                    /\ \A k \in 1 .. Len(queue') : queue'[k] # Exited(r)
  BY DEF HandsFollow
<1>3. \A k \in 1 .. Len(sent) : sent[k] \notin {Exited(r)}
  BY <1>1
<1>4. \A k \in 1 .. Len(left) : left[k] # Exited(r)
  BY <1>1
<1>5. LitAfter(chan, r \in policy, {Entered(r)}, {Exited(r)})
  BY SaidEntered DEF HandsFollow
<1>6. Len(sent) \in Nat /\ Len(chan) \in Nat /\ Len(chan \o sent) = Len(chan) + Len(sent)
  BY <1>2
<1>7. Lit(chan \o sent, Len(chan) + (Len(sent) + 1), r \in policy, {Entered(r)}, {Exited(r)})
  <2>1. Len(sent) + 1 \in 1 .. Len(sent) + 1
    BY <1>6
  <2>2. (r \in policy) \in BOOLEAN
    OBVIOUS
  <2>3. QED
    BY <1>2, <1>3, <1>5, <2>1, <2>2, LitJoined
<1>8. LitAfter(chan \o sent, r \in policy, {Entered(r)}, {Exited(r)})
  BY <1>6, <1>7 DEF LitAfter
<1>9. QED
  BY <1>1, <1>4, <1>8, SaidEntered

(* A row in hand is of contexts the policy is told of. *)
LEMMA HandsFollowStep ==
    ASSUME TypeOK, WithinCapacity, Guarded, Quiet, Boundaries, PolicyFollows, HandsCurrent,
           HandsFollow, [Next]_vars
    PROVE  HandsFollow'
<1>1. CASE BeginTransition
  BY <1>1, HandsUntouched DEF BeginTransition, contexts
<1>2. CASE ChangeContext
  BY <1>2, HandsInterrupted DEF ChangeContext
<1>3. CASE DeferTransition
  BY <1>3, HandsUntouched DEF DeferTransition
<1>4. CASE SendTransition
  <2> DEFINE b == Append(queue, pump.row)
  <2>1. queue \in Seq(Boundary) /\ OwnBoundary(pump.row) /\ pump.row \in Boundary
        /\ (pump.row.kind = "entered" <=> pump.row.reason \in active)
    BY <1>4, Plain DEF SendTransition, Boundaries, Moving, OwnBoundary
  <2>2. b \in Seq(Boundary) /\ SendOrQueue(b) /\ policy' = policy /\ hand' = hand
    BY <1>4, <2>1 DEF SendTransition
  <2>3. /\ Len(b) = Len(queue) + 1 /\ Len(queue) \in Nat /\ b[Len(queue) + 1] = pump.row
        /\ \A k \in 1 .. Len(queue) : b[k] = queue[k]
    BY <2>1
  <2>4. ASSUME NEW p \in Producers, ~hand[p].restored, NEW r \in hand[p].hot,
               NEW k \in 1 .. Len(b), b[k] = Exited(r)
        PROVE  FALSE
    <3>1. CASE k \in 1 .. Len(queue)
      BY <2>3, <2>4, <3>1 DEF HandsFollow
    <3>2. CASE k = Len(queue) + 1
      <4>1. pump.row.kind = "exited" /\ pump.row.reason = r
        BY <2>3, <2>4, <3>2 DEF Exited
      <4>2. r \in Contexts /\ r \notin active /\ r # Password
        BY <2>1, <4>1, GateConstants DEF OwnBoundary
      <4>3. r \in InForce
        BY <2>4 DEF HandsCurrent
      <4>4. QED
        BY <4>2, <4>3 DEF InForce
    <3>3. QED
      BY <2>3, <3>1, <3>2
  <2> HIDE DEF b
  <2>5. QED
    BY <2>2, <2>4, HandsSend
<1>5. CASE FlushQueue
  <2>1. CASE ShouldDefer
    BY <1>5, <2>1, HandsUntouched DEF FlushQueue
  <2>2. CASE ~ShouldDefer
    <3>1. SendOrQueue(queue) /\ policy' = policy /\ hand' = hand /\ queue \in Seq(Boundary)
      BY <1>5, <2>2, Plain DEF FlushQueue
    <3>2. QED
      BY <3>1, HandsSend DEF HandsFollow
  <2>3. QED
    BY <2>1, <2>2
<1>6. CASE MonitorSamples
  BY <1>6, HandsUntouched DEF MonitorSamples, contexts
<1>7. CASE MonitorSwaps
  <2>1. CASE confirmed = monitor.sample
    BY <1>7, <2>1, HandsUntouched DEF MonitorSwaps
  <2>2. CASE confirmed # monitor.sample
    BY <1>7, <2>2, HandsInterrupted DEF MonitorSwaps
  <2>3. QED
    BY <2>1, <2>2
<1>8. CASE MonitorDefers
  BY <1>8, HandsUntouched DEF MonitorDefers, contexts
<1>9. CASE MonitorSends
  <2>1. CASE Room
    <3> DEFINE w == IF confirmed THEN "entered" ELSE "exited"
    <3>1. chan' = Append(chan, Mark(w, Password)) /\ policy' = policy /\ hand' = hand
          /\ queue' = queue
      BY <1>9, <2>1 DEF MonitorSends, Mark, Entered, Exited
    <3>2. w \in Kinds /\ Password \in Reasons /\ chan \in Seq(Rows) /\ "entered" \in Kinds
      BY Plain DEF Kinds, Reasons, Rows
    <3> SUFFICES ASSUME NEW p \in Producers, ~hand[p].restored, NEW r \in hand[p].hot
                 PROVE  /\ Said(chan', policy, "entered", r)
                        /\ \A k \in 1 .. Len(queue) : queue[k] # Exited(r)
      BY <3>1 DEF HandsFollow
    <3>3. Said(chan, policy, "entered", r) /\ r \in InForce
          /\ \A k \in 1 .. Len(queue) : queue[k] # Exited(r)
      BY DEF HandsFollow, HandsCurrent
    <3>4. r = Password => w = "entered"
      BY <3>3, GateConstants DEF InForce, TypeOK
    <3> HIDE DEF w
    <3>5. Said(Append(chan, Mark(w, Password)), policy, "entered", r)
      BY <3>2, <3>3, <3>4, SaidBoundary
    <3>6. QED
      BY <3>1, <3>3, <3>5
  <2>2. CASE ~Room
    BY <1>9, <2>2, HandsInterrupted DEF MonitorSends
  <2>3. QED
    BY <2>1, <2>2
<1>10. ASSUME NEW p \in Producers, CheckRow(p) PROVE HandsFollow'
  <2>1. hand'[p] = [held |-> TRUE, hot |-> InForce, restored |-> restored]
        /\ \A q \in Producers : q # p => hand'[q] = hand[q]
    BY <1>10 DEF CheckRow, TypeOK
  <2>2. chan' = chan /\ policy' = policy /\ queue' = queue /\ Open /\ queue = <<>>
    BY <1>10 DEF CheckRow, contexts, Open, TransitionActive
  <2>3. ASSUME NEW q \in Producers, ~hand'[q].restored, NEW r \in hand'[q].hot
        PROVE  /\ Said(chan', policy', "entered", r)
               /\ \A k \in 1 .. Len(queue') : queue'[k] # Exited(r)
    <3>1. CASE q = p
      <4>1. ~restored /\ r \in InForce
        BY <2>1, <2>3, <3>1
      <4>2. r \in Reasons /\ "entered" \in Kinds
        BY <4>1 DEF InForce, Reasons, TypeOK, Kinds
      <4>3. Said(chan, policy, "entered", r)
        BY <2>2, <4>1, <4>2, OpenTold
      <4>4. QED
        BY <2>2, <4>3
    <3>2. CASE q # p
      BY <2>1, <2>2, <2>3, <3>2 DEF HandsFollow
    <3>3. QED
      BY <3>1, <3>2
  <2>4. QED
    BY <2>3 DEF HandsFollow
<1>11. ASSUME NEW p \in Producers, SendRow(p) PROVE HandsFollow'
  <2>1. hand'[p].hot = {} /\ \A q \in Producers : q # p => hand'[q] = hand[q]
    BY <1>11 DEF SendRow, TypeOK, NoRow
  <2>2. queue' = queue /\ "entered" \in Kinds
    BY <1>11 DEF SendRow, contexts, Kinds
  <2>3. \A r \in Reasons : Said(chan, policy, "entered", r) => Said(chan', policy', "entered", r)
    BY <1>11, <2>2, RowSaid
  <2>4. \A q \in Producers : \/ hand'[q].hot = {}
                             \/ /\ hand'[q].hot \subseteq hand[q].hot
                                /\ hand'[q].restored = hand[q].restored
    BY <2>1
  <2>5. QED
    BY <2>2, <2>3, <2>4, HandsKept
<1>12. CASE TakeRow
  <2>1. queue' = queue /\ hand' = hand /\ "entered" \in Kinds
    BY <1>12 DEF TakeRow, contexts, Kinds
  <2>2. \A r \in Reasons : Said(chan, policy, "entered", r) => Said(chan', policy', "entered", r)
    BY <1>12, <2>1, TakeSaid
  <2>3. QED
    BY <2>1, <2>2, HandsKept
<1>13. ASSUME NEW by \in Suspenders, Suspend(by) PROVE HandsFollow'
  BY <1>13, HandsInterrupted DEF Suspend, contexts
<1>14. CASE RestoreAfterRecording \/ BeginResume \/ RequestReconcile \/ ReplyLate
  BY <1>14, HandsUntouched
     DEF RestoreAfterRecording, BeginResume, RequestReconcile, ReplyLate, contexts
<1>15. CASE DrainForwarder \/ VerifyGeneration \/ LiftSuspension \/ LowerBarrier
  BY <1>15, HandsUntouched
     DEF DrainForwarder, VerifyGeneration, LiftSuspension, LowerBarrier, contexts
<1>16. CASE BeginReconcile \/ EndReconcile \/ Reseed
  BY <1>16, HandsUntouched DEF BeginReconcile, EndReconcile, Reseed, contexts
<1>17. CASE SendReconciled
  <2>1. hand' = hand /\ pump.pc = "reconcile"
    BY <1>17 DEF SendReconciled
  <2>2. ASSUME NEW p \in Producers, ~hand[p].restored, NEW r \in hand[p].hot PROVE FALSE
    <3>1. suspended = "none" /\ ~restored
      BY <2>2 DEF HandsCurrent
    <3>2. QED
      BY <2>1, <3>1 DEF PolicyFollows, Trusted
  <2>3. QED
    BY <2>1, <2>2 DEF HandsFollow
<1>18. CASE UNCHANGED vars
  BY <1>18, HandsUntouched DEF vars, contexts
<1>19. QED
  BY <1>1, <1>2, <1>3, <1>4, <1>5, <1>6, <1>7, <1>8, <1>9, <1>10, <1>11, <1>12, <1>13, <1>14,
     <1>15, <1>16, <1>17, <1>18
     DEF Next, Pump, Monitor, Worker, Producers

-----------------------------------------------------------------------------
(* Rows in the channel c find their contexts in a policy that was P. *)
RowsIn(c, P) ==
    \A i \in 1 .. Len(c) :
       c[i].kind = "row" /\ ~c[i].restored =>
          \A r \in c[i].hot : Lit(c, i, r \in P, {Entered(r)}, {Exited(r)})

(* Boundaries that join behind change nothing for the rows before them. *)
LEMMA RowsJoined ==
    ASSUME NEW c \in Seq(Rows), NEW sent \in Seq(Boundary), NEW P, RowsIn(c, P)
    PROVE  RowsIn(c \o sent, P)
<1> DEFINE u == c \o sent
<1>1. /\ sent \in Seq(Rows) /\ u \in Seq(Rows) /\ Len(c) \in Nat /\ Len(sent) \in Nat
      /\ Len(u) = Len(c) + Len(sent)
      /\ \A i \in 1 .. Len(c) : u[i] = c[i]
      /\ \A i \in 1 .. Len(sent) : u[Len(c) + i] = sent[i] /\ sent[i] \in Boundary
  BY DEF Rows
<1> HIDE DEF u
<1> SUFFICES ASSUME NEW i \in 1 .. Len(u), u[i].kind = "row", ~u[i].restored, NEW r \in u[i].hot
             PROVE  Lit(u, i, r \in P, {Entered(r)}, {Exited(r)})
  BY DEF RowsIn, u
<1>2. CASE i \in 1 .. Len(c)
  <2>1. Lit(c, i, r \in P, {Entered(r)}, {Exited(r)})
    BY <1>1, <1>2 DEF RowsIn
  <2>2. (r \in P) \in BOOLEAN
    OBVIOUS
  <2>3. QED
    BY <1>1, <1>2, <2>1, <2>2, LitJoined DEF u
<1>3. CASE i \notin 1 .. Len(c)
  <2>1. i - Len(c) \in 1 .. Len(sent) /\ i = Len(c) + (i - Len(c))
    BY <1>1, <1>3
  <2>2. u[i] \in Boundary
    BY <1>1, <2>1
  <2>3. QED
    BY <2>2 DEF Boundary
<1>4. QED
  BY <1>2, <1>3

(* A row that joins finds what the whole channel tells. *)
LEMMA RowsAppended ==
    ASSUME NEW c \in Seq(Rows), NEW row \in Ordinary, NEW P, RowsIn(c, P),
           row.restored \/ \A r \in row.hot : LitAfter(c, r \in P, {Entered(r)}, {Exited(r)})
    PROVE  RowsIn(Append(c, row), P)
<1> DEFINE u == Append(c, row)
<1>1. /\ row \in Rows /\ Len(c) \in Nat /\ Len(u) = Len(c) + 1 /\ u[Len(c) + 1] = row
      /\ \A i \in 1 .. Len(c) : u[i] = c[i]
  BY DEF Rows
<1> HIDE DEF u
<1> SUFFICES ASSUME NEW i \in 1 .. Len(u), u[i].kind = "row", ~u[i].restored, NEW r \in u[i].hot
             PROVE  Lit(u, i, r \in P, {Entered(r)}, {Exited(r)})
  BY DEF RowsIn, u
<1>2. i \in 1 .. Len(c) + 1 /\ (r \in P) \in BOOLEAN
  BY <1>1
<1>3. Lit(c, i, r \in P, {Entered(r)}, {Exited(r)})
  <2>1. CASE i \in 1 .. Len(c)
    BY <1>1, <2>1 DEF RowsIn
  <2>2. CASE i = Len(c) + 1
    BY <1>1, <2>2 DEF LitAfter
  <2>3. QED
    BY <1>1, <1>2, <2>1, <2>2
<1>4. QED
  BY <1>1, <1>2, <1>3, LitAppended DEF u

(* What the policy takes it keeps for the rows behind. *)
LEMMA RowsTaken ==
    ASSUME NEW c \in Seq(Rows), c # <<>>, NEW P, RowsIn(c, P)
    PROVE  RowsIn(Tail(c), TakenBy(Head(c), P))
<1> DEFINE u == Tail(c)
<1>1. /\ Head(c) \in Rows /\ Len(c) \in Nat /\ Len(u) \in Nat /\ Len(c) = Len(u) + 1
      /\ \A i \in 1 .. Len(u) : u[i] = c[i + 1]
  BY HeadTailProperties
<1> SUFFICES ASSUME NEW i \in 1 .. Len(u), u[i].kind = "row", ~u[i].restored, NEW r \in u[i].hot
             PROVE  Lit(u, i, r \in TakenBy(Head(c), P), {Entered(r)}, {Exited(r)})
  BY DEF RowsIn
<1>2. i + 1 \in 1 .. Len(c) /\ i \in 1 .. Len(c) /\ u[i] = c[i + 1]
  BY <1>1
<1>3. Lit(c, i + 1, r \in P, {Entered(r)}, {Exited(r)})
  BY <1>2 DEF RowsIn
<1>4. Head(c) \in {Entered(r)} \/ (r \in P /\ Head(c) \notin {Exited(r)})
         => r \in TakenBy(Head(c), P)
  <2>1. "entered" \in Kinds /\ Other("entered") = "exited" /\ Mark("entered", r) = Entered(r)
        /\ Mark("exited", r) = Exited(r)
    BY DEF Kinds, Other, Mark, Entered, Exited
  <2>2. QED
    BY <1>1, <2>1, Takes
<1> DEFINE before == r \in P
           then == r \in TakenBy(Head(c), P)
<1>5. before \in BOOLEAN /\ then \in BOOLEAN
  OBVIOUS
<1>6. /\ Lit(c, i + 1, before, {Entered(r)}, {Exited(r)})
      /\ Head(c) \in {Entered(r)} \/ (before /\ Head(c) \notin {Exited(r)}) => then
  BY <1>3, <1>4
<1> HIDE DEF before, then
<1>7. \A j \in 1 .. Len(c) : Lit(c, j + 1, before, {Entered(r)}, {Exited(r)})
                                => Lit(Tail(c), j, then, {Entered(r)}, {Exited(r)})
  BY <1>5, <1>6, LitTaken, SMTT(20)
<1>8. Lit(u, i, then, {Entered(r)}, {Exited(r)})
  BY <1>2, <1>6, <1>7
<1>9. QED
  BY <1>8 DEF then

(* A row in the channel finds the policy told, whatever joins and leaves. *)
LEMMA RowsFollowStep ==
    ASSUME TypeOK, WithinCapacity, Boundaries, HandsFollow, RowsFollow, [Next]_vars
    PROVE  RowsFollow'
<1>1. chan \in Seq(Rows) /\ RowsIn(chan, policy)
  BY Plain DEF Rows, RowsFollow, RowsIn
<1>2. SUFFICES RowsIn(chan', policy')
  BY DEF RowsFollow, RowsIn
<1>3. CASE chan' = chan /\ policy' = policy
  BY <1>1, <1>3
<1>4. CASE JoinedBoundaries
  BY <1>1, <1>4, RowsJoined DEF JoinedBoundaries
<1>5. ASSUME NEW p \in Producers, SendRow(p), Room PROVE RowsIn(chan', policy')
  <2> DEFINE row == [kind |-> "row", hot |-> hand[p].hot, restored |-> hand[p].restored]
  <2>1. chan' = Append(chan, row) /\ policy' = policy /\ row \in Ordinary
    BY <1>5 DEF SendRow, TypeOK, Ordinary
  <2>2. row.restored \/ \A r \in row.hot : LitAfter(chan, r \in policy, {Entered(r)}, {Exited(r)})
    BY SaidEntered DEF HandsFollow
  <2> HIDE DEF row
  <2>3. QED
    BY <1>1, <2>1, <2>2, RowsAppended
<1>6. CASE TakeRow
  <2>1. chan # <<>> /\ chan' = Tail(chan) /\ policy' = TakenBy(Head(chan), policy)
    BY <1>6 DEF TakeRow, TakenBy
  <2>2. QED
    BY <1>1, <2>1, RowsTaken
<1>7. QED
  BY <1>3, <1>4, <1>5, <1>6, Joins DEF Joined

-----------------------------------------------------------------------------
(* Nothing has been told and nothing is in force at first. *)
LEMMA InitHolds == Init => TypeOK /\ GateInv
<1> SUFFICES ASSUME Init PROVE TypeOK /\ GateInv
  OBVIOUS
<1>1. /\ suspended = "none" /\ barrier = FALSE /\ guard = "none" /\ generation = 0
      /\ unreconciled = FALSE /\ restored = FALSE /\ active = {} /\ confirmed = FALSE
      /\ queue = <<>> /\ chan = <<>> /\ policy = {} /\ requests = 0
      /\ pump = Idle /\ monitor = Idle /\ worker = Idle
      /\ pump.pc = "idle" /\ monitor.pc = "idle" /\ worker.pc = "idle"
      /\ Len(queue) = 0 /\ Len(chan) = 0 /\ \A k \in 1 .. 0 : FALSE
      /\ \A p \in Producers : hand[p] = NoRow /\ hand[p].hot = {}
  BY DEF Init, Idle, NoRow
<1>2. TypeOK
  <2>1. /\ \A S : <<>> \in Seq(S)
        /\ \A S : {} \subseteq S
        /\ FALSE \in BOOLEAN /\ 0 \in Nat
    OBVIOUS
  <2>2. used \in [transitions : Nat, suspends : Nat, resumes : Nat, rows : Nat]
    BY DEF Init
  <2>3. hand \in [Producers -> [held : BOOLEAN, hot : SUBSET Reasons, restored : BOOLEAN]]
    <3>1. NoRow \in [held : BOOLEAN, hot : SUBSET Reasons, restored : BOOLEAN]
      BY DEF NoRow
    <3>2. QED
      BY <3>1 DEF Init
  <2>4. pump \in PumpStates /\ monitor \in MonitorStates /\ worker \in WorkerStates
    BY <1>1 DEF PumpStates, MonitorStates, WorkerStates
  <2>5. QED
    BY <1>1, <2>1, <2>2, <2>3, <2>4 DEF Init, TypeOK
<1>3. WithinCapacity
  BY <1>1, GateConstants DEF WithinCapacity
<1>4. Guarded /\ Resuming /\ Quiet
  BY <1>1 DEF Guarded, Resuming, Quiet, Moving, Asked, Answering, Answered
<1>5. Boundaries
  BY <1>1 DEF Boundaries, Moving
<1>6. PolicyFollows
  <2>1. ASSUME NEW r \in Reasons, NEW v \in Kinds, (v = "entered") <=> (r \in Known)
        PROVE  ToldBy(<<>>, {}, <<>>, v, r)
    <3>1. (v = "entered") <=> (r \in {})
      BY <1>1, <2>1 DEF Known, InForce, Moving
    <3>2. Said(<<>>, {}, v, r)
      BY <3>1, SaidEmpty
    <3>3. Len(<<>>) = 0
      OBVIOUS
    <3>4. QED
      BY <1>1, <3>2, <3>3 DEF ToldBy, LitAfter, Lit
  <2>2. Agrees(chan, policy, queue, Known)
    BY <1>1, <2>1 DEF Agrees
  <2>3. QED
    BY <1>1, <2>2 DEF PolicyFollows, Answering, Asked
<1>7. HandsCurrent /\ HandsFollow /\ RowsFollow
  BY <1>1 DEF HandsCurrent, HandsFollow, RowsFollow
<1>8. QED
  BY <1>2, <1>3, <1>4, <1>5, <1>6, <1>7 DEF GateInv

(* Every step keeps the invariant. *)
LEMMA GateStep ==
    ASSUME TypeOK, GateInv, [Next]_vars
    PROVE  TypeOK' /\ GateInv'
<1> USE DEF GateInv
<1>1. TypeOK' /\ WithinCapacity'
  BY TypeStep, CapacityStep
<1>2. Guarded' /\ Resuming'
  BY GuardStep, ResumeStep
<1>3. Quiet' /\ Boundaries'
  BY QuietStep, BoundaryStep
<1>4. PolicyFollows'
  BY PolicyStep
<1>5. HandsCurrent' /\ HandsFollow'
  BY CurrentStep, HandsFollowStep
<1>6. RowsFollow'
  BY RowsFollowStep
<1>7. QED
  BY <1>1, <1>2, <1>3, <1>4, <1>5, <1>6

(* The invariant holds throughout, over every fault and interleaving. *)
THEOREM GateInvariant == Spec => [](TypeOK /\ GateInv)
<1>1. Init => TypeOK /\ GateInv
  BY InitHolds
<1>2. TypeOK /\ GateInv /\ [Next]_vars => (TypeOK /\ GateInv)'
  BY GateStep
<1>3. QED
  BY <1>1, <1>2, PTL DEF Spec

(* The variables keep their types; a boundary that waits or is sent is one of *)
(* a context there is.                                                     *)
THEOREM GateTypeCorrect == Spec => []TypeOK
BY GateInvariant, PTL

(* An ordinary row captured in a protected context reaches the writer after   *)
(* the boundary that makes it redact (enter_sensitive_context_at,           *)
(* queue_or_send_sensitive_boundary, resume_capture_after_quiet), unless a *)
(* recording reopened capture before it was taken.                         *)
THEOREM ProtectedRowsAreSuppressed == Spec => []ProtectedRowsSuppressed
<1>1. ASSUME TypeOK, GateInv PROVE ProtectedRowsSuppressed
  <2> SUFFICES ASSUME chan # <<>>, Head(chan).kind = "row", ~Head(chan).restored,
                      NEW r \in Head(chan).hot
               PROVE  r \in policy
    BY DEF ProtectedRowsSuppressed
  <2>1. chan \in Seq(Rows) /\ 1 \in 1 .. Len(chan) /\ Head(chan) = chan[1]
    BY <1>1, Plain DEF Rows
  <2>2. Lit(chan, 1, r \in policy, {Entered(r)}, {Exited(r)})
    BY <1>1, <2>1 DEF GateInv, RowsFollow
  <2>3. ~\E j \in 1 .. Len(chan) : j < 1
    BY <2>1
  <2>4. QED
    BY <2>2, <2>3 DEF Lit
<1>2. QED
  BY <1>1, GateInvariant, PTL

(* When capture is open and nothing is on its way, the writer's policy has    *)
(* the contexts in force, no more and no fewer: no boundary was lost and   *)
(* none left over by a deferral, a full channel or an overtaken reconcile. *)
THEOREM PolicyAgreesWhenOpen == Spec => []PolicyAgrees
<1>1. ASSUME TypeOK, GateInv PROVE PolicyAgrees
  <2> SUFFICES ASSUME Open, ~restored, chan = <<>> PROVE policy = InForce
    BY DEF PolicyAgrees
  <2>1. \A r \in Reasons : \A v \in Kinds :
           ((v = "entered") <=> (r \in InForce)) => ((v = "entered") <=> (r \in policy))
    BY <1>1, OpenTold, SaidEmpty DEF GateInv
  <2>2. policy \subseteq Reasons /\ InForce \subseteq Reasons
    BY <1>1 DEF TypeOK, InForce, Reasons
  <2>3. "entered" \in Kinds /\ "exited" \in Kinds
    BY DEF Kinds
  <2>4. ASSUME NEW r \in Reasons PROVE r \in policy <=> r \in InForce
    <3>1. CASE r \in InForce
      BY <2>1, <2>3, <3>1
    <3>2. CASE r \notin InForce
      BY <2>1, <2>3, <3>2
    <3>3. QED
      BY <3>1, <3>2
  <2>5. QED
    BY <2>2, <2>4
<1>2. QED
  BY <1>1, GateInvariant, PTL
=============================================================================
