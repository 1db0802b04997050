---------------------------- MODULE Presence_proofs ----------------------------
(***************************************************************************)
(* Proofs about Presence, for any applications, threshold, occasions and    *)
(* bounds.                                                                 *)
(*                                                                         *)
(* What the rows, the open segment and the spans of the read layer are, in  *)
(* terms of single units of time. What each part of the pump makes of its   *)
(* state and sends; from it, what each action does.                        *)
(*                                                                         *)
(* Then the invariant, part by part: who was in front while a segment was   *)
(* open (Facing, Current, Stored), that a unit of sleep or pause is in a    *)
(* span that takes it away, or in one that is still to be closed (Ticks,    *)
(* Paused, Covered), and the same of a unit nobody was there (Flag,         *)
(* Overdue, IdleRow, IdleFresh, Idled). CreditedOnce follows.              *)
(*                                                                         *)
(* For a session of plain use the other direction: every unit in front is   *)
(* in a dwell (Complete), and no span takes away one the user was there     *)
(* (Unspoiled, Slept, Vacant). EveryMinuteCounted follows.                 *)
(*                                                                         *)
(* And the sweep of the read layer: a fold over the dwells, with the spans  *)
(* over before the last of them left behind (Over, SweptTo).                *)
(***************************************************************************)
EXTENDS Presence, FiniteSetTheorems, SequenceTheorems, TLAPS

-----------------------------------------------------------------------------
(* Greatest and least elements of sets of integers.                         *)

\* Natural numbers have a least one.
LEMMA LeastOf ==
    ASSUME NEW S \in SUBSET Nat, S # {}
    PROVE  \E x \in S : \A y \in S : x <= y
<1> DEFINE R == {p \in Nat \X Nat : p[1] < p[2]}
<1>1. IsWellFoundedOn(R, Nat)
  BY NatLessThanWellFounded DEF OpToRel
<1>2. \A x, y \in Nat : x < y => <<x, y>> \in R
  OBVIOUS
<1> HIDE DEF R
<1>3. PICK x \in S : \A y \in S : <<y, x>> \notin R
  BY <1>1, WFMin
<1>4. ASSUME NEW y \in S PROVE x <= y
  <2>1. x \in Nat /\ y \in Nat
    OBVIOUS
  <2>2. ~(y < x)
    BY <1>2, <1>3, <2>1
  <2>3. QED
    BY <2>1, <2>2
<1>5. QED
  BY <1>4

(* A set of integers that is bounded above has its Max. *)
LEMMA MaxIs ==
    ASSUME NEW S \in SUBSET Int, S # {}, NEW b \in Int, \A x \in S : x <= b
    PROVE  Max(S) \in S /\ \A y \in S : y <= Max(S)
<1> DEFINE D == {n \in Nat : b - n \in S}
<1>1. D # {}
  <2>1. PICK x \in S : TRUE
    OBVIOUS
  <2>2. b - x \in Nat /\ b - (b - x) = x
    BY <2>1
  <2>3. QED
    BY <2>1, <2>2
<1>2. PICK n \in D : \A m \in D : n <= m
  BY <1>1, LeastOf
<1>3. ASSUME NEW y \in S PROVE b - n >= y
  <2>1. b - y \in Nat /\ b - (b - y) = y /\ n \in Int
    BY <1>2
  <2>2. b - y \in D
    BY <2>1
  <2>3. n <= b - y
    BY <1>2, <2>2
  <2>4. QED
    BY <2>1, <2>3
<1>4. b - n \in S
  BY <1>2
<1>5. Max(S) \in S /\ \A y \in S : Max(S) >= y
  BY <1>3, <1>4 DEF Max
<1>6. QED
  BY <1>5

(* One of naturals has its Min. *)
LEMMA MinIs ==
    ASSUME NEW S \in SUBSET Nat, S # {}
    PROVE  Min(S) \in S /\ \A y \in S : Min(S) <= y
<1>1. \E x \in S : \A y \in S : x <= y
  BY LeastOf
<1>2. QED
  BY <1>1 DEF Min

-----------------------------------------------------------------------------
(* The values of the variables.                                             *)

Windows == App \cup {None}
Kinds == {"focus", "idle", "active", "lock", "suspend", "resume", "recovered",
          "paused", "resumed"}
Entries == [kind : Kinds, sess : Nat, ts : Nat, dur : Nat, app : Windows, prev : Windows]
Segments == [app : App, at : Nat]
Pumps == [cur : Segments \cup {None}, idle : BOOLEAN, suspended : BOOLEAN,
          resumed : Nat \cup {None}, tick : Nat \cup {None}]
OpenSegs == [sess : Nat, app : App, start : Nat]
OpenRows == [sess : Nat, app : App, start : Nat, high : Nat]
Opens == [seg : OpenSegs \cup {None}, row : OpenRows \cup {None}]
Units == [app : Windows, awake : BOOLEAN, gate : {"open", "paused", "recording"}, sess : Nat]

Typed ==
    /\ now \in Nat /\ slept \in Nat /\ sess \in Nat
    /\ power \in {"on", "suspending", "asleep"}
    /\ front \in Windows /\ inputs \in SUBSET Nat
    /\ due \in BOOLEAN /\ notice \in BOOLEAN /\ reseed \in BOOLEAN
    /\ pump \in Pumps /\ gate \in {"open", "paused", "recording"}
    /\ open \in Opens /\ rows \in Seq(Entries)
    /\ ended \in Seq(Nat \cup {None}) /\ past \in Seq(Units)
    /\ dirty \in SUBSET (Nat \X Ops)

(* A row of a dwell. *)
Dwelt(r) == r.kind = "focus" /\ r.prev # None

(* What rows do to the open segment: the last of them that matters decides.  *)
Decides(r) == r.kind \in {"suspend", "lock", "paused", "focus"}
Decided(r) ==
    IF r.kind = "focus" /\ r.app # r.prev
    THEN [seg |-> [sess |-> r.sess, app |-> r.app, start |-> r.ts], row |-> None]
    ELSE Closed

\* A row that matters to the open segment decides what it is.
LEMMA NotedIs ==
    ASSUME NEW o, NEW r
    PROVE  Noted(o, r) = IF Decides(r) THEN Decided(r) ELSE o
BY DEF Noted, Decides, Decided

Folded(o, s, f) ==
    f = [d \in SUBSET (DOMAIN s) |->
            IF d = {} THEN o
            ELSE LET x == Max(d) IN Noted(f[d \ {x}], s[x])]

\* A fold over a sequence is one over its places, the last one first.
LEMMA FoldIs ==
    ASSUME NEW o, NEW s
    PROVE  FoldLeft(Noted, o, s) = (CHOOSE f : Folded(o, s, f))[DOMAIN s]
BY DEF FoldLeft, MapThenFoldSet, Folded

(* Of a family of parts of a finite set, one has no other below it.         *)
LEMMA LeastPart ==
    ASSUME NEW S, IsFiniteSet(S), NEW B \in SUBSET SUBSET S, B # {}
    PROVE  \E s \in B : \A t \in B : t \subseteq s => t = s
<1>1. IsWellFoundedOn(StrictSubsetOrdering(S), FiniteSubsetsOf(S))
  BY FS_StrictSubsetOrderingWellFounded
<1>2. FiniteSubsetsOf(S) = SUBSET S
  BY FS_FiniteSubsetsOfFinite
<1>3. PICK s \in B : \A t \in B : <<t, s>> \notin StrictSubsetOrdering(S)
  BY <1>1, <1>2, WFMin
<1>4. ASSUME NEW t \in B, t \subseteq s, t # s PROVE FALSE
  <2>1. <<t, s>> \in StrictSubsetOrdering(S)
    BY <1>4 DEF StrictSubsetOrdering
  <2>2. QED
    BY <1>3, <2>1
<1>5. QED
  BY <1>4

LEMMA Places ==
    ASSUME NEW C, NEW s \in Seq(C)
    PROVE  /\ Len(s) \in Nat /\ DOMAIN s = 1 .. Len(s) /\ IsFiniteSet(DOMAIN s)
           /\ \A d \in SUBSET DOMAIN s : d # {} => Max(d) \in d /\ \A y \in d : y <= Max(d)
<1>1. Len(s) \in Nat /\ DOMAIN s = 1 .. Len(s)
  OBVIOUS
<1>2. IsFiniteSet(1 .. Len(s))
  BY <1>1, FS_Interval
<1>3. ASSUME NEW d \in SUBSET DOMAIN s, d # {}
      PROVE  Max(d) \in d /\ \A y \in d : y <= Max(d)
  <2>1. d \in SUBSET Int /\ \A x \in d : x <= Len(s)
    BY <1>1
  <2>2. Len(s) \in Int
    BY <1>1
  <2>3. QED
    BY <1>3, <2>1, <2>2, MaxIs
<1>4. QED
  BY <1>1, <1>2, <1>3

Deciding(s, d) == {i \in d : Decides(s[i])}
LastWord(o, s, d) == IF Deciding(s, d) = {} THEN o ELSE Decided(s[Max(Deciding(s, d))])

LEMMA LastWordStep ==
    ASSUME NEW C, NEW s \in Seq(C), NEW o, NEW d \in SUBSET DOMAIN s, d # {}
    PROVE  /\ Max(d) \in d
           /\ LastWord(o, s, d) = Noted(LastWord(o, s, d \ {Max(d)}), s[Max(d)])
<1> DEFINE x == Max(d)
<1>1. x \in d /\ (\A y \in d : y <= x) /\ \A y \in d : y \in Nat
  BY Places
<1> HIDE DEF x
<1>2. CASE Decides(s[x])
  <2>1. Deciding(s, d) # {} /\ x \in Deciding(s, d) /\ Deciding(s, d) \in SUBSET DOMAIN s
    BY <1>1, <1>2 DEF Deciding
  <2>2. Max(Deciding(s, d)) \in Deciding(s, d) /\ x <= Max(Deciding(s, d))
    BY <2>1, Places
  <2>3. Max(Deciding(s, d)) \in d
    BY <2>2 DEF Deciding
  <2>4. Max(Deciding(s, d)) = x
    BY <1>1, <2>2, <2>3
  <2>5. QED
    BY <1>1, <1>2, <2>1, <2>4, NotedIs DEF LastWord, x
<1>3. CASE ~Decides(s[x])
  <2>1. Deciding(s, d \ {x}) = Deciding(s, d)
    BY <1>3 DEF Deciding
  <2>2. QED
    BY <1>1, <1>3, <2>1, NotedIs DEF LastWord, x
<1>4. QED
  BY <1>2, <1>3

\* What a batch of rows makes of the open segment.
LEMMA NotedAll ==
    ASSUME NEW C, NEW s \in Seq(C), NEW o
    PROVE  FoldLeft(Noted, o, s) = LastWord(o, s, DOMAIN s)
<1> DEFINE D == DOMAIN s
           g == [d \in SUBSET D |-> LastWord(o, s, d)]
           f == CHOOSE f : Folded(o, s, f)
<1>1. Folded(o, s, g)
  <2>1. ASSUME NEW d \in SUBSET D
        PROVE  g[d] = IF d = {} THEN o ELSE LET x == Max(d) IN Noted(g[d \ {x}], s[x])
    <3>1. CASE d = {}
      BY <3>1 DEF LastWord, Deciding
    <3>2. CASE d # {}
      BY <3>2, LastWordStep
    <3>3. QED
      BY <3>1, <3>2
  <2>2. QED
    BY <2>1 DEF Folded
<1>2. Folded(o, s, f)
  BY <1>1
<1>3. \A d \in SUBSET D : f[d] = IF d = {} THEN o ELSE LET x == Max(d) IN Noted(f[d \ {x}], s[x])
  <2> HIDE DEF f
  <2>1. QED
    BY <1>2 DEF Folded
<1> HIDE DEF f
<1>4. \A d \in SUBSET D : f[d] = LastWord(o, s, d)
  <2> DEFINE B == {d \in SUBSET D : f[d] # LastWord(o, s, d)}
  <2>1. SUFFICES ASSUME B # {} PROVE FALSE
    OBVIOUS
  <2>2. B \in SUBSET SUBSET D /\ IsFiniteSet(D)
    BY Places
  <2>3. PICK d \in B : \A e \in B : e \subseteq d => e = d
    <3> HIDE DEF B, D
    <3>1. QED
      BY <2>1, <2>2, LeastPart
  <2>4. d \in SUBSET D /\ f[d] # LastWord(o, s, d)
    OBVIOUS
  <2>5. CASE d = {}
    BY <1>3, <2>4, <2>5 DEF LastWord, Deciding
  <2>6. CASE d # {}
    <3> DEFINE x == Max(d)
    <3>1. x \in d /\ LastWord(o, s, d) = Noted(LastWord(o, s, d \ {x}), s[x])
      BY <2>4, <2>6, LastWordStep
    <3>2. f[d] = Noted(f[d \ {x}], s[x])
      BY <1>3, <2>4, <2>6
    <3> HIDE DEF x
    <3>3. f[d \ {x}] # LastWord(o, s, d \ {x})
      BY <2>4, <3>1, <3>2
    <3>4. d \ {x} \in B /\ d \ {x} \subseteq d /\ d \ {x} # d
      BY <2>4, <3>1, <3>3
    <3>5. QED
      BY <2>3, <3>4
  <2>7. QED
    BY <2>5, <2>6
<1>5. QED
  BY <1>4, FoldIs DEF f

LEMMA NotedNone ==
    ASSUME NEW o, NEW C
    PROVE  FoldLeft(Noted, o, <<>>) = o
<1>1. <<>> \in Seq(C) /\ DOMAIN <<>> = {}
  OBVIOUS
<1>2. Deciding(<<>>, {}) = {}
  BY DEF Deciding
<1>3. QED
  BY <1>1, <1>2, NotedAll DEF LastWord

LEMMA NotedOne ==
    ASSUME NEW o, NEW r
    PROVE  FoldLeft(Noted, o, <<r>>) = Noted(o, r)
<1> DEFINE s == <<r>>
<1>1. s \in Seq({r}) /\ DOMAIN s = {1} /\ s[1] = r
  <2>1. DOMAIN s = 1 .. 1 /\ 1 .. 1 = {1}
    OBVIOUS
  <2>2. QED
    BY <2>1
<1>2. FoldLeft(Noted, o, s) = LastWord(o, s, DOMAIN s)
  BY <1>1, NotedAll
<1> HIDE DEF s
<1>3. Max({1}) = 1 /\ {1} \ {1} = {} /\ {1} # {} /\ {1} \in SUBSET DOMAIN s
  <2>1. {1} # {} /\ {1} \in SUBSET DOMAIN s
    BY <1>1
  <2>2. Max({1}) \in {1}
    BY <1>1, <2>1, Places
  <2>3. QED
    BY <2>1, <2>2
<1>4. LastWord(o, s, {1}) = Noted(LastWord(o, s, {}), s[1])
  BY <1>1, <1>3, LastWordStep
<1>5. LastWord(o, s, {}) = o
  BY DEF LastWord, Deciding
<1>6. QED
  BY <1>1, <1>2, <1>4, <1>5 DEF s

\* Two batches are noted as one.
LEMMA NotedJoined ==
    ASSUME NEW C, NEW s \in Seq(C), NEW t \in Seq(C), NEW o
    PROVE  FoldLeft(Noted, o, s \o t) = FoldLeft(Noted, FoldLeft(Noted, o, s), t)
<1> DEFINE u == s \o t
           here(v) == Deciding(v, DOMAIN v)
<1>1. /\ u \in Seq(C) /\ Len(s) \in Nat /\ Len(t) \in Nat /\ Len(u) = Len(s) + Len(t)
      /\ DOMAIN s = 1 .. Len(s) /\ DOMAIN t = 1 .. Len(t) /\ DOMAIN u = 1 .. Len(u)
      /\ \A k \in 1 .. Len(s) : u[k] = s[k]
      /\ \A k \in 1 .. Len(t) : u[Len(s) + k] = t[k]
  BY ConcatProperties
<1> HIDE DEF u
<1>2. \A i : i \in here(u) <=> i \in here(s) \/ (\E k \in here(t) : i = Len(s) + k)
  <2>1. ASSUME NEW i \in here(u) PROVE i \in here(s) \/ (\E k \in here(t) : i = Len(s) + k)
    <3>1. i \in 1 .. Len(u) /\ Decides(u[i])
      BY <1>1 DEF Deciding
    <3>2. CASE i <= Len(s)
      <4>1. i \in 1 .. Len(s)
        BY <3>1, <3>2, <1>1
      <4>2. QED
        BY <4>1, <3>1, <1>1 DEF Deciding
    <3>3. CASE ~(i <= Len(s))
      <4>1. i - Len(s) \in 1 .. Len(t) /\ i = Len(s) + (i - Len(s))
        BY <3>1, <3>3, <1>1
      <4>2. i - Len(s) \in here(t)
        BY <4>1, <3>1, <1>1 DEF Deciding
      <4>3. QED
        BY <4>1, <4>2
    <3>4. QED
      BY <3>2, <3>3
  <2>2. ASSUME NEW i \in here(s) PROVE i \in here(u)
    <3>1. i \in 1 .. Len(s) /\ i \in 1 .. Len(u) /\ Decides(s[i])
      BY <1>1 DEF Deciding
    <3>2. QED
      BY <3>1, <1>1 DEF Deciding
  <2>3. ASSUME NEW k \in here(t) PROVE Len(s) + k \in here(u)
    <3>1. k \in 1 .. Len(t) /\ Len(s) + k \in 1 .. Len(u) /\ Decides(t[k])
      BY <1>1 DEF Deciding
    <3>2. QED
      BY <3>1, <1>1 DEF Deciding
  <2>4. QED
    BY <2>1, <2>2, <2>3
<1>3. /\ here(u) \in SUBSET DOMAIN u /\ here(s) \in SUBSET DOMAIN s /\ here(t) \in SUBSET DOMAIN t
  BY DEF Deciding
<1>4. /\ FoldLeft(Noted, o, u) = LastWord(o, u, DOMAIN u)
      /\ FoldLeft(Noted, o, s) = LastWord(o, s, DOMAIN s)
      /\ \A p : FoldLeft(Noted, p, t) = LastWord(p, t, DOMAIN t)
  BY <1>1, NotedAll
<1>5. CASE here(t) # {}
  <2>1. Max(here(t)) \in here(t) /\ \A k \in here(t) : k <= Max(here(t))
    <3> HIDE DEF here
    <3>1. QED
      BY <1>3, <1>5, Places
  <2>2. Len(s) + Max(here(t)) \in here(u) /\ here(u) # {}
    <3> HIDE DEF here
    <3>1. QED
      BY <1>2, <2>1
  <2>3. Max(here(u)) \in here(u) /\ \A k \in here(u) : k <= Max(here(u))
    <3> HIDE DEF here
    <3>1. QED
      BY <1>1, <1>3, <2>2, Places
  <2>4. Max(here(t)) \in 1 .. Len(t)
    BY <2>1, <1>1, <1>3
  <2>5. Max(here(u)) = Len(s) + Max(here(t))
    <3>1. Max(here(u)) \in 1 .. Len(u) /\ Len(s) + Max(here(t)) <= Max(here(u))
      <4> HIDE DEF here
      <4>1. QED
        BY <1>1, <1>3, <2>2, <2>3
    <3>2. CASE Max(here(u)) \in here(s)
      <4>1. Max(here(u)) \in 1 .. Len(s)
        BY <3>2, <1>1, <1>3
      <4>2. QED
        BY <4>1, <3>1, <2>4, <1>1
    <3>3. ASSUME NEW k \in here(t), Max(here(u)) = Len(s) + k PROVE Max(here(u)) = Len(s) + Max(here(t))
      <4>1. k \in 1 .. Len(t) /\ k <= Max(here(t))
        BY <1>1, <1>3, <2>1
      <4>2. QED
        BY <4>1, <3>1, <3>3, <2>4, <1>1
    <3>4. QED
      <4> HIDE DEF here
      <4>1. QED
        BY <1>2, <2>3, <3>2, <3>3
  <2>6. u[Max(here(u))] = t[Max(here(t))]
    BY <2>4, <2>5, <1>1
  <2>7. QED
    BY <1>4, <1>5, <2>2, <2>6 DEF LastWord, u
<1>6. CASE here(t) = {}
  <2>1. here(u) = here(s)
    <3> HIDE DEF here
    <3>1. QED
      BY <1>2, <1>6
  <2>2. CASE here(s) = {}
    BY <1>4, <1>6, <2>1, <2>2 DEF LastWord, u
  <2>3. CASE here(s) # {}
    <3>1. Max(here(s)) \in here(s)
      <4> HIDE DEF here
      <4>1. QED
        BY <1>3, <2>3, Places
    <3>2. u[Max(here(s))] = s[Max(here(s))]
      BY <3>1, <1>1, <1>3
    <3>3. QED
      BY <1>4, <1>6, <2>1, <2>3, <3>2 DEF LastWord, u
  <2>4. QED
    BY <2>2, <2>3
<1>7. QED
  BY <1>5, <1>6

-----------------------------------------------------------------------------
(* The spans of the read layer, unit by unit.                               *)

Is(k, s, kind) == rows[k].sess = s /\ rows[k].kind = kind

(* No row of that kind comes later than row k.                              *)
Unanswered(k, s, kind) == \A j \in DOMAIN rows : Is(j, s, kind) => rows[j].ts <= rows[k].ts

Answered(k, s, kind, t) ==
    /\ \E j \in DOMAIN rows : Is(j, s, kind) /\ rows[j].ts > rows[k].ts
    /\ \A j \in DOMAIN rows : Is(j, s, kind) /\ rows[j].ts > rows[k].ts => t < rows[j].ts

Under(k, s, kind, t) ==
    /\ t \in Nat /\ rows[k].ts - rows[k].dur <= t
    /\ \/ Answered(k, s, kind, t)
       \/ /\ Unanswered(k, s, kind)
          /\ ended[s] # None /\ rows[k].ts < ended[s] /\ t < ended[s]

Recovering(k, s, t) ==
    /\ t \in Nat /\ rows[k].ts - rows[k].dur <= t /\ t < rows[k].ts
    /\ \A j \in DOMAIN rows : Is(j, s, "suspend") /\ rows[j].ts <= rows[k].ts => rows[j].ts <= t

Rests(k, s, t) ==
    \/ Is(k, s, "suspend") /\ Under(k, s, "resume", t)
    \/ Is(k, s, "paused") /\ Under(k, s, "resumed", t)
    \/ Is(k, s, "recovered") /\ Recovering(k, s, t)
    \/ Is(k, s, "idle") /\ Under(k, s, "active", t)

\* The rows and the ends of the sessions have their types.
LEMMA RowsAre ==
    ASSUME Typed
    PROVE  /\ Len(rows) \in Nat /\ DOMAIN rows = 1 .. Len(rows)
           /\ \A k \in DOMAIN rows :
                 /\ rows[k] \in Entries
                 /\ rows[k].kind \in Kinds /\ rows[k].sess \in Nat /\ rows[k].ts \in Nat
                 /\ rows[k].dur \in Nat /\ rows[k].app \in Windows /\ rows[k].prev \in Windows
           /\ \A s \in DOMAIN ended : ended[s] = None \/ ended[s] \in Nat
<1>1. rows \in Seq(Entries) /\ ended \in Seq(Nat \cup {None})
  BY DEF Typed
<1>2. Len(rows) \in Nat /\ DOMAIN rows = 1 .. Len(rows) /\ \A k \in DOMAIN rows : rows[k] \in Entries
  BY <1>1
<1>3. \A s \in DOMAIN ended : ended[s] \in Nat \cup {None}
  BY <1>1
<1>4. \A r \in Entries : /\ r.kind \in Kinds /\ r.sess \in Nat /\ r.ts \in Nat
                          /\ r.dur \in Nat /\ r.app \in Windows /\ r.prev \in Windows
  BY DEF Entries
<1>5. QED
  BY <1>2, <1>3, <1>4

AwayFact == \A s \in DOMAIN ended : \A t : t \in Away(s) <=> \E k \in DOMAIN rows : Rests(k, s, t)
PairFact == \A s \in DOMAIN ended : \A k \in DOMAIN rows : \A kind, t :
               t \in PairedSpan(s, rows[k], kind) <=> Under(k, s, kind, t)

\* PairedSpan, unit by unit.
LEMMA PairedIs == Typed => PairFact
<1> SUFFICES ASSUME Typed, NEW s \in DOMAIN ended, NEW k \in DOMAIN rows, NEW kind, NEW t
             PROVE  t \in PairedSpan(s, rows[k], kind) <=> Under(k, s, kind, t)
  BY DEF PairFact
<1> DEFINE r == rows[k]
           later == {q.ts : q \in {x \in OfKind(s, kind) : x.ts > r.ts}}
<1>1. /\ r.ts \in Nat /\ r.dur \in Nat /\ (ended[s] = None \/ ended[s] \in Nat)
      /\ \A j \in DOMAIN rows : rows[j].ts \in Nat
  BY RowsAre
<1>2. \A x : x \in later <=> \E j \in DOMAIN rows : Is(j, s, kind) /\ rows[j].ts > r.ts /\ x = rows[j].ts
  BY DEF OfKind, Is
<1>3. later \in SUBSET Nat
  <2> HIDE DEF later
  <2>1. QED
    BY <1>1, <1>2
<1>4. EndOf(s, r, kind) = IF later # {} THEN Min(later) ELSE IF ended[s] = None THEN r.ts ELSE ended[s]
  BY DEF EndOf
<1>5. None \notin Nat
  BY PresenceConstants
<1> HIDE DEF later
<1>6. later # {} => Min(later) \in later /\ \A y \in later : Min(later) <= y
  BY <1>3, MinIs
<1>7. EndOf(s, r, kind) \in Nat
  BY <1>1, <1>3, <1>4, <1>6
<1>8. Max({0, r.ts - r.dur}) \in {0, r.ts - r.dur} /\ 0 <= Max({0, r.ts - r.dur})
         /\ r.ts - r.dur <= Max({0, r.ts - r.dur})
  <2>1. {0, r.ts - r.dur} \in SUBSET Int /\ {0, r.ts - r.dur} # {}
        /\ r.ts \in Int /\ \A x \in {0, r.ts - r.dur} : x <= r.ts
    BY <1>1
  <2>2. QED
    <3> HIDE DEF r
    <3>1. QED
      BY <2>1, MaxIs
<1>9. t \in PairedSpan(s, r, kind) <=>
         t \in Nat /\ r.ts - r.dur <= t /\ r.ts < EndOf(s, r, kind) /\ t < EndOf(s, r, kind)
  <2> DEFINE e == EndOf(s, r, kind)
             b == Max({0, r.ts - r.dur})
  <2>1. t \in PairedSpan(s, r, kind) <=> ~(e <= r.ts) /\ t \in b .. e - 1
    BY DEF PairedSpan, Span
  <2>2. e \in Nat /\ b \in Int /\ 0 <= b /\ r.ts - r.dur <= b /\ (b = 0 \/ b = r.ts - r.dur)
    BY <1>1, <1>7, <1>8
  <2> HIDE DEF e, b
  <2>3. QED
    BY <2>1, <2>2, <1>1 DEF e
<1>10. CASE later # {}
  <2>1. \A x \in later : t < x <=> \A y \in later : TRUE => t < x
    OBVIOUS
  <2>2. t \in Nat => (t < Min(later) <=> \A y \in later : t < y)
    <3> DEFINE m == Min(later)
    <3>1. m \in later /\ (\A y \in later : m <= y) /\ \A y \in later : y \in Nat
      BY <1>3, <1>6, <1>10
    <3> HIDE DEF m
    <3>2. QED
      BY <3>1 DEF m
  <2>3. r.ts < Min(later)
    BY <1>2, <1>6, <1>10
  <2>4. Answered(k, s, kind, t) <=> \A y \in later : t < y
    BY <1>2, <1>10 DEF Answered
  <2>5. ~Unanswered(k, s, kind)
    BY <1>1, <1>2, <1>10 DEF Unanswered
  <2>6. QED
    BY <1>9, <1>10, <1>4, <2>2, <2>3, <2>4, <2>5 DEF Under
<1>11. CASE later = {}
  <2>1. ~Answered(k, s, kind, t)
    BY <1>2, <1>11 DEF Answered
  <2>2. Unanswered(k, s, kind)
    BY <1>1, <1>2, <1>11 DEF Unanswered
  <2>3. QED
    BY <1>1, <1>4, <1>5, <1>9, <1>11, <2>1, <2>2 DEF Under
<1>12. QED
  BY <1>10, <1>11

\* RecoveredSpan, unit by unit.
LEMMA RecoveredIs ==
    ASSUME Typed, NEW s, NEW k \in DOMAIN rows, NEW t
    PROVE  t \in RecoveredSpan(s, rows[k]) <=> Recovering(k, s, t)
<1> DEFINE r == rows[k]
           before == {q.ts : q \in {x \in OfKind(s, "suspend") : x.ts <= r.ts}}
           S == {0, r.ts - r.dur} \cup before
<1>1. r.ts \in Nat /\ r.dur \in Nat /\ \A j \in DOMAIN rows : rows[j].ts \in Nat
  BY RowsAre
<1>2. \A x : x \in before <=> \E j \in DOMAIN rows : Is(j, s, "suspend") /\ rows[j].ts <= r.ts /\ x = rows[j].ts
  BY DEF OfKind, Is
<1>3. t \in RecoveredSpan(s, r) <=> t \in Max(S) .. r.ts - 1
  BY DEF RecoveredSpan, Span
<1> HIDE DEF before
<1>4. S \in SUBSET Int /\ S # {} /\ r.ts \in Int /\ \A x \in S : x <= r.ts
  BY <1>1, <1>2
<1>5. 0 \in S /\ r.ts - r.dur \in S /\ \A x \in before : x \in S
  OBVIOUS
<1>6. \A x \in S : x = 0 \/ x = r.ts - r.dur \/ x \in before
  OBVIOUS
<1> HIDE DEF S, r
<1>7. Max(S) \in S /\ \A y \in S : y <= Max(S)
  BY <1>4, MaxIs
<1>8. ASSUME t \in RecoveredSpan(s, r) PROVE Recovering(k, s, t)
  <2>1. t \in Int /\ Max(S) <= t /\ t < r.ts /\ Max(S) \in Int
    BY <1>1, <1>3, <1>4, <1>7, <1>8
  <2>2. \A y \in S : y <= t
    BY <2>1, <1>4, <1>7
  <2>3. t \in Nat /\ r.ts - r.dur <= t /\ \A x \in before : x <= t
    BY <2>1, <2>2, <1>5
  <2>4. QED
    BY <2>1, <2>3, <1>2 DEF Recovering, r
<1>9. ASSUME Recovering(k, s, t) PROVE t \in RecoveredSpan(s, r)
  <2>1. t \in Nat /\ r.ts - r.dur <= t /\ t < r.ts
    BY <1>9 DEF Recovering, r
  <2>2. \A x \in before : x <= t
    BY <1>9, <1>2 DEF Recovering, r
  <2>3. \A x \in S : x <= t
    BY <2>1, <2>2, <1>6
  <2> DEFINE m == Max(S)
  <2>4. m \in S
    BY <1>7
  <2>5. t \in RecoveredSpan(s, r) <=> t \in m .. r.ts - 1
    BY <1>3
  <2> HIDE DEF m
  <2>6. t \in Int /\ m \in Int /\ m <= t /\ r.ts \in Int
    BY <2>1, <2>3, <2>4, <1>4
  <2>7. QED
    BY <2>1, <2>5, <2>6
<1>10. QED
  BY <1>8, <1>9 DEF r

\* Away, unit by unit: some row takes the unit away.
LEMMA AwayIs == Typed => AwayFact
<1> SUFFICES ASSUME Typed, NEW s \in DOMAIN ended, NEW t
             PROVE  t \in Away(s) <=> \E k \in DOMAIN rows : Rests(k, s, t)
  BY DEF AwayFact
<1>1. ASSUME NEW from, NEW to
      PROVE  t \in Paired(s, from, to) <=> \E k \in DOMAIN rows : Is(k, s, from) /\ Under(k, s, to, t)
  <2>1. t \in Paired(s, from, to) <=>
           \E k \in DOMAIN rows : Is(k, s, from) /\ t \in PairedSpan(s, rows[k], to)
    BY DEF Paired, OfKind, Is
  <2>2. QED
    BY <2>1, PairedIs DEF PairFact
<1>2. t \in UNION {RecoveredSpan(s, r) : r \in OfKind(s, "recovered")}
         <=> \E k \in DOMAIN rows : Is(k, s, "recovered") /\ Recovering(k, s, t)
  <2>1. t \in UNION {RecoveredSpan(s, r) : r \in OfKind(s, "recovered")}
           <=> \E k \in DOMAIN rows : Is(k, s, "recovered") /\ t \in RecoveredSpan(s, rows[k])
    BY DEF OfKind, Is
  <2>2. QED
    BY <2>1, RecoveredIs
<1>3. t \in Away(s) <=> \/ t \in Paired(s, "suspend", "resume") \/ t \in Paired(s, "paused", "resumed")
                        \/ t \in UNION {RecoveredSpan(s, r) : r \in OfKind(s, "recovered")}
                        \/ t \in Paired(s, "idle", "active")
  BY DEF Away, Asleep
<1>4. QED
  BY <1>1, <1>2, <1>3 DEF Rests

LEMMA AwayNext == Typed' => AwayFact'
BY AwayIs, PTL


-----------------------------------------------------------------------------
(* Rows that are added.                                                     *)

\* What a sequence joined to another holds.
LEMMA Joined ==
    ASSUME NEW C, NEW s \in Seq(C), NEW t \in Seq(C)
    PROVE  /\ s \o t \in Seq(C) /\ Range(s \o t) = Range(s) \cup Range(t)
           /\ Len(s) \in Nat /\ DOMAIN s = 1 .. Len(s) /\ DOMAIN t = 1 .. Len(t)
           /\ \A k \in DOMAIN s : k \in DOMAIN (s \o t) /\ (s \o t)[k] = s[k]
           /\ \A k \in DOMAIN t : Len(s) + k \in DOMAIN (s \o t) /\ (s \o t)[Len(s) + k] = t[k]
           /\ \A k \in DOMAIN (s \o t) :
                 k \in DOMAIN s \/ (\E i \in DOMAIN t : k = Len(s) + i /\ (s \o t)[k] = t[i])
<1> DEFINE u == s \o t
<1>1. /\ u \in Seq(C) /\ Len(s) \in Nat /\ Len(t) \in Nat /\ Len(u) = Len(s) + Len(t)
      /\ DOMAIN s = 1 .. Len(s) /\ DOMAIN t = 1 .. Len(t) /\ DOMAIN u = 1 .. Len(u)
      /\ \A k \in 1 .. Len(s) : u[k] = s[k]
      /\ \A k \in 1 .. Len(t) : u[Len(s) + k] = t[k]
  BY ConcatProperties
<1> HIDE DEF u
<1>2. \A k \in DOMAIN s : k \in DOMAIN u /\ u[k] = s[k]
  BY <1>1
<1>3. \A k \in DOMAIN t : Len(s) + k \in DOMAIN u /\ u[Len(s) + k] = t[k]
  BY <1>1
<1>4. ASSUME NEW k \in DOMAIN u
      PROVE  k \in DOMAIN s \/ (\E i \in DOMAIN t : k = Len(s) + i /\ u[k] = t[i])
  <2>1. CASE k <= Len(s)
    BY <1>1, <2>1
  <2>2. CASE ~(k <= Len(s))
    <3>1. k - Len(s) \in DOMAIN t /\ k = Len(s) + (k - Len(s))
      BY <1>1, <2>2
    <3>2. QED
      BY <3>1, <1>3
  <2>3. QED
    BY <2>1, <2>2
<1>5. Range(u) = Range(s) \cup Range(t)
  <2>1. ASSUME NEW x \in Range(u) PROVE x \in Range(s) \cup Range(t)
    <3>1. PICK k \in DOMAIN u : x = u[k]
      BY DEF Range
    <3>2. QED
      BY <3>1, <1>2, <1>4 DEF Range
  <2>2. ASSUME NEW x \in Range(s) PROVE x \in Range(u)
    <3>1. PICK k \in DOMAIN s : x = s[k]
      BY DEF Range
    <3>2. QED
      BY <3>1, <1>2 DEF Range
  <2>3. ASSUME NEW x \in Range(t) PROVE x \in Range(u)
    <3>1. PICK k \in DOMAIN t : x = t[k]
      BY DEF Range
    <3>2. QED
      BY <3>1, <1>3 DEF Range
  <2>4. QED
    BY <2>1, <2>2, <2>3
<1>6. QED
  BY <1>1, <1>2, <1>3, <1>4, <1>5 DEF u

LEMMA Single ==
    ASSUME NEW C, NEW r \in C
    PROVE  <<r>> \in Seq(C) /\ Range(<<r>>) = {r} /\ DOMAIN <<r>> = {1} /\ <<r>>[1] = r
<1>1. <<r>> \in Seq(C) /\ <<r>>[1] = r
  OBVIOUS
<1>2. DOMAIN <<r>> = {1}
  <2>1. DOMAIN <<r>> = 1 .. 1 /\ 1 .. 1 = {1}
    OBVIOUS
  <2>2. QED
    BY <2>1
<1>3. QED
  BY <1>1, <1>2 DEF Range

LEMMA RangeIn ==
    ASSUME NEW C, NEW s \in Seq(C)
    PROVE  /\ \A x \in Range(s) : x \in C /\ \E k \in DOMAIN s : x = s[k]
           /\ \A k \in DOMAIN s : s[k] \in Range(s) /\ k \in Nat /\ k >= 1
<1>1. DOMAIN s = 1 .. Len(s) /\ Len(s) \in Nat /\ \A k \in DOMAIN s : s[k] \in C
  OBVIOUS
<1>2. \A k \in DOMAIN s : k \in Nat /\ k >= 1
  BY <1>1
<1>3. QED
  BY <1>1, <1>2 DEF Range

LEMMA Nothing ==
    ASSUME NEW C
    PROVE  <<>> \in Seq(C) /\ Range(<<>>) = {} /\ DOMAIN <<>> = {}
           /\ \A s \in Seq(C) : s \o <<>> = s
BY DEF Range

(* A step that only adds rows of what happens now, and may end sessions.     *)
Grows(new) ==
    /\ new \in Seq(Entries) /\ rows' = rows \o new
    /\ \A r \in Range(new) : r.kind = "focus" \/ (Running /\ r.sess = sess /\ r.ts = now)
    /\ (\E r \in Range(new) : r.kind = "suspend") =>
          \A k \in DOMAIN rows : rows[k].kind = "recovered" => rows[k].ts < now
    /\ DOMAIN ended \subseteq DOMAIN ended'
    /\ \A s \in DOMAIN ended : ended[s] # None => ended'[s] = ended[s]

(* What the rows and the session say stays true.                            *)
LEMMA AwayGrows ==
    ASSUME Typed, Typed', NEW new, Grows(new),
           \A k \in DOMAIN rows : rows[k].ts <= now,
           Running => ended[sess] = None,
           NEW s \in DOMAIN ended, NEW t \in Away(s)
    PROVE  t \in Away(s)'
<1>1. PICK k \in DOMAIN rows : Rests(k, s, t)
  BY AwayIs DEF AwayFact
<1>2. /\ new \in Seq(Entries) /\ rows \in Seq(Entries) /\ rows' = rows \o new
      /\ s \in DOMAIN ended'
  BY DEF Grows, Typed
<1>3. /\ \A j \in DOMAIN rows : j \in DOMAIN rows' /\ rows'[j] = rows[j]
      /\ \A j \in DOMAIN rows' : j \in DOMAIN rows \/ rows'[j] \in Range(new)
  BY <1>2, Joined DEF Range
<1>4. \A j \in DOMAIN rows : rows[j].ts \in Nat /\ rows[j].dur \in Nat
  BY RowsAre
<1>5. now \in Nat /\ (ended[s] = None \/ ended[s] \in Nat)
  BY RowsAre DEF Typed
<1>6. ASSUME NEW kind, kind # "focus", Under(k, s, kind, t)
      PROVE  Under(k, s, kind, t)'
  <2>1. ASSUME NEW j \in DOMAIN rows', Is(j, s, kind)'
        PROVE  (j \in DOMAIN rows /\ Is(j, s, kind) /\ rows'[j] = rows[j])
               \/ (rows'[j].ts = now /\ Running /\ s = sess)
    <3>1. CASE j \in DOMAIN rows
      BY <3>1, <2>1, <1>3 DEF Is
    <3>2. CASE rows'[j] \in Range(new)
      BY <3>2, <2>1, <1>6 DEF Is, Grows
    <3>3. QED
      BY <3>1, <3>2, <1>3
  <2>2. \A j \in DOMAIN rows : Is(j, s, kind) => Is(j, s, kind)'
    BY <1>3 DEF Is
  <2>3. CASE Answered(k, s, kind, t)
    <3>1. PICK j \in DOMAIN rows : Is(j, s, kind) /\ rows[j].ts > rows[k].ts
      BY <2>3 DEF Answered
    <3>2. t < now /\ t \in Nat
      <4>1. t < rows[j].ts
        BY <2>3, <3>1 DEF Answered
      <4>2. QED
        BY <4>1, <1>4, <1>5, <1>6 DEF Under
    <3>3. j \in DOMAIN rows' /\ Is(j, s, kind)' /\ rows'[j].ts > rows'[k].ts
      BY <3>1, <2>2, <1>3
    <3>4. \A i \in DOMAIN rows' : Is(i, s, kind)' /\ rows'[i].ts > rows'[k].ts => t < rows'[i].ts
      BY <2>1, <2>3, <3>2, <1>3 DEF Answered
    <3>5. QED
      BY <3>3, <3>4, <1>3, <1>6 DEF Under, Answered
  <2>4. CASE ~Answered(k, s, kind, t)
    <3>1. Unanswered(k, s, kind) /\ ended[s] # None /\ rows[k].ts < ended[s] /\ t < ended[s]
      BY <2>4, <1>6 DEF Under
    <3>2. ended'[s] = ended[s] /\ ~(Running /\ s = sess)
      BY <3>1 DEF Grows
    <3>3. Unanswered(k, s, kind)'
      BY <2>1, <3>1, <3>2, <1>3 DEF Unanswered
    <3>4. QED
      BY <3>1, <3>2, <3>3, <1>3, <1>6 DEF Under
  <2>5. QED
    BY <2>3, <2>4
<1>7. \A kind : Is(k, s, kind) => Is(k, s, kind)'
  BY <1>3 DEF Is
<1>8. ASSUME Is(k, s, "recovered"), Recovering(k, s, t) PROVE Recovering(k, s, t)'
  <2>1. t \in Nat /\ rows[k].ts - rows[k].dur <= t /\ t < rows[k].ts /\ rows'[k] = rows[k]
    BY <1>3, <1>8 DEF Recovering
  <2>2. ASSUME NEW j \in DOMAIN rows', Is(j, s, "suspend")', rows'[j].ts <= rows'[k].ts
        PROVE  rows'[j].ts <= t
    <3>1. CASE j \in DOMAIN rows
      BY <3>1, <2>1, <2>2, <1>3, <1>8 DEF Recovering, Is
    <3>2. CASE rows'[j] \in Range(new)
      <4>1. rows'[j].kind = "suspend" /\ rows'[j].ts = now
        BY <3>2, <2>2 DEF Is, Grows
      <4>2. rows[k].ts < now
        BY <4>1, <3>2, <1>8 DEF Grows, Is
      <4>3. QED
        BY <4>1, <4>2, <2>1, <2>2, <1>4, <1>5
    <3>3. QED
      BY <3>1, <3>2, <1>3
  <2>3. QED
    BY <2>1, <2>2 DEF Recovering
<1>9. Rests(k, s, t)'
  BY <1>1, <1>6, <1>7, <1>8 DEF Rests
<1>10. QED
  BY <1>2, <1>3, <1>9, AwayNext DEF AwayFact

-----------------------------------------------------------------------------
(* What the parts of the pump make of its state and send.                   *)

(* The writer's open segment is the pump's.                                 *)
InStep(x, p) ==
    x.seg # None => p.cur # None /\ p.cur.at = x.seg.start /\ p.cur.app = x.seg.app

(* The rows leave the open segment alone, end it or open one now.           *)
Opened(x, y) ==
    \/ y = x
    \/ y \in Opens /\ y.row = None /\ (y.seg = None \/ (y.seg.sess = sess /\ y.seg.start = now))

Outcome(p, o, to) ==
    /\ o.pump \in Pumps /\ o.rows \in Seq(Entries)
    /\ o.pump.cur = p.cur \/ o.pump.cur = None \/ (to # None /\ o.pump.cur = [app |-> to, at |-> now])
    /\ \A r \in Range(o.rows) :
          /\ r.sess = sess /\ r.ts = now /\ r.dur <= now
          /\ Dwelt(r) =>
                /\ r.dur = 0 \/ (p.cur # None /\ r.prev = p.cur.app /\ r.dur <= now - p.cur.at)
                /\ o.pump.cur = None \/ o.pump.cur.at = now
    /\ \A i, j \in DOMAIN o.rows :
          i < j /\ Dwelt(o.rows[i]) /\ Dwelt(o.rows[j]) => o.rows[j].dur = 0
    /\ \A x \in Opens : /\ Opened(x, FoldLeft(Noted, x, o.rows))
                        /\ InStep(x, p) => InStep(FoldLeft(Noted, x, o.rows), o.pump)

LEMMA PumpsAre ==
    ASSUME NEW p \in Pumps
    PROVE  /\ p.cur = None \/ (p.cur \in Segments /\ p.cur.app \in App /\ p.cur.at \in Nat)
           /\ p.idle \in BOOLEAN /\ p.suspended \in BOOLEAN
           /\ p.resumed = None \/ p.resumed \in Nat
           /\ p.tick = None \/ p.tick \in Nat
BY DEF Pumps, Segments

LEMMA OpensAre ==
    ASSUME NEW x \in Opens
    PROVE  /\ x.seg = None \/ (x.seg \in OpenSegs /\ x.seg.sess \in Nat /\ x.seg.app \in App /\ x.seg.start \in Nat)
           /\ x.row = None \/ (/\ x.row \in OpenRows /\ x.row.sess \in Nat /\ x.row.app \in App
                               /\ x.row.start \in Nat /\ x.row.high \in Nat)
BY DEF Opens, OpenSegs, OpenRows

LEMMA Absent ==
    /\ None \notin App /\ None \notin Nat /\ None \notin Segments /\ None \notin OpenSegs
    /\ None \notin OpenRows
BY PresenceConstants, AbsentValues DEF Segments, OpenSegs, OpenRows

LEMMA ClosedIs == Closed \in Opens /\ Closed.seg = None /\ Closed.row = None
BY DEF Closed, Opens

LEMMA RowIs ==
    ASSUME Typed, NEW kind \in Kinds, NEW d \in Nat, NEW a \in Windows, NEW b \in Windows
    PROVE  /\ Row(kind, d, a, b) \in Entries
           /\ Row(kind, d, a, b).kind = kind /\ Row(kind, d, a, b).sess = sess
           /\ Row(kind, d, a, b).ts = now /\ Row(kind, d, a, b).dur = d
           /\ Row(kind, d, a, b).app = a /\ Row(kind, d, a, b).prev = b
BY DEF Row, Entries, Typed

(* What one row does to the open segment.                                   *)
LEMMA OneRow ==
    ASSUME Typed, NEW r \in Entries, r.sess = sess, r.ts = now, r.kind = "focus" => r.app \in App,
           NEW x \in Opens
    PROVE  Opened(x, Noted(x, r))
<1>1. CASE r.kind = "focus" /\ r.app # r.prev
  <2> DEFINE y == [seg |-> [sess |-> r.sess, app |-> r.app, start |-> r.ts], row |-> None]
  <2>1. Noted(x, r) = y
    BY <1>1 DEF Noted
  <2>2. y \in Opens
    BY <1>1 DEF Opens, OpenSegs, Entries
  <2>3. QED
    BY <2>1, <2>2 DEF Opened
<1>2. CASE ~(r.kind = "focus" /\ r.app # r.prev)
  BY <1>2, ClosedIs DEF Noted, Opened
<1>3. QED
  BY <1>1, <1>2

\* A part that sends nothing and leaves the segment alone.
LEMMA QuietOut ==
    ASSUME NEW p \in Pumps, NEW q \in Pumps, q.cur = p.cur, NEW to
    PROVE  Outcome(p, [pump |-> q, rows |-> <<>>], to)
<1> DEFINE o == [pump |-> q, rows |-> <<>>]
<1>1. o.pump = q /\ o.rows = <<>> /\ o.rows \in Seq(Entries) /\ Range(o.rows) = {} /\ DOMAIN o.rows = {}
  BY Nothing
<1>2. \A x \in Opens : FoldLeft(Noted, x, o.rows) = x
  BY <1>1, NotedNone
<1> HIDE DEF o
<1>3. \A x : InStep(x, p) => InStep(x, q)
  BY DEF InStep
<1>4. QED
  BY <1>1, <1>2, <1>3 DEF Outcome, Opened, o

\* A part that sends one row.
LEMMA OneRowOut ==
    ASSUME Typed, NEW p \in Pumps, NEW q \in Pumps, NEW to, NEW r \in Entries,
           r.sess = sess, r.ts = now, r.dur <= now, r.kind = "focus" => r.app \in App,
           q.cur = p.cur \/ q.cur = None \/ (to # None /\ q.cur = [app |-> to, at |-> now]),
           Dwelt(r) => /\ r.dur = 0 \/ (p.cur # None /\ r.prev = p.cur.app /\ r.dur <= now - p.cur.at)
                       /\ q.cur = None \/ q.cur.at = now,
           \A x \in Opens : InStep(x, p) => InStep(Noted(x, r), q)
    PROVE  Outcome(p, [pump |-> q, rows |-> <<r>>], to)
<1> DEFINE o == [pump |-> q, rows |-> <<r>>]
<1>1. /\ o.pump = q /\ o.rows \in Seq(Entries) /\ Range(o.rows) = {r} /\ DOMAIN o.rows = {1}
  BY Single
<1>2. \A x \in Opens : FoldLeft(Noted, x, o.rows) = Noted(x, r)
  BY NotedOne
<1> HIDE DEF o
<1>3. \A i, j \in DOMAIN o.rows : ~(i < j)
  BY <1>1
<1>4. \A x \in Opens : /\ Opened(x, FoldLeft(Noted, x, o.rows))
                       /\ InStep(x, p) => InStep(FoldLeft(Noted, x, o.rows), o.pump)
  BY <1>1, <1>2, OneRow
<1>5. \A x \in Range(o.rows) : x = r
  BY <1>1
<1>6. Outcome(p, o, to)
  BY <1>1, <1>3, <1>4, <1>5 DEF Outcome
<1>7. QED
  BY <1>6 DEF o

(* A row of another kind. *)
LEMMA MarkOut ==
    ASSUME Typed, NEW p \in Pumps, NEW q \in Pumps, q.cur = p.cur, NEW to,
           NEW kind \in Kinds, kind # "focus", NEW d \in Nat, d <= now
    PROVE  Outcome(p, [pump |-> q, rows |-> <<Row(kind, d, None, None)>>], to)
<1> DEFINE r == Row(kind, d, None, None)
<1>1. r \in Entries /\ r.kind = kind /\ r.sess = sess /\ r.ts = now /\ r.dur = d
  BY RowIs DEF Windows
<1> HIDE DEF r
<1>2. \A x \in Opens : Noted(x, r) = x \/ Noted(x, r) = Closed
  BY <1>1 DEF Noted
<1>3. \A x \in Opens : InStep(x, p) => InStep(Noted(x, r), q)
  BY <1>2, ClosedIs DEF InStep
<1>4. ~Dwelt(r)
  BY <1>1 DEF Dwelt
<1>5. QED
  BY <1>1, <1>3, <1>4, OneRowOut DEF r

\* end_current_at: the dwell of the segment, if there is one.
LEMMA EndOut ==
    ASSUME Typed, NEW p \in Pumps, p.cur # None => p.cur.at <= now, NEW cap \in Nat, NEW to
    PROVE  /\ Outcome(p, End(p, cap), to)
           /\ End(p, cap).pump = [p EXCEPT !.cur = None] /\ End(p, cap).pump \in Pumps
           /\ \A r \in Range(End(p, cap).rows) : r.kind = "focus"
           /\ p.cur # None => \E r \in Range(End(p, cap).rows) :
                 Dwelt(r) /\ r.prev = p.cur.app /\ r.dur = Least(now - p.cur.at, cap)
<1> DEFINE q == [p EXCEPT !.cur = None]
           r == Row("focus", Least(now - p.cur.at, cap), p.cur.app, p.cur.app)
<1>1. q \in Pumps /\ q.cur = None
  BY DEF Pumps
<1>2. CASE p.cur = None
  <2>1. End(p, cap) = [pump |-> q, rows |-> <<>>]
    BY <1>2 DEF End
  <2>2. Outcome(p, [pump |-> q, rows |-> <<>>], to)
    <3> HIDE DEF q
    <3>1. QED
      BY <1>1, <1>2, QuietOut
  <2>3. Range(<<>>) = {}
    BY Nothing
  <2>4. QED
    BY <1>1, <1>2, <2>1, <2>2, <2>3
<1>3. CASE p.cur # None
  <2>1. End(p, cap) = [pump |-> q, rows |-> <<r>>]
    BY <1>3 DEF End
  <2>2. p.cur.at \in Nat /\ p.cur.app \in App /\ now \in Nat /\ p.cur.app \in Windows
    BY <1>3, PumpsAre DEF Typed, Windows
  <2>3. Least(now - p.cur.at, cap) \in Nat /\ Least(now - p.cur.at, cap) <= now - p.cur.at
        /\ Least(now - p.cur.at, cap) <= now
    BY <1>3, <2>2 DEF Least
  <2>4. /\ r \in Entries /\ r.kind = "focus" /\ r.sess = sess /\ r.ts = now
        /\ r.dur = Least(now - p.cur.at, cap) /\ r.app = p.cur.app /\ r.prev = p.cur.app
    <3>1. "focus" \in Kinds
      BY DEF Kinds
    <3>2. QED
      BY <2>2, <2>3, <3>1, RowIs
  <2> HIDE DEF r, q
  <2>5. \A x \in Opens : InStep(Noted(x, r), q)
    BY <2>4, ClosedIs DEF Noted, InStep
  <2>6. Outcome(p, [pump |-> q, rows |-> <<r>>], to)
    BY <1>1, <1>3, <2>2, <2>3, <2>4, <2>5, OneRowOut
  <2>7. Range(<<r>>) = {r}
    BY Single
  <2>8. Dwelt(r)
    BY <2>2, <2>4, Absent DEF Dwelt
  <2>9. QED
    BY <1>1, <2>1, <2>4, <2>6, <2>7, <2>8 DEF q
<1>4. QED
  BY <1>2, <1>3

(* A segment that starts now. *)
LEMMA StartOut ==
    ASSUME Typed, NEW p \in Pumps, NEW app \in App, NEW r \in Entries,
           r.sess = sess, r.ts = now, r.kind = "focus", r.app = app, r.prev # app, r.dur <= now,
           Dwelt(r) => p.cur # None /\ r.prev = p.cur.app /\ r.dur <= now - p.cur.at
    PROVE  /\ Outcome(p, [pump |-> [p EXCEPT !.cur = [app |-> app, at |-> now]], rows |-> <<r>>], app)
           /\ [p EXCEPT !.cur = [app |-> app, at |-> now]] \in Pumps
<1> DEFINE c == [app |-> app, at |-> now]
           q == [p EXCEPT !.cur = c]
<1>1. c \in Segments /\ c.app = app /\ c.at = now /\ app # None /\ c # None
  BY Absent DEF Typed, Segments
<1>2. q \in Pumps /\ q.cur = c
  BY <1>1 DEF Pumps
<1>3. \A x \in Opens : Noted(x, r).seg = [sess |-> sess, app |-> app, start |-> now]
  BY DEF Noted
<1>4. \A x \in Opens : InStep(Noted(x, r), q)
  BY <1>1, <1>2, <1>3 DEF InStep
<1> HIDE DEF q, c
<1>5. QED
  BY <1>1, <1>2, <1>4, OneRowOut DEF q, c

\* The window in front starts a segment.
LEMMA SeedOut ==
    ASSUME Typed, NEW p \in Pumps, NEW app \in Windows
    PROVE  /\ Outcome(p, Seed(p, app), app)
           /\ Seed(p, app).pump = IF app = None THEN p ELSE [p EXCEPT !.cur = [app |-> app, at |-> now]]
           /\ \A r \in Range(Seed(p, app).rows) : r.kind = "focus" /\ ~Dwelt(r)
<1>1. CASE app = None
  <2>1. Seed(p, app) = [pump |-> p, rows |-> <<>>]
    BY <1>1 DEF Seed
  <2>2. QED
    BY <1>1, <2>1, QuietOut, Nothing
<1>2. CASE app # None
  <2> DEFINE r == Row("focus", 0, app, None)
             q == [p EXCEPT !.cur = [app |-> app, at |-> now]]
  <2>1. Seed(p, app) = [pump |-> q, rows |-> <<r>>]
    BY <1>2 DEF Seed
  <2>2. app \in App /\ now \in Nat
    BY <1>2 DEF Windows, Typed
  <2>3. r \in Entries /\ r.kind = "focus" /\ r.sess = sess /\ r.ts = now /\ r.dur = 0 /\ r.app = app /\ r.prev = None
    <3>1. "focus" \in Kinds /\ None \in Windows
      BY DEF Kinds, Windows
    <3>2. QED
      BY <3>1, RowIs
  <2> HIDE DEF r
  <2>4. ~Dwelt(r) /\ 0 <= now
    BY <2>2, <2>3 DEF Dwelt
  <2>5. Outcome(p, [pump |-> q, rows |-> <<r>>], app)
    BY <1>2, <2>2, <2>3, <2>4, StartOut
  <2>6. Range(<<r>>) = {r}
    BY Single
  <2>7. QED
    BY <1>2, <2>1, <2>3, <2>4, <2>5, <2>6
<1>3. QED
  BY <1>1, <1>2

\* A change of the window in front ends a segment and starts another.
LEMMA SwitchOut ==
    ASSUME Typed, NEW p \in Pumps, p.cur # None => p.cur.at <= now, NEW app \in App
    PROVE  /\ Outcome(p, Switch(p, app), app)
           /\ Switch(p, app).pump \in Pumps
           /\ Switch(p, app).pump = [p EXCEPT !.cur = Switch(p, app).pump.cur]
           /\ Switch(p, app).pump.cur # None /\ Switch(p, app).pump.cur.app = app
           /\ \A r \in Range(Switch(p, app).rows) : r.kind = "focus"
           /\ p.cur # None /\ p.cur.app # app => \E r \in Range(Switch(p, app).rows) :
                 Dwelt(r) /\ r.prev = p.cur.app /\ r.dur = now - p.cur.at
<1>0. app # None
  BY Absent
<1>1. CASE p.cur # None /\ p.cur.app = app
  <2>1. Switch(p, app) = [pump |-> p, rows |-> <<>>]
    BY <1>1 DEF Switch
  <2>2. p = [p EXCEPT !.cur = p.cur]
    BY DEF Pumps
  <2>3. QED
    BY <1>1, <2>1, <2>2, QuietOut, Nothing
<1>2. CASE ~(p.cur # None /\ p.cur.app = app)
  <2> DEFINE q == [p EXCEPT !.cur = [app |-> app, at |-> now]]
             r == IF p.cur = None THEN Row("focus", 0, app, None)
                  ELSE Row("focus", now - p.cur.at, app, p.cur.app)
  <2>1. Switch(p, app) = [pump |-> q, rows |-> <<r>>]
    BY <1>2 DEF Switch
  <2>2. now \in Nat /\ app \in Windows /\ None \in Windows /\ "focus" \in Kinds
    BY DEF Typed, Windows, Kinds
  <2>3. p.cur # None => p.cur.at \in Nat /\ p.cur.app \in App /\ p.cur.app \in Windows /\ now - p.cur.at \in Nat
    BY PumpsAre, <2>2 DEF Windows
  <2>4. r \in Entries /\ r.kind = "focus" /\ r.sess = sess /\ r.ts = now /\ r.app = app
        /\ (p.cur = None => r.dur = 0 /\ r.prev = None)
        /\ (p.cur # None => r.dur = now - p.cur.at /\ r.prev = p.cur.app)
    <3>1. CASE p.cur = None
      BY <3>1, <2>2, RowIs
    <3>2. CASE p.cur # None
      BY <3>2, <2>2, <2>3, RowIs
    <3>3. QED
      BY <3>1, <3>2
  <2> HIDE DEF r
  <2>5. r.prev # app /\ r.dur <= now
    BY <1>0, <1>2, <2>2, <2>3, <2>4
  <2>6. (Dwelt(r) => p.cur # None /\ r.prev = p.cur.app /\ r.dur <= now - p.cur.at)
        /\ (p.cur # None => Dwelt(r))
    BY <2>2, <2>3, <2>4, Absent DEF Dwelt
  <2>7. Outcome(p, [pump |-> q, rows |-> <<r>>], app) /\ q \in Pumps
    BY <2>4, <2>5, <2>6, StartOut
  <2>8. Range(<<r>>) = {r}
    BY Single
  <2>9. q.cur = [app |-> app, at |-> now] /\ q.cur # None /\ q.cur.app = app
    BY <2>2, Absent DEF Pumps, Segments
  <2>10. q = [p EXCEPT !.cur = q.cur]
    BY <2>2 DEF Pumps
  <2> DEFINE o == Switch(p, app)
  <2>11. o.pump = q /\ o.rows = <<r>>
    BY <2>1
  <2>12. Outcome(p, o, app)
    BY <2>1, <2>7
  <2> HIDE DEF q, o
  <2>13. \A x \in Range(o.rows) : x.kind = "focus"
    BY <2>4, <2>8, <2>11
  <2>14. p.cur # None /\ p.cur.app # app => \E x \in Range(o.rows) :
            Dwelt(x) /\ x.prev = p.cur.app /\ x.dur = now - p.cur.at
    BY <2>4, <2>6, <2>8, <2>11
  <2>15. QED
    BY <2>7, <2>9, <2>10, <2>11, <2>12, <2>13, <2>14 DEF o
<1>3. QED
  BY <1>1, <1>2

(* One part after the other. *)
LEMMA ThenOut ==
    ASSUME Typed, NEW p \in Pumps, NEW a, NEW b, NEW to, Outcome(p, a, to), Outcome(a.pump, b, to)
    PROVE  /\ Outcome(p, [pump |-> b.pump, rows |-> a.rows \o b.rows], to)
           /\ Range(a.rows \o b.rows) = Range(a.rows) \cup Range(b.rows)
<1> DEFINE o == [pump |-> b.pump, rows |-> a.rows \o b.rows]
<1>1. a.pump \in Pumps /\ b.pump \in Pumps /\ a.rows \in Seq(Entries) /\ b.rows \in Seq(Entries)
  BY DEF Outcome
<1>2. o.pump = b.pump /\ o.rows = a.rows \o b.rows /\ o.rows \in Seq(Entries)
      /\ Range(o.rows) = Range(a.rows) \cup Range(b.rows)
  <2>1. a.rows \o b.rows \in Seq(Entries) /\ Range(a.rows \o b.rows) = Range(a.rows) \cup Range(b.rows)
    BY <1>1, Joined
  <2>2. QED
    BY <2>1
<1>3. /\ Len(a.rows) \in Nat /\ DOMAIN a.rows = 1 .. Len(a.rows)
      /\ \A i \in DOMAIN a.rows : o.rows[i] = a.rows[i]
      /\ \A k \in DOMAIN o.rows :
            k \in DOMAIN a.rows \/ (\E i \in DOMAIN b.rows : k = Len(a.rows) + i /\ o.rows[k] = b.rows[i])
  <2> HIDE DEF o
  <2>1. a.rows \in Seq(Entries) /\ b.rows \in Seq(Entries) /\ o.rows = a.rows \o b.rows
    BY <1>1, <1>2
  <2> DEFINE u == a.rows
             v == b.rows
             w == o.rows
  <2> HIDE DEF u, v, w
  <2>2. u \in Seq(Entries) /\ v \in Seq(Entries) /\ w = u \o v
    BY <2>1 DEF u, v, w
  <2>3. /\ Len(u) \in Nat /\ DOMAIN u = 1 .. Len(u) /\ \A i \in DOMAIN u : w[i] = u[i]
        /\ \A k \in DOMAIN w : k \in DOMAIN u \/ (\E i \in DOMAIN v : k = Len(u) + i /\ w[k] = v[i])
    BY <2>2, Joined
  <2>4. QED
    BY <2>3 DEF u, v, w
<1>13. /\ \A i \in DOMAIN a.rows : a.rows[i] \in Range(a.rows) /\ i \in Nat
       /\ \A i \in DOMAIN b.rows : b.rows[i] \in Range(b.rows) /\ i \in Nat /\ i >= 1
  BY <1>1, RangeIn
<1> HIDE DEF o
<1>4. now \in Nat /\ (p.cur # None => p.cur.at \in Nat) /\ \A r \in Entries : r.dur \in Nat
  BY PumpsAre DEF Typed, Entries
<1>5. \A r \in Range(o.rows) : r \in Entries
  BY <1>2, RangeIn
<1>6. o.pump.cur = p.cur \/ o.pump.cur = None \/ (to # None /\ o.pump.cur = [app |-> to, at |-> now])
  BY <1>2 DEF Outcome
<1>7. ASSUME NEW r \in Range(a.rows), Dwelt(r) PROVE a.pump.cur = None \/ a.pump.cur.at = now
  BY <1>7 DEF Outcome
<1>8. (a.pump.cur = None \/ a.pump.cur.at = now) =>
         /\ b.pump.cur = None \/ b.pump.cur.at = now
         /\ \A r \in Range(b.rows) : Dwelt(r) => r.dur = 0
  <2> SUFFICES ASSUME a.pump.cur = None \/ a.pump.cur.at = now
               PROVE  /\ b.pump.cur = None \/ b.pump.cur.at = now
                      /\ \A r \in Range(b.rows) : Dwelt(r) => r.dur = 0
    OBVIOUS
  <2>1. b.pump.cur = None \/ b.pump.cur.at = now
    <3>1. b.pump.cur = a.pump.cur \/ b.pump.cur = None \/ b.pump.cur = [app |-> to, at |-> now]
      BY DEF Outcome
    <3>2. QED
      BY <3>1
  <2>2. ASSUME NEW r \in Range(b.rows), Dwelt(r) PROVE r.dur = 0
    <3>1. r.dur = 0 \/ (a.pump.cur # None /\ r.dur <= now - a.pump.cur.at)
      BY <2>2 DEF Outcome
    <3>2. r.dur \in Nat
      BY <1>2, <1>4, <1>5
    <3>3. QED
      BY <3>1, <3>2, <1>4
  <2>3. QED
    BY <2>1, <2>2
<1>9. ASSUME NEW r \in Range(o.rows)
      PROVE  /\ r.sess = sess /\ r.ts = now /\ r.dur <= now
             /\ Dwelt(r) =>
                  /\ r.dur = 0 \/ (p.cur # None /\ r.prev = p.cur.app /\ r.dur <= now - p.cur.at)
                  /\ o.pump.cur = None \/ o.pump.cur.at = now
  <2>1. CASE r \in Range(a.rows)
    <3>1. /\ r.sess = sess /\ r.ts = now /\ r.dur <= now
          /\ Dwelt(r) => r.dur = 0 \/ (p.cur # None /\ r.prev = p.cur.app /\ r.dur <= now - p.cur.at)
      BY <2>1 DEF Outcome
    <3>2. QED
      BY <2>1, <3>1, <1>2, <1>7, <1>8
  <2>2. CASE r \in Range(b.rows)
    <3>1. /\ r.sess = sess /\ r.ts = now /\ r.dur <= now
          /\ Dwelt(r) => /\ r.dur = 0 \/ (a.pump.cur # None /\ r.prev = a.pump.cur.app /\ r.dur <= now - a.pump.cur.at)
                         /\ b.pump.cur = None \/ b.pump.cur.at = now
      BY <2>2 DEF Outcome
    <3>2. a.pump.cur = p.cur \/ a.pump.cur = None \/ a.pump.cur = [app |-> to, at |-> now]
      BY DEF Outcome
    <3>3. CASE a.pump.cur = p.cur
      BY <3>1, <3>3, <1>2
    <3>4. CASE a.pump.cur = None \/ a.pump.cur = [app |-> to, at |-> now]
      <4>1. a.pump.cur = None \/ a.pump.cur.at = now
        BY <3>4
      <4>2. Dwelt(r) => r.dur = 0
        BY <4>1, <1>8, <2>2
      <4>3. QED
        BY <3>1, <4>2, <1>2
    <3>5. QED
      BY <3>2, <3>3, <3>4
  <2>3. QED
    BY <2>1, <2>2, <1>2
<1>10. ASSUME NEW i \in DOMAIN o.rows, NEW j \in DOMAIN o.rows, i < j, Dwelt(o.rows[i]), Dwelt(o.rows[j])
       PROVE  o.rows[j].dur = 0
  <2>1. CASE j \in DOMAIN a.rows
    <3>1. i \in DOMAIN a.rows
      BY <2>1, <1>3, <1>13, <1>10
    <3>2. \A m, n \in DOMAIN a.rows : m < n /\ Dwelt(a.rows[m]) /\ Dwelt(a.rows[n]) => a.rows[n].dur = 0
      BY DEF Outcome
    <3>3. QED
      BY <2>1, <3>1, <3>2, <1>3, <1>10
  <2>2. ASSUME NEW n \in DOMAIN b.rows, j = Len(a.rows) + n, o.rows[j] = b.rows[n]
        PROVE  o.rows[j].dur = 0
    <3>1. CASE i \in DOMAIN a.rows
      <4>1. a.pump.cur = None \/ a.pump.cur.at = now
        BY <3>1, <1>3, <1>13, <1>7, <1>10
      <4>2. QED
        BY <4>1, <2>2, <1>3, <1>13, <1>8, <1>10
    <3>2. ASSUME NEW m \in DOMAIN b.rows, i = Len(a.rows) + m, o.rows[i] = b.rows[m]
          PROVE  o.rows[j].dur = 0
      <4>1. m < n
        BY <2>2, <3>2, <1>3, <1>13, <1>10
      <4>2. \A k, l \in DOMAIN b.rows : k < l /\ Dwelt(b.rows[k]) /\ Dwelt(b.rows[l]) => b.rows[l].dur = 0
        BY DEF Outcome
      <4>3. QED
        BY <4>1, <4>2, <2>2, <3>2, <1>10
    <3>3. QED
      BY <3>1, <3>2, <1>3
  <2>3. QED
    BY <2>1, <2>2, <1>3
<1>11. ASSUME NEW x \in Opens
       PROVE  /\ Opened(x, FoldLeft(Noted, x, o.rows))
              /\ InStep(x, p) => InStep(FoldLeft(Noted, x, o.rows), o.pump)
  <2> DEFINE y == FoldLeft(Noted, x, a.rows)
             z == FoldLeft(Noted, y, b.rows)
  <2>1. FoldLeft(Noted, x, o.rows) = z
    BY <1>1, <1>2, NotedJoined
  <2>2. Opened(x, y) /\ (InStep(x, p) => InStep(y, a.pump))
    BY DEF Outcome
  <2>3. y \in Opens
    BY <2>2 DEF Opened
  <2> HIDE DEF y
  <2>4. Opened(y, z) /\ (InStep(y, a.pump) => InStep(z, b.pump))
    BY <2>3 DEF Outcome
  <2> HIDE DEF z
  <2>5. Opened(x, z)
    BY <2>2, <2>4 DEF Opened
  <2>6. QED
    BY <2>1, <2>2, <2>4, <2>5, <1>2
<1>12. QED
  BY <1>1, <1>2, <1>6, <1>9, <1>10, <1>11 DEF Outcome, o

-----------------------------------------------------------------------------
(* The pump's parts.                                                        *)

(* The window in front when the pump was told of a wake.                    *)
InFront == IF front = None THEN None ELSE [app |-> front, at |-> now]


\* A segment is ended and the window in front starts the next.
LEMMA EndSeedOut ==
    ASSUME Typed, NEW p \in Pumps, p.cur # None => p.cur.at <= now, NEW cap \in Nat
    PROVE  LET e == End(p, cap)
               s == Seed(e.pump, front)
               o == [pump |-> s.pump, rows |-> e.rows \o s.rows]
           IN /\ Outcome(p, o, front) /\ o.pump = [p EXCEPT !.cur = InFront]
              /\ \A r \in Range(o.rows) : r.kind = "focus"
<1> DEFINE e == End(p, cap)
           s == Seed(e.pump, front)
           o == [pump |-> s.pump, rows |-> e.rows \o s.rows]
<1>1. /\ Outcome(p, e, front) /\ e.pump \in Pumps /\ e.pump = [p EXCEPT !.cur = None]
      /\ \A r \in Range(e.rows) : r.kind = "focus"
  BY EndOut
<1>2. front \in Windows /\ now \in Nat
  BY DEF Typed
<1> HIDE DEF e
<1>3. /\ Outcome(e.pump, s, front)
      /\ s.pump = IF front = None THEN e.pump ELSE [e.pump EXCEPT !.cur = [app |-> front, at |-> now]]
      /\ \A r \in Range(s.rows) : r.kind = "focus"
  <2> DEFINE ep == e.pump
  <2>1. ep \in Pumps
    BY <1>1
  <2> HIDE DEF ep
  <2>2. /\ Outcome(ep, Seed(ep, front), front)
        /\ Seed(ep, front).pump = IF front = None THEN ep ELSE [ep EXCEPT !.cur = [app |-> front, at |-> now]]
        /\ \A r \in Range(Seed(ep, front).rows) : r.kind = "focus"
    BY <2>1, <1>2, SeedOut
  <2>3. QED
    BY <2>2 DEF ep
<1> HIDE DEF s
<1>4. Outcome(p, [pump |-> s.pump, rows |-> e.rows \o s.rows], front)
      /\ Range(e.rows \o s.rows) = Range(e.rows) \cup Range(s.rows)
  <2>1. Outcome(p, e, front) /\ Outcome(e.pump, s, front)
    BY <1>1, <1>3
  <2>2. QED
    BY <2>1, ThenOut, Zenon
<1>5. s.pump = [p EXCEPT !.cur = InFront]
  BY <1>1, <1>3 DEF InFront, Pumps
<1>6. o.pump = s.pump /\ o.rows = e.rows \o s.rows
  OBVIOUS
<1>7. Outcome(p, o, front)
  BY <1>4
<1> HIDE DEF o
<1>8. \A r \in Range(o.rows) : r.kind = "focus"
  BY <1>1, <1>3, <1>4, <1>6
<1>9. QED
  BY <1>5, <1>6, <1>7, <1>8 DEF s, e, o

(* Seed alone. *)
LEMMA SeededIs ==
    ASSUME Typed, NEW p \in Pumps
    PROVE  /\ Outcome(p, Seed(p, front), front)
           /\ Seed(p, front).pump = [p EXCEPT !.cur = IF front = None THEN @ ELSE [app |-> front, at |-> now]]
           /\ Seed(p, front).pump \in Pumps
           /\ \A r \in Range(Seed(p, front).rows) : r.kind = "focus"
<1>1. front \in Windows /\ p = [p EXCEPT !.cur = p.cur]
  BY DEF Typed, Pumps
<1>2. /\ Outcome(p, Seed(p, front), front)
      /\ Seed(p, front).pump = IF front = None THEN p ELSE [p EXCEPT !.cur = [app |-> front, at |-> now]]
      /\ \A r \in Range(Seed(p, front).rows) : r.kind = "focus"
  BY <1>1, SeedOut
<1>3. Seed(p, front).pump \in Pumps
  BY <1>2 DEF Outcome
<1>4. QED
  BY <1>1, <1>2, <1>3

\* A missed boundary: a capped dwell, a new segment, a recovered row.
LEMMA RecoverOut ==
    ASSUME Typed, NEW p \in Pumps, p.cur # None => p.cur.at <= now, Missing(p)
    PROVE  /\ Outcome(p, Recover(p), front)
           /\ Recover(p).pump = [p EXCEPT !.cur = InFront, !.suspended = FALSE, !.resumed = now]
           /\ \A r \in Range(Recover(p).rows) : r.kind \in {"focus", "recovered"}
           /\ \E r \in Range(Recover(p).rows) : r.kind = "recovered" /\ r.dur = now - p.tick
<1> DEFINE e == End(p, CapDwell)
           s == Seed(e.pump, front)
           a == [pump |-> s.pump, rows |-> e.rows \o s.rows]
           q == [s.pump EXCEPT !.suspended = FALSE, !.resumed = now]
           r == Row("recovered", now - p.tick, None, None)
           b == [pump |-> q, rows |-> << r >>]
<1>1. CapDwell \in Nat
  BY DEF CapDwell
<1>2. Outcome(p, a, front) /\ a.pump = [p EXCEPT !.cur = InFront] /\ \A x \in Range(a.rows) : x.kind = "focus"
  BY <1>1, EndSeedOut
<1>3. p.tick \in Nat /\ now \in Nat /\ now - p.tick \in Nat /\ now - p.tick <= now
  BY PumpsAre DEF Missing, Gap, Typed
<1>4. a.pump \in Pumps /\ a.pump = s.pump /\ a.rows = e.rows \o s.rows
  BY <1>2 DEF Outcome
<1> HIDE DEF a, s, e
<1>5. q \in Pumps /\ q.cur = s.pump.cur
  BY <1>3, <1>4 DEF Pumps
<1>6. "recovered" \in Kinds /\ "recovered" # "focus" /\ None \in Windows
  BY DEF Kinds, Windows
<1>7. r.kind = "recovered" /\ r.dur = now - p.tick /\ r \in Entries
  BY <1>3, <1>6, RowIs
<1>8. Outcome(a.pump, b, front)
  <2> HIDE DEF q
  <2>1. QED
    BY <1>3, <1>4, <1>5, <1>6, MarkOut
<1>9. Outcome(p, [pump |-> b.pump, rows |-> a.rows \o b.rows], front)
      /\ Range(a.rows \o b.rows) = Range(a.rows) \cup Range(b.rows)
  <2> HIDE DEF b
  <2>1. QED
    BY <1>2, <1>8, ThenOut
<1>10. Recover(p) = [pump |-> b.pump, rows |-> a.rows \o b.rows]
  BY <1>4 DEF Recover, e, s
<1>11. Range(b.rows) = {r}
  BY <1>7, Single
<1>12. q = [p EXCEPT !.cur = InFront, !.suspended = FALSE, !.resumed = now]
  BY <1>2, <1>4 DEF Pumps
<1>13. b.pump = q
  OBVIOUS
<1> HIDE DEF b, q, r
<1>14. QED
  BY <1>2, <1>7, <1>9, <1>10, <1>11, <1>12, <1>13

(* A resume that is not the second one at once.                             *)
Anew(p) == p.suspended \/ p.resumed # now

Woken(p) == [p EXCEPT !.cur = IF p.suspended /\ front = None THEN @ ELSE InFront,
                      !.suspended = FALSE, !.resumed = now, !.tick = now]

\* on_power_resume_at, the first of its time.
LEMMA ResumeAnewOut ==
    ASSUME Typed, NEW p \in Pumps, p.cur # None => p.cur.at <= now, Anew(p)
    PROVE  /\ Outcome(p, Resume(p), front) /\ Resume(p).pump = Woken(p)
           /\ \A r \in Range(Resume(p).rows) : r.kind \in {"focus", "resume"} \/ (r.kind = "recovered" /\ Missing(p))
           /\ \E r \in Range(Resume(p).rows) : r.kind = "resume"
           /\ Missing(p) => \E r \in Range(Resume(p).rows) : r.kind = "recovered" /\ r.dur = now - p.tick
<1> DEFINE e == IF p.suspended THEN [pump |-> p, rows |-> <<>>] ELSE End(p, CapDwell)
           s == Seed(e.pump, front)
           a == IF Missing(p) THEN Recover(p) ELSE [pump |-> s.pump, rows |-> e.rows \o s.rows]
           q == [a.pump EXCEPT !.suspended = FALSE, !.resumed = now, !.tick = now]
           m == Mark("resume")
           b == [pump |-> q, rows |-> << m >>]
<1>1. CapDwell \in Nat /\ now \in Nat /\ front \in Windows
  BY DEF CapDwell, Typed
<1>2. /\ Outcome(p, a, front)
      /\ \A r \in Range(a.rows) : r.kind = "focus" \/ (r.kind = "recovered" /\ Missing(p))
      /\ Missing(p) => \E r \in Range(a.rows) : r.kind = "recovered" /\ r.dur = now - p.tick
      /\ q = Woken(p)
  <2>1. CASE Missing(p)
    <3>1. /\ Outcome(p, a, front)
          /\ a.pump = [p EXCEPT !.cur = InFront, !.suspended = FALSE, !.resumed = now]
          /\ \A r \in Range(a.rows) : r.kind \in {"focus", "recovered"}
          /\ \E r \in Range(a.rows) : r.kind = "recovered" /\ r.dur = now - p.tick
      BY <2>1, RecoverOut
    <3> HIDE DEF a
    <3>2. ~p.suspended
      BY <2>1 DEF Missing
    <3>3. q = Woken(p)
      BY <3>1, <3>2 DEF Woken, Pumps
    <3>4. QED
      BY <2>1, <3>1, <3>3
  <2>2. CASE ~Missing(p) /\ ~p.suspended
    <3> DEFINE f == End(p, CapDwell)
               c == [pump |-> Seed(f.pump, front).pump, rows |-> f.rows \o Seed(f.pump, front).rows]
    <3>1. Outcome(p, c, front) /\ c.pump = [p EXCEPT !.cur = InFront] /\ \A r \in Range(c.rows) : r.kind = "focus"
      BY <1>1, EndSeedOut
    <3>2. a = c
      BY <2>2
    <3> HIDE DEF a, c
    <3>3. q = Woken(p)
      BY <2>2, <3>1, <3>2 DEF Woken, Pumps
    <3>4. QED
      BY <2>2, <3>1, <3>2, <3>3
  <2>3. CASE p.suspended
    <3> DEFINE d == Seed(p, front)
               c == [pump |-> d.pump, rows |-> <<>> \o d.rows]
    <3>1. a = c /\ ~Missing(p)
      BY <2>3 DEF Missing
    <3>2. /\ Outcome(p, d, front)
          /\ d.pump = [p EXCEPT !.cur = IF front = None THEN @ ELSE [app |-> front, at |-> now]]
          /\ \A r \in Range(d.rows) : r.kind = "focus"
      BY SeededIs
    <3> HIDE DEF a, d
    <3>3. d.rows \in Seq(Entries)
      BY <3>2 DEF Outcome
    <3>4. c = [pump |-> d.pump, rows |-> d.rows]
      BY <3>3
    <3>5. d.pump \in Pumps /\ DOMAIN d.rows = DOMAIN d.rows
      BY <3>2 DEF Outcome
    <3>6. Outcome(p, c, front)
      <4>1. c.pump = d.pump /\ c.rows = d.rows
        BY <3>4
      <4> HIDE DEF c
      <4>2. QED
        BY <3>2, <4>1 DEF Outcome
    <3>7. c.pump = d.pump /\ c.rows = d.rows
      BY <3>4
    <3> HIDE DEF c
    <3>8. q = Woken(p)
      BY <2>3, <3>1, <3>2, <3>7 DEF Woken, InFront, Pumps
    <3>9. QED
      BY <3>1, <3>2, <3>6, <3>7, <3>8
  <2>4. QED
    BY <2>1, <2>2, <2>3
<1>3. Resume(p) = [pump |-> b.pump, rows |-> a.rows \o b.rows]
  BY DEF Resume, Anew
<1> HIDE DEF a
<1>4. a.pump \in Pumps
  BY <1>2 DEF Outcome
<1>5. q \in Pumps /\ q.cur = a.pump.cur
  BY <1>1, <1>4 DEF Pumps
<1>6. "resume" \in Kinds /\ "resume" # "focus" /\ None \in Windows /\ 0 \in Nat /\ 0 <= now
  BY <1>1 DEF Kinds, Windows
<1>7. m \in Entries /\ m.kind = "resume"
  BY <1>6, RowIs DEF Mark
<1>8. Outcome(a.pump, b, front)
  <2> HIDE DEF q
  <2>1. QED
    BY <1>4, <1>5, <1>6, MarkOut DEF Mark
<1>9. b.pump = q /\ Range(b.rows) = {m}
  BY <1>7, Single
<1> HIDE DEF b, q, m
<1>10. Outcome(p, [pump |-> b.pump, rows |-> a.rows \o b.rows], front)
      /\ Range(a.rows \o b.rows) = Range(a.rows) \cup Range(b.rows)
  <2>1. Outcome(p, a, front) /\ Outcome(a.pump, b, front)
    BY <1>2, <1>8
  <2>2. QED
    BY <2>1, ThenOut, Zenon
<1>11. QED
  BY <1>2, <1>3, <1>7, <1>9, <1>10

\* A second resume at once only moves the tick.
LEMMA ResumeAgainOut ==
    ASSUME Typed, NEW p \in Pumps, ~Anew(p)
    PROVE  /\ Outcome(p, Resume(p), front)
           /\ Resume(p) = [pump |-> [p EXCEPT !.tick = now], rows |-> <<>>]
           /\ Range(Resume(p).rows) = {}
<1>1. Resume(p) = [pump |-> [p EXCEPT !.tick = now], rows |-> <<>>]
  BY DEF Resume, Anew
<1> DEFINE q == [p EXCEPT !.tick = now]
<1>2. q \in Pumps /\ q.cur = p.cur
  BY DEF Pumps, Typed
<1> HIDE DEF q
<1>3. Outcome(p, [pump |-> q, rows |-> <<>>], front)
  BY <1>2, QuietOut
<1>4. Range(<<>>) = {}
  BY Nothing
<1>5. QED
  BY <1>1, <1>3, <1>4 DEF q

(* The times that are kept are not in the future.                           *)
Dated ==
    /\ slept <= now /\ inputs \subseteq 0 .. now /\ 0 \in inputs
    /\ Len(past) = now
    /\ pump.cur # None => pump.cur.at <= now
    /\ pump.tick # None => pump.tick <= now
    /\ \A k \in DOMAIN rows : rows[k].ts <= now /\ rows[k].dur <= rows[k].ts
    /\ \A s \in DOMAIN ended : ended[s] # None => ended[s] <= now
    /\ open.seg # None => open.seg.start <= now
    /\ open.row # None => open.row.start <= open.row.high /\ open.row.high <= now

\* The last input is one, and none is later.
LEMMA LastInputIs ==
    ASSUME Typed, Dated
    PROVE  LastInput \in inputs /\ LastInput \in Nat /\ LastInput <= now /\ \A i \in inputs : i <= LastInput
<1>1. inputs \in SUBSET Int /\ inputs # {} /\ now \in Int /\ \A x \in inputs : x <= now
  BY DEF Typed, Dated
<1>2. Max(inputs) \in inputs /\ \A y \in inputs : y <= Max(inputs)
  BY <1>1, MaxIs
<1>3. QED
  BY <1>1, <1>2 DEF LastInput, Typed

(* The time without input is over the threshold.                            *)
Long == now - LastInput >= IdleAfter

\* The idle sample: the flag is what the threshold says, a change is a row.
LEMMA SampledOut ==
    ASSUME Typed, Dated, NEW p \in Pumps, NEW to
    PROVE  /\ Outcome(p, Sampled(p), to)
           /\ Sampled(p).pump = [p EXCEPT !.idle = Long]
           /\ \A r \in Range(Sampled(p).rows) :
                 \/ r.kind = "idle" /\ r.dur = now - LastInput /\ Long
                 \/ r.kind = "active" /\ ~Long
           /\ ~p.idle /\ Long => \E r \in Range(Sampled(p).rows) : r.kind = "idle" /\ r.dur = now - LastInput
           /\ p.idle /\ ~Long => \E r \in Range(Sampled(p).rows) : r.kind = "active"
<1> DEFINE n == now - LastInput
           f == Row("idle", n, None, None)
           g == Mark("active")
           qf == [p EXCEPT !.idle = TRUE]
           qg == [p EXCEPT !.idle = FALSE]
<1>1. n \in Nat /\ n <= now /\ 0 \in Nat /\ 0 <= now /\ IdleAfter \in Nat /\ (Long <=> n >= IdleAfter) /\ Long \in BOOLEAN
  BY LastInputIs, PresenceConstants DEF Typed, Long
<1>2. /\ "idle" \in Kinds /\ "idle" # "focus" /\ "active" \in Kinds /\ "active" # "focus" /\ None \in Windows
  BY DEF Kinds, Windows
<1>3. /\ qf \in Pumps /\ qf.cur = p.cur /\ qg \in Pumps /\ qg.cur = p.cur
      /\ (p.idle => p = [p EXCEPT !.idle = TRUE]) /\ (~p.idle => p = [p EXCEPT !.idle = FALSE])
  BY DEF Pumps
<1> HIDE DEF qf, qg, n
<1>4. f \in Entries /\ f.kind = "idle" /\ f.dur = n /\ g \in Entries /\ g.kind = "active"
  BY <1>1, <1>2, RowIs DEF Mark
<1>5. Outcome(p, [pump |-> qf, rows |-> << f >>], to) /\ Outcome(p, [pump |-> qg, rows |-> << g >>], to)
      /\ Outcome(p, [pump |-> p, rows |-> <<>>], to)
  BY <1>1, <1>2, <1>3, MarkOut, QuietOut DEF Mark
<1> HIDE DEF f, g
<1>6. Range(<< f >>) = {f} /\ Range(<< g >>) = {g} /\ Range(<<>>) = {}
  BY <1>4, Single, Nothing
<1>7. Sampled(p) = IF ~p.idle /\ Long THEN [pump |-> qf, rows |-> << f >>]
                   ELSE IF p.idle /\ ~Long THEN [pump |-> qg, rows |-> << g >>]
                   ELSE [pump |-> p, rows |-> <<>>]
  BY <1>1 DEF Sampled, Long, n, f, g, qf, qg
<1>8. CASE ~p.idle /\ Long
  <2>1. Sampled(p) = [pump |-> qf, rows |-> << f >>] /\ Long = TRUE
    BY <1>1, <1>7, <1>8
  <2>2. qf = [p EXCEPT !.idle = Long]
    BY <2>1 DEF qf
  <2>3. QED
    BY <1>4, <1>5, <1>6, <1>8, <2>1, <2>2 DEF n
<1>9. CASE p.idle /\ ~Long
  <2>1. Sampled(p) = [pump |-> qg, rows |-> << g >>] /\ Long = FALSE
    BY <1>1, <1>7, <1>9
  <2>2. QED
    BY <1>1, <1>4, <1>5, <1>6, <1>9, <2>1 DEF qg, n
<1>10. CASE (p.idle /\ Long) \/ (~p.idle /\ ~Long)
  <2>1. Sampled(p) = [pump |-> p, rows |-> <<>>] /\ Long \in BOOLEAN /\ p.idle \in BOOLEAN
    BY <1>1, <1>7, <1>10, PumpsAre
  <2>2. p = [p EXCEPT !.idle = Long]
    <3>1. CASE p.idle
      <4>1. Long = TRUE
        BY <1>1, <1>10, <3>1
      <4>2. QED
        BY <1>3, <3>1, <4>1
    <3>2. CASE ~p.idle
      <4>1. Long = FALSE
        BY <1>1, <1>10, <3>2
      <4>2. QED
        BY <1>3, <3>2, <4>1
    <3>3. QED
      BY <3>1, <3>2
  <2>3. QED
    BY <1>5, <1>6, <1>10, <2>1, <2>2
<1>11. QED
  BY <1>8, <1>9, <1>10

-----------------------------------------------------------------------------
(* The timer.                                                               *)

WokenOut(p) ==
    IF p.suspended THEN Resume(p)
    ELSE IF Missing(p) THEN Recover(p)
    ELSE [pump |-> p, rows |-> <<>>]

Late(p) == p.suspended \/ Missing(p)

TimerOut(p) ==
    LET idled == Sampled([WokenOut(p).pump EXCEPT !.tick = now])
    IN [pump |-> idled.pump, rows |-> WokenOut(p).rows \o idled.rows]

Timed(p) ==
    [p EXCEPT !.cur = IF Missing(p) \/ (p.suspended /\ front # None) THEN InFront ELSE @,
              !.suspended = FALSE, !.resumed = IF Late(p) THEN now ELSE @, !.tick = now,
              !.idle = Long]

\* The timer first ends a sleep, announced or missed.
LEMMA WokenIs ==
    ASSUME Typed, Dated, NEW p \in Pumps, p.cur # None => p.cur.at <= now
    PROVE  /\ Outcome(p, WokenOut(p), front)
           /\ [WokenOut(p).pump EXCEPT !.tick = now, !.idle = Long] = Timed(p)
           /\ WokenOut(p).pump.idle = p.idle
           /\ \A r \in Range(WokenOut(p).rows) :
                 r.kind = "focus" \/ (r.kind = "resume" /\ p.suspended) \/ (r.kind = "recovered" /\ Missing(p))
           /\ p.suspended => \E r \in Range(WokenOut(p).rows) : r.kind = "resume"
           /\ Missing(p) => \E r \in Range(WokenOut(p).rows) : r.kind = "recovered" /\ r.dur = now - p.tick
<1> DEFINE w == WokenOut(p)
<1>1. CASE p.suspended
  <2>1. w = Resume(p) /\ Anew(p) /\ ~Missing(p)
    BY <1>1 DEF WokenOut, Anew, Missing
  <2>2. Resume(p).pump = Woken(p) /\ Outcome(p, Resume(p), front)
        /\ (\A r \in Range(Resume(p).rows) : r.kind \in {"focus", "resume"} \/ (r.kind = "recovered" /\ Missing(p)))
        /\ \E r \in Range(Resume(p).rows) : r.kind = "resume"
    BY <2>1, ResumeAnewOut
  <2> HIDE DEF w
  <2>3. w.pump = Woken(p) /\ w.pump.idle = p.idle
    BY <2>1, <2>2 DEF Woken, Pumps
  <2>4. [w.pump EXCEPT !.tick = now, !.idle = Long] = Timed(p)
    BY <1>1, <2>1, <2>3 DEF Woken, Timed, Late, InFront, Pumps
  <2>5. QED
    BY <1>1, <2>1, <2>2, <2>3, <2>4 DEF w
<1>2. CASE ~p.suspended /\ Missing(p)
  <2>1. w = Recover(p)
    BY <1>2 DEF WokenOut
  <2>2. Outcome(p, Recover(p), front)
        /\ Recover(p).pump = [p EXCEPT !.cur = InFront, !.suspended = FALSE, !.resumed = now]
        /\ (\A r \in Range(Recover(p).rows) : r.kind \in {"focus", "recovered"})
        /\ \E r \in Range(Recover(p).rows) : r.kind = "recovered" /\ r.dur = now - p.tick
    BY <1>2, RecoverOut
  <2> HIDE DEF w
  <2>3. w.pump.idle = p.idle
    BY <2>1, <2>2 DEF Pumps
  <2>4. [w.pump EXCEPT !.tick = now, !.idle = Long] = Timed(p)
    BY <1>2, <2>1, <2>2 DEF Timed, Late, Pumps
  <2>5. QED
    BY <1>2, <2>1, <2>2, <2>3, <2>4 DEF w
<1>3. CASE ~p.suspended /\ ~Missing(p)
  <2>1. w = [pump |-> p, rows |-> <<>>]
    BY <1>3 DEF WokenOut
  <2>2. Outcome(p, [pump |-> p, rows |-> <<>>], front) /\ Range(<<>>) = {}
    BY QuietOut, Nothing
  <2>3. [p EXCEPT !.tick = now, !.idle = Long] = Timed(p)
    BY <1>3 DEF Timed, Late, Pumps
  <2>4. QED
    BY <1>3, <2>1, <2>2, <2>3
<1>4. QED
  BY <1>1, <1>2, <1>3

\* on_timer_sample_at: the wake, then the idle sample.
LEMMA TimerIs ==
    ASSUME Typed, Dated, NEW p \in Pumps, p.cur # None => p.cur.at <= now
    PROVE  /\ Outcome(p, TimerOut(p), front) /\ TimerOut(p).pump = Timed(p)
           /\ \A r \in Range(TimerOut(p).rows) :
                 \/ r.kind = "focus"
                 \/ r.kind = "resume" /\ p.suspended
                 \/ r.kind = "recovered" /\ Missing(p)
                 \/ r.kind = "idle" /\ r.dur = now - LastInput /\ Long
                 \/ r.kind = "active" /\ ~Long
           /\ p.suspended => \E r \in Range(TimerOut(p).rows) : r.kind = "resume"
           /\ Missing(p) => \E r \in Range(TimerOut(p).rows) : r.kind = "recovered" /\ r.dur = now - p.tick
           /\ ~p.idle /\ Long => \E r \in Range(TimerOut(p).rows) : r.kind = "idle" /\ r.dur = now - LastInput
           /\ p.idle /\ ~Long => \E r \in Range(TimerOut(p).rows) : r.kind = "active"
<1> DEFINE w == WokenOut(p)
           q == [w.pump EXCEPT !.tick = now]
           i == Sampled(q)
<1>1. /\ Outcome(p, w, front) /\ [w.pump EXCEPT !.tick = now, !.idle = Long] = Timed(p) /\ w.pump.idle = p.idle
      /\ \A r \in Range(w.rows) :
            r.kind = "focus" \/ (r.kind = "resume" /\ p.suspended) \/ (r.kind = "recovered" /\ Missing(p))
      /\ p.suspended => \E r \in Range(w.rows) : r.kind = "resume"
      /\ Missing(p) => \E r \in Range(w.rows) : r.kind = "recovered" /\ r.dur = now - p.tick
  BY WokenIs
<1> HIDE DEF w
<1>2. w.pump \in Pumps /\ w.rows \in Seq(Entries)
  BY <1>1 DEF Outcome
<1>3. q \in Pumps /\ q.cur = w.pump.cur /\ q.idle = p.idle /\ [q EXCEPT !.idle = Long] = Timed(p)
  BY <1>1, <1>2 DEF Pumps, Typed
<1> DEFINE v == [pump |-> q, rows |-> w.rows]
<1> HIDE DEF q
<1>4. Outcome(w.pump, [pump |-> q, rows |-> <<>>], front)
  BY <1>2, <1>3, QuietOut
<1>5. Outcome(p, v, front)
  <2> DEFINE z == [pump |-> q, rows |-> <<>>]
  <2>1. z.pump = q /\ z.rows = <<>>
    OBVIOUS
  <2> HIDE DEF z
  <2>2. Outcome(p, w, front) /\ Outcome(w.pump, z, front)
    BY <1>1, <1>4 DEF z
  <2>3. Outcome(p, [pump |-> z.pump, rows |-> w.rows \o z.rows], front)
    BY <2>2, ThenOut, Zenon
  <2>4. w.rows \o z.rows = w.rows
    BY <1>2, <2>1, Nothing
  <2>5. QED
    BY <2>1, <2>3, <2>4
<1>6. /\ Outcome(q, i, front) /\ i.pump = [q EXCEPT !.idle = Long]
      /\ \A r \in Range(i.rows) :
            \/ r.kind = "idle" /\ r.dur = now - LastInput /\ Long
            \/ r.kind = "active" /\ ~Long
      /\ ~q.idle /\ Long => \E r \in Range(i.rows) : r.kind = "idle" /\ r.dur = now - LastInput
      /\ q.idle /\ ~Long => \E r \in Range(i.rows) : r.kind = "active"
  BY <1>3, SampledOut
<1>7. v.pump = q /\ v.rows = w.rows
  OBVIOUS
<1> HIDE DEF i, v
<1>8. Outcome(p, [pump |-> i.pump, rows |-> v.rows \o i.rows], front)
      /\ Range(v.rows \o i.rows) = Range(v.rows) \cup Range(i.rows)
  <2>1. Outcome(p, v, front) /\ Outcome(v.pump, i, front)
    BY <1>5, <1>6, <1>7
  <2>2. QED
    BY <2>1, ThenOut, Zenon
<1>9. TimerOut(p) = [pump |-> i.pump, rows |-> v.rows \o i.rows]
  BY <1>7 DEF TimerOut, w, q, i
<1> DEFINE o == TimerOut(p)
<1>10. o.pump = i.pump /\ Range(o.rows) = Range(w.rows) \cup Range(i.rows) /\ Outcome(p, o, front)
  BY <1>7, <1>8, <1>9
<1> HIDE DEF o
<1>11. o.pump = Timed(p)
  BY <1>3, <1>6, <1>10
<1>12. \A r \in Range(o.rows) :
          \/ r.kind = "focus"
          \/ r.kind = "resume" /\ p.suspended
          \/ r.kind = "recovered" /\ Missing(p)
          \/ r.kind = "idle" /\ r.dur = now - LastInput /\ Long
          \/ r.kind = "active" /\ ~Long
  BY <1>1, <1>6, <1>10
<1>13. /\ p.suspended => \E r \in Range(o.rows) : r.kind = "resume"
       /\ Missing(p) => \E r \in Range(o.rows) : r.kind = "recovered" /\ r.dur = now - p.tick
       /\ ~p.idle /\ Long => \E r \in Range(o.rows) : r.kind = "idle" /\ r.dur = now - LastInput
       /\ p.idle /\ ~Long => \E r \in Range(o.rows) : r.kind = "active"
  BY <1>1, <1>3, <1>6, <1>10
<1>14. QED
  BY <1>10, <1>11, <1>12, <1>13 DEF o

-----------------------------------------------------------------------------
(* Steps that add rows of what happens now to a session that goes on.       *)

Recorded(s) == <<s, "recording">> \in dirty

Pumped(new) ==
    /\ new \in Seq(Entries) /\ rows' = rows \o new /\ pump' \in Pumps
    /\ pump'.cur = pump.cur \/ pump'.cur = None \/ (front' # None /\ pump'.cur = [app |-> front', at |-> now])
    /\ \A r \in Range(new) :
          /\ Running /\ r.sess = sess /\ r.ts = now /\ r.dur <= now
          /\ Dwelt(r) =>
                /\ gate = "open" /\ open'.row = None
                /\ r.dur = 0 \/ (pump.cur # None /\ r.prev = pump.cur.app /\ r.dur <= now - pump.cur.at)
                /\ pump'.cur = None \/ pump'.cur.at = now
    /\ \A i, j \in DOMAIN new : i < j /\ Dwelt(new[i]) /\ Dwelt(new[j]) => new[j].dur = 0
    /\ Opened(open, open')
    /\ ~Recorded(sess) /\ gate = "open" /\ InStep(open, pump) => InStep(open', pump')
    /\ gate # "open" => open' = open \/ open' = Closed
    /\ ~Running => open' = open
    /\ UNCHANGED <<now, past, sess, ended>>

Sent(new) == IF gate = "open" THEN new ELSE <<>>
Only(new, kinds) == \A r \in Range(new) : r.kind \in kinds

LEMMA NotedDecides ==
    ASSUME NEW s \in Seq(Entries), NEW o, NEW r \in Range(s), Decides(r)
    PROVE  FoldLeft(Noted, o, s).row = None
<1>1. PICK k \in DOMAIN s : r = s[k]
  BY RangeIn
<1>2. Deciding(s, DOMAIN s) # {}
  BY <1>1 DEF Deciding
<1>3. FoldLeft(Noted, o, s) = LastWord(o, s, DOMAIN s)
  BY NotedAll
<1>4. \A x : Decided(x).row = None
  BY ClosedIs DEF Decided
<1>5. QED
  BY <1>2, <1>3, <1>4 DEF LastWord

\* What the pump sends of a part, through the gate.
LEMMA SentPumped ==
    ASSUME Typed, Running, NEW o, Outcome(pump, o, front'), pump' = o.pump, Send(o.rows),
           UNCHANGED <<now, past, sess, ended>>
    PROVE  Pumped(Sent(o.rows))
<1>1. pump \in Pumps /\ open \in Opens
  BY DEF Typed
<1>2. CASE gate = "open"
  <2>1. /\ Sent(o.rows) = o.rows /\ o.rows \in Seq(Entries) /\ rows' = rows \o o.rows
        /\ open' = FoldLeft(Noted, open, o.rows)
    BY <1>2 DEF Sent, Send, StoreAll, Outcome
  <2>2. \A r \in Range(o.rows) : Dwelt(r) => open'.row = None
    BY <2>1, NotedDecides DEF Dwelt, Decides
  <2>3. /\ Opened(open, open') /\ (InStep(open, pump) => InStep(open', pump'))
        /\ \A i, j \in DOMAIN o.rows : i < j /\ Dwelt(o.rows[i]) /\ Dwelt(o.rows[j]) => o.rows[j].dur = 0
        /\ pump' \in Pumps
        /\ pump'.cur = pump.cur \/ pump'.cur = None \/ (front' # None /\ pump'.cur = [app |-> front', at |-> now])
    BY <1>1, <2>1 DEF Outcome
  <2>4. \A r \in Range(o.rows) :
          /\ r.sess = sess /\ r.ts = now /\ r.dur <= now
          /\ Dwelt(r) =>
                /\ r.dur = 0 \/ (pump.cur # None /\ r.prev = pump.cur.app /\ r.dur <= now - pump.cur.at)
                /\ pump'.cur = None \/ pump'.cur.at = now
    BY DEF Outcome
  <2> DEFINE new == Sent(o.rows)
  <2>5. new = o.rows
    BY <2>1
  <2> HIDE DEF new
  <2>6. QED
    BY <1>2, <2>1, <2>2, <2>3, <2>4, <2>5 DEF Pumped, new
<1>3. CASE gate # "open"
  <2>1. Sent(o.rows) = <<>> /\ rows' = rows \o <<>> /\ open' = FoldLeft(Noted, open, <<>>)
    BY <1>3 DEF Sent, Send, StoreAll
  <2>2. open' = open /\ <<>> \in Seq(Entries) /\ Range(<<>>) = {} /\ DOMAIN <<>> = {}
    BY <2>1, NotedNone, Nothing
  <2>3. /\ pump' \in Pumps
        /\ pump'.cur = pump.cur \/ pump'.cur = None \/ (front' # None /\ pump'.cur = [app |-> front', at |-> now])
    BY DEF Outcome
  <2> DEFINE new == Sent(o.rows)
  <2>4. new \in Seq(Entries) /\ rows' = rows \o new /\ Range(new) = {} /\ DOMAIN new = {}
    BY <2>1, <2>2
  <2> HIDE DEF new
  <2>5. QED
    BY <1>3, <2>2, <2>3, <2>4 DEF Pumped, Opened, new
<1>4. QED
  BY <1>2, <1>3

\* A step that leaves pump, rows and open segment alone.
LEMMA StillPumped ==
    ASSUME Typed, UNCHANGED <<pump, rows, open, now, past, sess, ended>>
    PROVE  Pumped(<<>>)
<1> DEFINE new == <<>>
<1>1. new \in Seq(Entries) /\ Range(new) = {} /\ DOMAIN new = {} /\ rows \o new = rows
  BY Nothing DEF Typed
<1>2. pump \in Pumps
  BY DEF Typed
<1> HIDE DEF new
<1>3. Pumped(new)
  BY <1>1, <1>2 DEF Pumped, Opened, InStep
<1>4. QED
  BY <1>3 DEF new

(* A row of the program's own, with the pump as it is. *)
LEMMA MarkPumped ==
    ASSUME Typed, Running, NEW kind \in Kinds, kind # "focus", StoreAll(<< Mark(kind) >>),
           UNCHANGED <<pump, now, past, sess, ended>>
    PROVE  Pumped(<< Mark(kind) >>) /\ Range(<< Mark(kind) >>) = {Mark(kind)} /\ Mark(kind).kind = kind
<1> DEFINE r == Mark(kind)
           new == << r >>
<1>1. r \in Entries /\ r.kind = kind /\ r.sess = sess /\ r.ts = now /\ r.dur = 0 /\ 0 <= now
  <2>1. 0 \in Nat /\ None \in Windows /\ now \in Nat /\ r = Row(kind, 0, None, None)
    BY DEF Mark, Windows, Typed
  <2> HIDE DEF r
  <2>2. QED
    BY <2>1, RowIs
<1>2. ~Dwelt(r) /\ pump \in Pumps /\ open \in Opens
  BY <1>1 DEF Dwelt, Typed
<1> HIDE DEF r
<1>3. new \in Seq(Entries) /\ Range(new) = {r} /\ DOMAIN new = {1}
  BY <1>1, Single
<1>4. rows' = rows \o new /\ open' = Noted(open, r)
  BY NotedOne DEF StoreAll, r
<1>5. Noted(open, r) = open \/ Noted(open, r) = Closed
  BY <1>1 DEF Noted
<1> HIDE DEF new
<1>6. Opened(open, open') /\ (InStep(open, pump) => InStep(open', pump'))
  BY <1>4, <1>5, ClosedIs DEF Opened, InStep
<1>7. Pumped(new)
  BY <1>1, <1>2, <1>3, <1>4, <1>5, <1>6 DEF Pumped
<1>8. QED
  BY <1>1, <1>3, <1>7 DEF new, r

-----------------------------------------------------------------------------
(* What each action does, in these terms.                                   *)

Sends(new, kind) == gate = "open" => \E r \in Range(new) : r.kind = kind

LEMMA SentHas ==
    ASSUME NEW new, NEW kinds, Only(new, kinds)
    PROVE  /\ Only(Sent(new), kinds)
           /\ \A kind : (\E r \in Range(new) : r.kind = kind) => Sends(Sent(new), kind)
<1>1. Range(<<>>) = {}
  BY Nothing
<1>2. CASE gate = "open"
  BY <1>2 DEF Sent, Sends, Only
<1>3. CASE gate # "open"
  BY <1>1, <1>3 DEF Sent, Sends, Only
<1>4. QED
  BY <1>2, <1>3

\* The window in front changes: the dwell of the one before is sent.
LEMMA FocusDoes ==
    ASSUME Typed, Dated, Focus
    PROVE  /\ Running /\ power # "asleep" /\ front' \in App
           /\ UNCHANGED <<now, power, slept, inputs, past, due, notice, gate, reseed, sess, ended, dirty>>
           /\ pump' = [pump EXCEPT !.cur = pump'.cur] /\ pump'.cur # None /\ pump'.cur.app = front'
           /\ \E new : /\ Pumped(new) /\ Only(new, {"focus"})
                       /\ pump.cur # None /\ pump.cur.app # front' /\ gate = "open" =>
                             \E r \in Range(new) :
                                 Dwelt(r) /\ r.prev = pump.cur.app /\ r.dur = now - pump.cur.at
<1>1. PICK app \in App : front' = app /\ Became(Switch(pump, app))
  BY DEF Focus
<1>2. Running /\ power # "asleep"
      /\ UNCHANGED <<now, power, slept, inputs, past, due, notice, gate, reseed, sess, ended, dirty>>
  BY DEF Focus
<1> DEFINE o == Switch(pump, app)
<1>3. pump \in Pumps /\ (pump.cur # None => pump.cur.at <= now)
  BY DEF Typed, Dated
<1>4. /\ Outcome(pump, o, front') /\ o.pump = [pump EXCEPT !.cur = o.pump.cur]
      /\ o.pump.cur # None /\ o.pump.cur.app = front'
      /\ \A r \in Range(o.rows) : r.kind = "focus"
      /\ pump.cur # None /\ pump.cur.app # front' => \E r \in Range(o.rows) :
            Dwelt(r) /\ r.prev = pump.cur.app /\ r.dur = now - pump.cur.at
  BY <1>1, <1>3, SwitchOut
<1>5. pump' = o.pump /\ Send(o.rows)
  BY <1>1 DEF Became
<1> HIDE DEF o
<1>6. Pumped(Sent(o.rows))
  BY <1>2, <1>4, <1>5, SentPumped
<1>7. Only(Sent(o.rows), {"focus"})
  BY <1>4, SentHas DEF Only
<1>8. gate = "open" => Sent(o.rows) = o.rows
  BY DEF Sent
<1>9. QED
  BY <1>1, <1>2, <1>4, <1>5, <1>6, <1>7, <1>8

\* Input of the user: an active row, if the pump took them for idle.
LEMMA InputDoes ==
    ASSUME Typed, Dated, Input
    PROVE  /\ power = "on" /\ now \notin inputs /\ (Running => due)
           /\ \A i \in DOMAIN rows : rows[i].kind = "idle" => rows[i].ts < now
           /\ inputs' = inputs \cup {now}
           /\ UNCHANGED <<now, power, slept, front, past, due, notice, gate, reseed, sess, ended, dirty>>
           /\ pump' = [pump EXCEPT !.idle = pump.idle /\ ~(Running /\ front # None)]
           /\ \E new : /\ Pumped(new) /\ Only(new, {"active"})
                       /\ Running /\ front # None /\ pump.idle => Sends(new, "active")
<1>1. /\ power = "on" /\ now \notin inputs /\ (Running => due)
      /\ \A i \in DOMAIN rows : rows[i].kind = "idle" => rows[i].ts < now
      /\ inputs' = inputs \cup {now}
      /\ UNCHANGED <<now, power, slept, front, past, due, notice, gate, reseed, sess, ended, dirty>>
  BY DEF Input
<1>2. pump \in Pumps /\ pump.idle \in BOOLEAN
  BY PumpsAre DEF Typed
<1>3. CASE Running /\ front # None /\ pump.idle
  <2> DEFINE q == [pump EXCEPT !.idle = FALSE]
             o == [pump |-> q, rows |-> << Mark("active") >>]
  <2>1. pump' = o.pump /\ Send(o.rows)
    BY <1>3 DEF Input, Became
  <2>2. q \in Pumps /\ q.cur = pump.cur
    BY <1>2 DEF Pumps
  <2> HIDE DEF q
  <2>3. "active" \in Kinds /\ "active" # "focus" /\ 0 \in Nat /\ 0 <= now /\ None \in Windows
    BY DEF Kinds, Typed, Windows
  <2>4. Outcome(pump, o, front')
    BY <1>2, <2>2, <2>3, MarkOut DEF Mark
  <2>5. Mark("active") \in Entries /\ Mark("active").kind = "active"
    BY <2>3, RowIs DEF Mark
  <2>6. Range(o.rows) = {Mark("active")}
    BY <2>5, Single
  <2> HIDE DEF o
  <2>7. Pumped(Sent(o.rows))
    BY <1>1, <1>3, <2>1, <2>4, SentPumped
  <2>8. Only(o.rows, {"active"}) /\ \E r \in Range(o.rows) : r.kind = "active"
    BY <2>5, <2>6 DEF Only
  <2>9. Only(Sent(o.rows), {"active"}) /\ Sends(Sent(o.rows), "active")
    BY <2>8, SentHas
  <2>10. pump' = [pump EXCEPT !.idle = pump.idle /\ ~(Running /\ front # None)]
    <3>1. (pump.idle /\ ~(Running /\ front # None)) = FALSE
      BY <1>3
    <3>2. pump' = [pump EXCEPT !.idle = FALSE]
      BY <2>1 DEF o, q
    <3>3. QED
      BY <3>1, <3>2
  <2>11. QED
    BY <1>1, <2>7, <2>9, <2>10
<1>4. CASE ~(Running /\ front # None /\ pump.idle)
  <2>1. UNCHANGED <<pump, rows, open>>
    BY <1>4 DEF Input
  <2>2. Pumped(<<>>)
    BY <1>1, <2>1, StillPumped
  <2>3. Only(<<>>, {"active"})
    BY Nothing DEF Only
  <2>4. (pump.idle /\ ~(Running /\ front # None)) = pump.idle
    BY <1>2, <1>4
  <2>5. pump' = [pump EXCEPT !.idle = pump.idle /\ ~(Running /\ front # None)]
    BY <1>2, <2>1, <2>4 DEF Pumps
  <2>6. QED
    BY <1>1, <1>4, <2>2, <2>3, <2>5
<1>5. QED
  BY <1>3, <1>4

\* A tick of the timer.
LEMMA TimerDoes ==
    ASSUME Typed, Dated, Timer
    PROVE  /\ Running /\ due /\ power = "on" /\ due' = FALSE
           /\ UNCHANGED <<world, notice, gate, reseed, sess, ended, dirty>>
           /\ pump' = Timed(pump)
           /\ \E new : /\ Pumped(new)
                       /\ \A r \in Range(new) :
                             \/ r.kind = "focus"
                             \/ r.kind = "resume" /\ pump.suspended
                             \/ r.kind = "recovered" /\ Missing(pump)
                             \/ r.kind = "idle" /\ r.dur = now - LastInput /\ Long
                             \/ r.kind = "active" /\ ~Long
                       /\ gate = "open" =>
                             /\ pump.suspended => \E r \in Range(new) : r.kind = "resume"
                             /\ Missing(pump) => \E r \in Range(new) : r.kind = "recovered" /\ r.dur = now - pump.tick
                             /\ ~pump.idle /\ Long => \E r \in Range(new) : r.kind = "idle" /\ r.dur = now - LastInput
                             /\ pump.idle /\ ~Long => \E r \in Range(new) : r.kind = "active"
<1>1. /\ Running /\ due /\ power = "on" /\ due' = FALSE
      /\ UNCHANGED <<world, notice, gate, reseed, sess, ended, dirty>>
  BY DEF Timer
<1>2. Became(TimerOut(pump))
  <2>1. Timer => Became(TimerOut(pump))
    BY DEF Timer, TimerOut, WokenOut
  <2>2. QED
    BY <2>1
<1>3. pump \in Pumps /\ (pump.cur # None => pump.cur.at <= now) /\ front' = front
  BY <1>1 DEF Typed, Dated, world
<1> DEFINE o == TimerOut(pump)
<1>4. /\ Outcome(pump, o, front) /\ o.pump = Timed(pump)
      /\ \A r \in Range(o.rows) :
            \/ r.kind = "focus"
            \/ r.kind = "resume" /\ pump.suspended
            \/ r.kind = "recovered" /\ Missing(pump)
            \/ r.kind = "idle" /\ r.dur = now - LastInput /\ Long
            \/ r.kind = "active" /\ ~Long
      /\ pump.suspended => \E r \in Range(o.rows) : r.kind = "resume"
      /\ Missing(pump) => \E r \in Range(o.rows) : r.kind = "recovered" /\ r.dur = now - pump.tick
      /\ ~pump.idle /\ Long => \E r \in Range(o.rows) : r.kind = "idle" /\ r.dur = now - LastInput
      /\ pump.idle /\ ~Long => \E r \in Range(o.rows) : r.kind = "active"
  BY <1>3, TimerIs
<1> HIDE DEF o
<1>5. pump' = o.pump /\ Send(o.rows)
  BY <1>2 DEF Became, o
<1>6. Pumped(Sent(o.rows))
  BY <1>1, <1>3, <1>4, <1>5, SentPumped DEF world
<1>7. Range(Sent(o.rows)) \subseteq Range(o.rows) /\ (gate = "open" => Sent(o.rows) = o.rows)
  BY Nothing DEF Sent
<1>8. QED
  BY <1>1, <1>4, <1>5, <1>6, <1>7

\* What Uses asks of the moment.
Free ==
    /\ Running /\ ~Unaware
    /\ \A k \in DOMAIN rows : rows[k].kind = "recovered" => rows[k].ts < now

LEMMA EndedMarkOut ==
    ASSUME Typed, Dated, NEW q \in Pumps, q.cur = None, NEW kind \in Kinds, kind # "focus"
    PROVE  LET e == End(pump, now)
               o == [pump |-> q, rows |-> e.rows \o << Mark(kind) >>]
           IN /\ Outcome(pump, o, front') /\ Only(o.rows, {"focus", kind})
              /\ \E r \in Range(o.rows) : r.kind = kind
              /\ \A r \in Range(o.rows) : r.kind = kind => r.dur = 0
              /\ pump.cur # None => \E r \in Range(o.rows) :
                    Dwelt(r) /\ r.prev = pump.cur.app /\ r.dur = now - pump.cur.at
<1> DEFINE e == End(pump, now)
           m == Mark(kind)
           b == [pump |-> q, rows |-> << m >>]
<1>1. pump \in Pumps /\ (pump.cur # None => pump.cur.at <= now /\ pump.cur.at \in Nat) /\ now \in Nat
  BY PumpsAre DEF Typed, Dated
<1>2. /\ Outcome(pump, e, front') /\ e.pump \in Pumps /\ e.pump = [pump EXCEPT !.cur = None]
      /\ \A r \in Range(e.rows) : r.kind = "focus"
      /\ pump.cur # None => \E r \in Range(e.rows) :
            Dwelt(r) /\ r.prev = pump.cur.app /\ r.dur = Least(now - pump.cur.at, now)
  BY <1>1, EndOut
<1>3. pump.cur # None => Least(now - pump.cur.at, now) = now - pump.cur.at
  BY <1>1 DEF Least
<1> HIDE DEF e
<1>4. e.pump.cur = q.cur
  BY <1>1, <1>2 DEF Pumps
<1>5. 0 \in Nat /\ 0 <= now /\ None \in Windows
  BY <1>1 DEF Windows
<1>6. Outcome(e.pump, b, front')
  BY <1>2, <1>4, <1>5, MarkOut DEF Mark
<1>7. m \in Entries /\ m.kind = kind /\ m.dur = 0
  <2>1. m \in Entries /\ m.kind = kind
    BY <1>5, RowIs DEF Mark
  <2>2. m.dur = 0
    BY DEF Mark, Row
  <2>3. QED
    BY <2>1, <2>2
<1> HIDE DEF m
<1>8. b.pump = q /\ b.rows = << m >> /\ Range(b.rows) = {m}
  BY <1>7, Single
<1> HIDE DEF b
<1>9. Outcome(pump, [pump |-> b.pump, rows |-> e.rows \o b.rows], front')
      /\ Range(e.rows \o b.rows) = Range(e.rows) \cup Range(b.rows)
  <2>1. Outcome(pump, e, front') /\ Outcome(e.pump, b, front')
    BY <1>2, <1>6
  <2>2. QED
    BY <1>1, <2>1, ThenOut, Zenon
<1> DEFINE o == [pump |-> q, rows |-> e.rows \o << m >>]
<1>10. Outcome(pump, o, front') /\ Range(o.rows) = Range(e.rows) \cup {m}
  BY <1>8, <1>9
<1> HIDE DEF o
<1>11. Only(o.rows, {"focus", kind}) /\ (\E r \in Range(o.rows) : r.kind = kind)
       /\ (\A r \in Range(o.rows) : r.kind = kind => r.dur = 0)
       /\ (pump.cur # None => \E r \in Range(o.rows) :
                    Dwelt(r) /\ r.prev = pump.cur.app /\ r.dur = now - pump.cur.at)
  BY <1>2, <1>3, <1>7, <1>10 DEF Only
<1>12. QED
  BY <1>10, <1>11 DEF o, e, m

\* The broadcast of a suspend.
LEMMA SuspendDoes ==
    ASSUME Typed, Dated, Suspend
    PROVE  /\ Free /\ "suspend" \in Ops /\ power = "on" /\ power' = "suspending"
           /\ UNCHANGED <<now, slept, front, inputs, past, due, notice, gate, reseed, sess, ended, dirty>>
           /\ pump' = [pump EXCEPT !.cur = None, !.suspended = TRUE, !.resumed = None, !.tick = now]
           /\ \E new : /\ Pumped(new) /\ Only(new, {"focus", "suspend"}) /\ Sends(new, "suspend")
                       /\ \A r \in Range(new) : r.kind = "suspend" => r.dur = 0
                       /\ gate = "open" /\ pump.cur # None => \E r \in Range(new) :
                             Dwelt(r) /\ r.prev = pump.cur.app /\ r.dur = now - pump.cur.at
<1>1. /\ Free /\ "suspend" \in Ops /\ power = "on" /\ power' = "suspending" /\ Running
      /\ UNCHANGED <<now, slept, front, inputs, past, due, notice, gate, reseed, sess, ended, dirty>>
  BY DEF Suspend, Uses, Free
<1> DEFINE e == End(pump, now)
           q == [e.pump EXCEPT !.suspended = TRUE, !.resumed = None, !.tick = now]
           o == [pump |-> q, rows |-> e.rows \o << Mark("suspend") >>]
<1>2. pump' = o.pump /\ Send(o.rows)
  <2>1. Suspend => Told(o)
    BY DEF Suspend
  <2>2. QED
    BY <1>1, <2>1 DEF Told, Became
<1>3. pump \in Pumps /\ now \in Nat
  BY DEF Typed
<1>4. e.pump = [pump EXCEPT !.cur = None]
  BY DEF End
<1>5. q = [pump EXCEPT !.cur = None, !.suspended = TRUE, !.resumed = None, !.tick = now]
      /\ q \in Pumps /\ q.cur = None
  BY <1>3, <1>4 DEF Pumps
<1> HIDE DEF q
<1>6. "suspend" \in Kinds /\ "suspend" # "focus"
  BY DEF Kinds
<1>7. /\ Outcome(pump, o, front') /\ Only(o.rows, {"focus", "suspend"})
      /\ \E r \in Range(o.rows) : r.kind = "suspend"
      /\ \A r \in Range(o.rows) : r.kind = "suspend" => r.dur = 0
      /\ pump.cur # None => \E r \in Range(o.rows) :
            Dwelt(r) /\ r.prev = pump.cur.app /\ r.dur = now - pump.cur.at
  BY <1>5, <1>6, EndedMarkOut
<1>8. o.pump = q
  OBVIOUS
<1> HIDE DEF o
<1>9. Pumped(Sent(o.rows))
  BY <1>1, <1>2, <1>7, SentPumped
<1>10. Only(Sent(o.rows), {"focus", "suspend"}) /\ Sends(Sent(o.rows), "suspend")
  BY <1>7, SentHas
<1>11. /\ gate = "open" => Sent(o.rows) = o.rows
       /\ \A r \in Range(Sent(o.rows)) : r \in Range(o.rows)
  BY Nothing DEF Sent
<1>12. QED
  BY <1>1, <1>2, <1>5, <1>7, <1>8, <1>9, <1>10, <1>11

\* The lock screen.
LEMMA LockDoes ==
    ASSUME Typed, Dated, Lock
    PROVE  /\ Free /\ power = "on" /\ front' = None
           /\ UNCHANGED <<now, power, slept, inputs, past, due, notice, gate, reseed, sess, ended, dirty>>
           /\ pump' = [pump EXCEPT !.cur = None]
           /\ \E new : /\ Pumped(new) /\ Only(new, {"focus", "lock"})
                       /\ gate = "open" /\ pump.cur # None => \E r \in Range(new) :
                             Dwelt(r) /\ r.prev = pump.cur.app /\ r.dur = now - pump.cur.at
<1>1. /\ Free /\ power = "on" /\ front' = None /\ Running
      /\ UNCHANGED <<now, power, slept, inputs, past, due, notice, gate, reseed, sess, ended, dirty>>
  BY DEF Lock, Uses, Free
<1> DEFINE e == End(pump, now)
           q == e.pump
           o == [pump |-> q, rows |-> e.rows \o << Mark("lock") >>]
<1>2. pump' = o.pump /\ Send(o.rows)
  <2>1. Lock => Told(o)
    BY DEF Lock
  <2>2. QED
    BY <1>1, <2>1 DEF Told, Became
<1>3. pump \in Pumps
  BY DEF Typed
<1>4. q = [pump EXCEPT !.cur = None]
  BY DEF End
<1>5. q \in Pumps /\ q.cur = None
  BY <1>3, <1>4 DEF Pumps
<1> HIDE DEF q
<1>6. "lock" \in Kinds /\ "lock" # "focus"
  BY DEF Kinds
<1>7. /\ Outcome(pump, o, front') /\ Only(o.rows, {"focus", "lock"})
      /\ pump.cur # None => \E r \in Range(o.rows) :
            Dwelt(r) /\ r.prev = pump.cur.app /\ r.dur = now - pump.cur.at
  BY <1>5, <1>6, EndedMarkOut
<1>8. o.pump = q
  OBVIOUS
<1> HIDE DEF o
<1>9. Pumped(Sent(o.rows))
  BY <1>1, <1>2, <1>7, SentPumped
<1>10. Only(Sent(o.rows), {"focus", "lock"})
  BY <1>7, SentHas
<1>11. gate = "open" => Sent(o.rows) = o.rows
  BY DEF Sent
<1>12. QED
  BY <1>1, <1>2, <1>4, <1>7, <1>8, <1>9, <1>10, <1>11

\* The machine falls asleep, after the broadcast or without one.
LEMMA SleepDoes ==
    ASSUME Typed, Dated, Sleep
    PROVE  /\ \/ power = "suspending" /\ UNCHANGED dirty
              \/ power = "on" /\ Free /\ dirty' = dirty \cup {<<sess, "missed">>} /\ "missed" \in Ops
           /\ power' = "asleep" /\ slept' = now /\ due' = FALSE
           /\ UNCHANGED <<now, front, inputs, past, notice, pump, gate, reseed, open, rows, sess, ended>>
           /\ Pumped(<<>>)
<1>1. /\ \/ power = "suspending" /\ UNCHANGED dirty
         \/ power = "on" /\ Free /\ dirty' = dirty \cup {<<sess, "missed">>} /\ "missed" \in Ops
      /\ power' = "asleep" /\ slept' = now /\ due' = FALSE
      /\ UNCHANGED <<now, front, inputs, past, notice, pump, gate, reseed, open, rows, sess, ended>>
  BY DEF Sleep, Uses, Soils, Free
<1>2. QED
  BY <1>1, StillPumped

\* It wakes, and the broadcast of that may be lost.
LEMMA WakeDoes ==
    ASSUME Typed, Dated, Wake
    PROVE  /\ power = "asleep" /\ (Running /\ ~pump.suspended => now > slept + Gap)
           /\ power' = "on" /\ slept' = 0 /\ notice' \in BOOLEAN /\ due' = Running
           /\ now > slept
           /\ UNCHANGED <<now, front, inputs, past, pump, gate, reseed, open, rows, sess, ended, dirty>>
           /\ Pumped(<<>>)
<1>1. /\ power = "asleep" /\ now > slept + (IF Running /\ ~pump.suspended THEN Gap ELSE 0)
      /\ power' = "on" /\ slept' = 0 /\ notice' \in BOOLEAN /\ due' = Running
      /\ UNCHANGED <<now, front, inputs, past, pump, gate, reseed, open, rows, sess, ended, dirty>>
  BY DEF Wake
<1>2. now \in Nat /\ slept \in Nat
  BY DEF Typed
<1>3. now > slept /\ (Running /\ ~pump.suspended => now > slept + Gap)
  BY <1>1, <1>2 DEF Gap
<1>4. QED
  BY <1>1, <1>3, StillPumped

-----------------------------------------------------------------------------
(* The sessions.                                                            *)

\* A session that runs is the last, and has not ended; what does not run keeps
\* nothing.
Alive ==
    /\ Running => sess = Len(ended) /\ ended[sess] = None
    /\ ~Running => pump = Fresh0 /\ gate = "open" /\ ~reseed /\ ~due /\ open.seg = None
    /\ gate = "recording" => Recorded(sess)

\* The broadcast of the resume.
LEMMA ResumeNoticeDoes ==
    ASSUME Typed, Dated, ResumeNotice
    PROVE  /\ power = "on" /\ notice /\ notice' = FALSE
           /\ UNCHANGED <<world, due, gate, reseed, sess, ended, dirty>>
           /\ pump' = IF ~Running THEN pump
                      ELSE IF Anew(pump) THEN Woken(pump) ELSE [pump EXCEPT !.tick = now]
           /\ \E new : /\ Pumped(new)
                       /\ \A r \in Range(new) :
                             \/ r.kind \in {"focus", "resume"}
                             \/ r.kind = "recovered" /\ Missing(pump)
                       /\ Running /\ gate = "open" /\ Anew(pump) =>
                             /\ \E r \in Range(new) : r.kind = "resume"
                             /\ Missing(pump) => \E r \in Range(new) : r.kind = "recovered" /\ r.dur = now - pump.tick
<1>1. /\ power = "on" /\ notice /\ notice' = FALSE
      /\ UNCHANGED <<world, due, gate, reseed, sess, ended, dirty>> /\ front' = front
      /\ UNCHANGED <<now, past>>
  BY DEF ResumeNotice, world
<1>2. Told(Resume(pump))
  <2>1. ResumeNotice => Told(Resume(pump))
    BY DEF ResumeNotice
  <2>2. QED
    BY <2>1
<1>3. pump \in Pumps /\ (pump.cur # None => pump.cur.at <= now)
  BY DEF Typed, Dated
<1>4. CASE ~Running
  <2>1. UNCHANGED <<pump, rows, open>>
    BY <1>2, <1>4 DEF Told
  <2>2. Pumped(<<>>) /\ Range(<<>>) = {}
    BY <1>1, <2>1, StillPumped, Nothing
  <2>3. QED
    BY <1>1, <1>4, <2>1, <2>2
<1>5. CASE Running
  <2> DEFINE o == Resume(pump)
  <2>1. pump' = o.pump /\ Send(o.rows)
    BY <1>2, <1>5 DEF Told, Became
  <2>2. /\ Outcome(pump, o, front')
        /\ o.pump = IF Anew(pump) THEN Woken(pump) ELSE [pump EXCEPT !.tick = now]
        /\ \A r \in Range(o.rows) : r.kind \in {"focus", "resume"} \/ (r.kind = "recovered" /\ Missing(pump))
        /\ Anew(pump) => /\ \E r \in Range(o.rows) : r.kind = "resume"
                         /\ Missing(pump) => \E r \in Range(o.rows) : r.kind = "recovered" /\ r.dur = now - pump.tick
    <3>1. CASE Anew(pump)
      BY <1>1, <1>3, <3>1, ResumeAnewOut
    <3>2. CASE ~Anew(pump)
      BY <1>1, <1>3, <3>2, ResumeAgainOut
    <3>3. QED
      BY <3>1, <3>2
  <2> HIDE DEF o
  <2>3. Pumped(Sent(o.rows))
    BY <1>1, <1>5, <2>1, <2>2, SentPumped
  <2>4. Range(Sent(o.rows)) \subseteq Range(o.rows) /\ (gate = "open" => Sent(o.rows) = o.rows)
    BY Nothing DEF Sent
  <2>5. pump' = IF ~Running THEN pump
                ELSE IF Anew(pump) THEN Woken(pump) ELSE [pump EXCEPT !.tick = now]
    BY <1>5, <2>1, <2>2
  <2>6. QED
    BY <1>1, <2>2, <2>3, <2>4, <2>5
<1>6. QED
  BY <1>4, <1>5

\* The lock screen is left.
LEMMA UnlockDoes ==
    ASSUME Typed, Dated, Unlock
    PROVE  /\ power = "on" /\ front = None /\ front' \in App
           /\ UNCHANGED <<now, power, slept, inputs, past, due, notice, gate, reseed, sess, ended, dirty>>
           /\ pump' = IF ~Running THEN pump ELSE [pump EXCEPT !.cur = [app |-> front', at |-> now]]
           /\ \E new : Pumped(new) /\ Only(new, {"focus"})
<1>1. /\ power = "on" /\ front = None
      /\ UNCHANGED <<now, power, slept, inputs, past, due, notice, gate, reseed, sess, ended, dirty>>
  BY DEF Unlock
<1>2. PICK app \in App : front' = app /\ Told(Seed(pump, app))
  BY DEF Unlock
<1>3. pump \in Pumps /\ app \in Windows /\ app # None
  BY Absent DEF Typed, Windows
<1>4. CASE ~Running
  <2>1. UNCHANGED <<pump, rows, open>>
    BY <1>2, <1>4 DEF Told
  <2>2. Pumped(<<>>) /\ Range(<<>>) = {}
    BY <1>1, <2>1, StillPumped, Nothing
  <2>3. QED
    BY <1>1, <1>2, <1>4, <2>1, <2>2 DEF Only
<1>5. CASE Running
  <2> DEFINE o == Seed(pump, app)
  <2>1. pump' = o.pump /\ Send(o.rows)
    BY <1>2, <1>5 DEF Told, Became
  <2>2. /\ Outcome(pump, o, front') /\ o.pump = [pump EXCEPT !.cur = [app |-> app, at |-> now]]
        /\ \A r \in Range(o.rows) : r.kind = "focus"
    BY <1>2, <1>3, SeedOut
  <2> HIDE DEF o
  <2>3. Pumped(Sent(o.rows))
    BY <1>1, <1>5, <2>1, <2>2, SentPumped
  <2>4. Only(Sent(o.rows), {"focus"})
    BY <2>2, SentHas DEF Only
  <2>5. pump' = IF ~Running THEN pump ELSE [pump EXCEPT !.cur = [app |-> front', at |-> now]]
    BY <1>2, <1>5, <2>1, <2>2
  <2>6. QED
    BY <1>1, <1>2, <2>3, <2>4, <2>5
<1>6. QED
  BY <1>4, <1>5

\* The user pauses capture.
LEMMA PauseDoes ==
    ASSUME Typed, Dated, Pause
    PROVE  /\ Free /\ gate = "open" /\ Pressed /\ gate' = "paused" /\ "pause" \in Ops
           /\ UNCHANGED <<world, due, notice, pump, reseed, sess, ended>>
           /\ dirty' = dirty \cup {<<sess, "pause">>} /\ open' = Closed
           /\ \E new : /\ Pumped(new) /\ Only(new, {"paused"}) /\ Sends(new, "paused")
<1>1. /\ Free /\ gate = "open" /\ Pressed /\ gate' = "paused" /\ Running /\ StoreAll(<< Mark("paused") >>) /\ "pause" \in Ops
      /\ UNCHANGED <<world, due, notice, pump, reseed, sess, ended>> /\ UNCHANGED <<now, past>>
      /\ dirty' = dirty \cup {<<sess, "pause">>}
  BY DEF Pause, Uses, Free, Soils, world
<1>2. "paused" \in Kinds /\ "paused" # "focus"
  BY DEF Kinds
<1>3. /\ Pumped(<< Mark("paused") >>) /\ Range(<< Mark("paused") >>) = {Mark("paused")}
      /\ Mark("paused").kind = "paused"
  BY <1>1, <1>2, MarkPumped
<1>4. open' = Noted(open, Mark("paused"))
  BY <1>1, NotedOne DEF StoreAll
<1>5. open' = Closed
  BY <1>3, <1>4 DEF Noted
<1>6. QED
  BY <1>1, <1>3, <1>5 DEF Only, Sends

\* The user ends the pause.
LEMMA UnpauseDoes ==
    ASSUME Typed, Dated, Alive, Unpause
    PROVE  /\ gate = "paused" /\ Pressed /\ gate' = "open" /\ reseed' = TRUE
           /\ \A k \in DOMAIN rows : rows[k].kind = "paused" => rows[k].ts < now
           /\ UNCHANGED <<world, due, notice, pump, sess, ended, dirty>>
           /\ \E new : Pumped(new) /\ Only(new, {"resumed"}) /\ \E r \in Range(new) : r.kind = "resumed"
<1>1. /\ gate = "paused" /\ Pressed /\ gate' = "open" /\ reseed' = TRUE /\ StoreAll(<< Mark("resumed") >>)
      /\ \A k \in DOMAIN rows : rows[k].kind = "paused" => rows[k].ts < now
      /\ UNCHANGED <<world, due, notice, pump, sess, ended, dirty>> /\ UNCHANGED <<now, past>>
  BY DEF Unpause, world
<1>2. "resumed" \in Kinds /\ "resumed" # "focus" /\ Running
  BY <1>1 DEF Kinds, Alive
<1>3. /\ Pumped(<< Mark("resumed") >>) /\ Range(<< Mark("resumed") >>) = {Mark("resumed")}
      /\ Mark("resumed").kind = "resumed"
  BY <1>1, <1>2, MarkPumped
<1>4. QED
  BY <1>1, <1>3 DEF Only

\* A recording starts, without a row.
LEMMA StartRecordingDoes ==
    ASSUME Typed, Dated, StartRecording
    PROVE  /\ Free /\ gate = "open" /\ Pressed /\ gate' = "recording" /\ "recording" \in Ops
           /\ UNCHANGED <<world, due, notice, pump, reseed, open, rows, sess, ended>>
           /\ dirty' = dirty \cup {<<sess, "recording">>}
           /\ Pumped(<<>>)
<1>1. /\ Free /\ gate = "open" /\ Pressed /\ gate' = "recording" /\ "recording" \in Ops
      /\ UNCHANGED <<world, due, notice, pump, reseed, open, rows, sess, ended>> /\ UNCHANGED <<now, past>>
      /\ dirty' = dirty \cup {<<sess, "recording">>}
  BY DEF StartRecording, Uses, Free, Soils, world
<1>2. Pumped(<<>>)
  BY <1>1, StillPumped
<1>3. QED
  BY <1>1, <1>2

\* A recording ends, and a reseed is requested.
LEMMA EndRecordingDoes ==
    ASSUME Typed, Dated, EndRecording
    PROVE  /\ gate = "recording" /\ power = "on" /\ gate' = "open" /\ reseed' = TRUE
           /\ UNCHANGED <<world, due, notice, pump, open, rows, sess, ended, dirty>>
           /\ Pumped(<<>>)
<1>1. /\ gate = "recording" /\ power = "on" /\ gate' = "open" /\ reseed' = TRUE
      /\ UNCHANGED <<world, due, notice, pump, open, rows, sess, ended, dirty>> /\ UNCHANGED <<now, past>>
  BY DEF EndRecording, world
<1>2. Pumped(<<>>)
  BY <1>1, StillPumped
<1>3. QED
  BY <1>1, <1>2

\* A reseed that is not a recording's comes at once, with the user there.
Reseeding ==
    reseed /\ ~Recorded(sess) => now \in inputs /\ ~pump.idle /\ power = "on" /\ front # None

\* reseed_after_reset.
LEMMA ReseedDoes ==
    ASSUME Typed, Dated, Alive, Reseeding, Reseed
    PROVE  /\ Running /\ reseed /\ power = "on" /\ reseed' = FALSE
           /\ UNCHANGED <<world, due, notice, gate, sess, ended, dirty>>
           /\ pump'.cur = InFront /\ ~pump'.idle /\ ~pump'.suspended /\ pump'.resumed = None /\ pump'.tick = now
           /\ \E new : Pumped(new) /\ Only(new, {"focus"})
<1>1. /\ Running /\ reseed /\ power = "on" /\ reseed' = FALSE
      /\ UNCHANGED <<world, due, notice, gate, sess, ended, dirty>> /\ UNCHANGED <<now, past>> /\ front' = front
  BY DEF Reseed, Alive, world
<1> DEFINE p == [Fresh0 EXCEPT !.tick = now]
           o == Seed(p, front)
<1>2. pump' = o.pump /\ Send(o.rows)
  BY DEF Reseed, Became
<1>3. now \in Nat /\ front \in Windows /\ pump \in Pumps /\ open \in Opens /\ None \notin Segments
  BY Absent DEF Typed
<1>4. p \in Pumps /\ p.cur = None /\ ~p.idle /\ ~p.suspended /\ p.resumed = None /\ p.tick = now
  <2> DEFINE f == Fresh0
  <2>1. f \in Pumps /\ f.cur = None /\ ~f.idle /\ ~f.suspended /\ f.resumed = None
    BY DEF Fresh0, Pumps
  <2>2. p = [f EXCEPT !.tick = now]
    OBVIOUS
  <2> HIDE DEF f, p
  <2>3. QED
    BY <1>3, <2>1, <2>2 DEF Pumps
<1>5. /\ Outcome(p, o, front) /\ o.pump \in Pumps
      /\ o.pump = [p EXCEPT !.cur = IF front = None THEN @ ELSE [app |-> front, at |-> now]]
      /\ \A r \in Range(o.rows) : r.kind = "focus" /\ ~Dwelt(r)
  <2> HIDE DEF p
  <2>1. Outcome(p, o, front) /\ \A r \in Range(o.rows) : r.kind = "focus" /\ ~Dwelt(r)
    BY <1>3, <1>4, SeedOut
  <2>2. o.pump \in Pumps /\ o.pump = [p EXCEPT !.cur = IF front = None THEN @ ELSE [app |-> front, at |-> now]]
    BY <1>4, SeededIs
  <2>3. QED
    BY <2>1, <2>2
<1>6. /\ o.pump.cur = InFront /\ ~o.pump.idle /\ ~o.pump.suspended /\ o.pump.resumed = None
      /\ o.pump.tick = now
  <2> HIDE DEF p, o
  <2>1. QED
    BY <1>4, <1>5 DEF InFront, Pumps
<1>7. ~Recorded(sess) => InStep(FoldLeft(Noted, open, o.rows), o.pump)
  <2> SUFFICES ASSUME front # None PROVE InStep(FoldLeft(Noted, open, o.rows), o.pump)
    BY <1>1 DEF Reseeding
  <2> DEFINE r == Row("focus", 0, front, None)
  <2>1. o.rows = << r >>
    BY DEF Seed
  <2>2. r.kind = "focus" /\ r.app = front /\ r.prev = None /\ r.ts = now
    BY DEF Row
  <2> HIDE DEF r, o
  <2>3. FoldLeft(Noted, open, o.rows) = Noted(open, r)
    BY <2>1, NotedOne
  <2>4. Noted(open, r).seg.start = now /\ Noted(open, r).seg.app = front
    BY <2>2 DEF Noted
  <2>5. o.pump.cur # None /\ o.pump.cur.at = now /\ o.pump.cur.app = front
    <3>1. o.pump.cur = [app |-> front, at |-> now]
      BY <1>6 DEF InFront
    <3>2. [app |-> front, at |-> now] \in Segments
      BY <1>3 DEF Segments, Windows
    <3>3. QED
      BY <1>3, <3>1, <3>2
  <2>6. QED
    BY <2>3, <2>4, <2>5 DEF InStep
<1> HIDE DEF o, p
<1>8. o.rows \in Seq(Entries) /\ \A r \in Range(o.rows) : r.sess = sess /\ r.ts = now /\ r.dur <= now
  BY <1>5 DEF Outcome
<1>9. o.pump.cur = None \/ (front # None /\ o.pump.cur = [app |-> front, at |-> now])
  BY <1>6 DEF InFront
<1>10. Opened(open, FoldLeft(Noted, open, o.rows))
  BY <1>3, <1>5 DEF Outcome
<1> DEFINE new == Sent(o.rows)
<1>11. /\ new \in Seq(Entries) /\ rows' = rows \o new /\ open' = FoldLeft(Noted, open, new)
       /\ Range(new) \subseteq Range(o.rows) /\ (gate = "open" => new = o.rows) /\ (gate # "open" => new = <<>>)
  BY <1>2, <1>8, Nothing DEF Sent, Send, StoreAll
<1>12. \A i, j \in DOMAIN new : ~(Dwelt(new[i]) /\ Dwelt(new[j]))
  <2> HIDE DEF new
  <2>1. \A i \in DOMAIN new : new[i] \in Range(new)
    BY <1>11, RangeIn
  <2>2. QED
    BY <2>1, <1>5, <1>11
<1> HIDE DEF new
<1>13. gate # "open" => open' = open
  BY <1>11, NotedNone
<1>14. Opened(open, open')
  BY <1>10, <1>11, <1>13 DEF Opened
<1>15. Pumped(new)
  BY <1>1, <1>2, <1>5, <1>7, <1>8, <1>9, <1>11, <1>12, <1>13, <1>14 DEF Pumped
<1>16. Only(new, {"focus"})
  BY <1>5, <1>11 DEF Only
<1>17. QED
  BY <1>1, <1>2, <1>6, <1>15, <1>16

-----------------------------------------------------------------------------
(* The program's other steps.                                               *)

\* The history has the units passed.
LEMMA UnitsAre ==
    ASSUME Typed, Dated
    PROVE  /\ DOMAIN past = 1 .. now /\ now \in Nat
           /\ \A t \in 0 .. now - 1 :
                 /\ t \in Nat /\ t + 1 \in DOMAIN past /\ past[t + 1] \in Units
                 /\ past[t + 1].app \in Windows /\ past[t + 1].awake \in BOOLEAN
                 /\ past[t + 1].gate \in {"open", "paused", "recording"} /\ past[t + 1].sess \in Nat
<1>1. past \in Seq(Units) /\ now \in Nat /\ Len(past) = now
  BY DEF Typed, Dated
<1>2. DOMAIN past = 1 .. now /\ \A k \in 1 .. now : past[k] \in Units
  BY <1>1
<1>3. \A u \in Units : u.app \in Windows /\ u.awake \in BOOLEAN
                       /\ u.gate \in {"open", "paused", "recording"} /\ u.sess \in Nat
  BY DEF Units
<1>4. \A t \in 0 .. now - 1 : t \in Nat /\ t + 1 \in 1 .. now
  BY <1>1
<1>5. QED
  BY <1>1, <1>2, <1>3, <1>4

\* The sessions and their ends.
LEMMA EndedAre ==
    ASSUME Typed
    PROVE  /\ Len(ended) \in Nat /\ DOMAIN ended = 1 .. Len(ended)
           /\ \A s \in DOMAIN ended : s \in Nat /\ s >= 1 /\ (ended[s] = None \/ ended[s] \in Nat)
           /\ None \notin Nat
<1>1. ended \in Seq(Nat \cup {None}) /\ None \notin Nat
  BY Absent DEF Typed
<1>2. Len(ended) \in Nat /\ DOMAIN ended = 1 .. Len(ended) /\ \A s \in DOMAIN ended : ended[s] \in Nat \cup {None}
  BY <1>1
<1>3. QED
  BY <1>1, <1>2

\* A beat writes the open_focus row.
LEMMA BeatDoes ==
    ASSUME Typed, Dated, Alive, Beat
    PROVE  /\ Running /\ Settled /\ open.seg # None
           /\ UNCHANGED <<world, due, notice, pump, gate, reseed, rows, sess, ended, dirty>>
           /\ open' \in Opens /\ open'.seg = open.seg /\ open'.row # None
           /\ open'.row.sess = open.seg.sess /\ open'.row.app = open.seg.app
           /\ open'.row.start = open.seg.start /\ open'.row.high = now
<1>1. /\ Running /\ Settled /\ open.seg # None
      /\ UNCHANGED <<world, due, notice, pump, gate, reseed, rows, sess, ended, dirty>>
  BY DEF Beat
<1> DEFINE b == [sess |-> open.seg.sess, app |-> open.seg.app, start |-> open.seg.start, high |-> now]
<1>2. open' = [open EXCEPT !.row = b]
  BY DEF Beat
<1>3. open \in Opens /\ now \in Nat
  BY DEF Typed
<1>4. open.seg.sess \in Nat /\ open.seg.app \in App /\ open.seg.start \in Nat
  BY <1>1, <1>3, OpensAre
<1>5. b \in OpenRows /\ b # None
  BY <1>3, <1>4, Absent DEF OpenRows
<1>6. b.sess = open.seg.sess /\ b.app = open.seg.app /\ b.start = open.seg.start /\ b.high = now
  OBVIOUS
<1> HIDE DEF b
<1>7. open' \in Opens /\ open'.seg = open.seg /\ open'.row = b
  BY <1>2, <1>3, <1>5 DEF Opens
<1>8. QED
  BY <1>1, <1>5, <1>6, <1>7

\* A clean stop: the dwell of the segment, and the end of the session.
LEMMA StopDoes ==
    ASSUME Typed, Dated, Alive, Stop
    PROVE  /\ Free /\ power = "on" /\ sess \in DOMAIN ended /\ ended[sess] = None
           /\ UNCHANGED <<world, notice, dirty>> /\ open' = Closed
           /\ sess' = 0 /\ pump' = Fresh0 /\ gate' = "open" /\ ~reseed' /\ ~due'
           /\ ended' \in Seq(Nat \cup {None}) /\ DOMAIN ended' = DOMAIN ended /\ ended'[sess] = now
           /\ Len(ended') = Len(ended)
           /\ \A s \in DOMAIN ended : s # sess => ended'[s] = ended[s]
           /\ \E new :
                /\ new \in Seq(Entries) /\ rows' = rows \o new
                /\ \A r \in Range(new) :
                      /\ r.kind = "focus" /\ r.sess = sess /\ r.ts = now /\ r.dur <= now
                      /\ Dwelt(r) => /\ gate = "open"
                                     /\ r.dur = 0 \/ (pump.cur # None /\ r.prev = pump.cur.app /\ r.dur <= now - pump.cur.at)
                /\ \A i, j \in DOMAIN new : i < j /\ Dwelt(new[i]) /\ Dwelt(new[j]) => new[j].dur = 0
                /\ gate = "open" /\ pump.cur # None => \E r \in Range(new) :
                      Dwelt(r) /\ r.prev = pump.cur.app /\ r.dur = now - pump.cur.at
<1>1. /\ Free /\ power = "on" /\ open' = Closed /\ Running
      /\ UNCHANGED <<world, notice, dirty>>
      /\ sess' = 0 /\ pump' = Fresh0 /\ gate' = "open" /\ ~reseed' /\ ~due'
      /\ ended' = [ended EXCEPT ![sess] = now]
      /\ rows' = rows \o (IF gate = "open" THEN End(pump, now).rows ELSE <<>>)
  BY DEF Stop, Uses, Free
<1>2. sess \in DOMAIN ended /\ ended[sess] = None
  <2>1. sess = Len(ended) /\ ended[sess] = None /\ sess # 0 /\ sess \in Nat
    BY <1>1 DEF Alive, Running, Typed
  <2>2. QED
    BY <2>1, EndedAre
<1>3. now \in Nat /\ ended \in Seq(Nat \cup {None})
  BY DEF Typed
<1>4. /\ ended' \in Seq(Nat \cup {None}) /\ DOMAIN ended' = DOMAIN ended /\ ended'[sess] = now
      /\ \A s \in DOMAIN ended : s # sess => ended'[s] = ended[s]
      /\ Len(ended') = Len(ended)
  BY <1>1, <1>2, <1>3
<1>5. pump \in Pumps /\ (pump.cur # None => pump.cur.at <= now /\ pump.cur.at \in Nat)
  BY PumpsAre DEF Typed, Dated
<1> DEFINE e == End(pump, now)
           new == IF gate = "open" THEN e.rows ELSE <<>>
<1>6. /\ Outcome(pump, e, None)
      /\ \A r \in Range(e.rows) : r.kind = "focus"
      /\ pump.cur # None => \E r \in Range(e.rows) :
            Dwelt(r) /\ r.prev = pump.cur.app /\ r.dur = Least(now - pump.cur.at, now)
  BY <1>3, <1>5, EndOut
<1>7. pump.cur # None => Least(now - pump.cur.at, now) = now - pump.cur.at
  BY <1>3, <1>5 DEF Least
<1> HIDE DEF e
<1>8. /\ e.rows \in Seq(Entries)
      /\ \A r \in Range(e.rows) : r.sess = sess /\ r.ts = now /\ r.dur <= now
      /\ \A r \in Range(e.rows) : Dwelt(r) =>
            r.dur = 0 \/ (pump.cur # None /\ r.prev = pump.cur.app /\ r.dur <= now - pump.cur.at)
      /\ \A i, j \in DOMAIN e.rows : i < j /\ Dwelt(e.rows[i]) /\ Dwelt(e.rows[j]) => e.rows[j].dur = 0
  BY <1>6 DEF Outcome
<1>9. /\ new \in Seq(Entries) /\ rows' = rows \o new
      /\ (gate = "open" => new = e.rows) /\ (gate # "open" => Range(new) = {} /\ DOMAIN new = {})
  BY <1>1, <1>8, Nothing DEF e
<1> HIDE DEF new
<1>10. \A r \in Range(new) :
          /\ r.kind = "focus" /\ r.sess = sess /\ r.ts = now /\ r.dur <= now
          /\ Dwelt(r) => /\ gate = "open"
                         /\ r.dur = 0 \/ (pump.cur # None /\ r.prev = pump.cur.app /\ r.dur <= now - pump.cur.at)
  BY <1>6, <1>8, <1>9
<1>11. \A i, j \in DOMAIN new : i < j /\ Dwelt(new[i]) /\ Dwelt(new[j]) => new[j].dur = 0
  BY <1>8, <1>9
<1>12. gate = "open" /\ pump.cur # None => \E r \in Range(new) :
          Dwelt(r) /\ r.prev = pump.cur.app /\ r.dur = now - pump.cur.at
  BY <1>6, <1>7, <1>9
<1>13. QED
  BY <1>1, <1>2, <1>4, <1>9, <1>10, <1>11, <1>12

\* A crash: the open_focus row is all that is left of the segment.
LEMMA CrashDoes ==
    ASSUME Typed, Dated, Alive, Crash
    PROVE  /\ Free /\ sess \in DOMAIN ended /\ ended[sess] = None /\ "crash" \in Ops
           /\ UNCHANGED <<world, notice, rows, ended>> /\ dirty' = dirty \cup {<<sess, "crash">>}
           /\ open' \in Opens /\ open'.seg = None /\ open'.row = open.row
           /\ sess' = 0 /\ pump' = Fresh0 /\ gate' = "open" /\ ~reseed' /\ ~due'
<1>1. /\ Free /\ "crash" \in Ops /\ Running
      /\ UNCHANGED <<world, notice, rows, ended>> /\ dirty' = dirty \cup {<<sess, "crash">>}
      /\ open' = [open EXCEPT !.seg = None]
      /\ sess' = 0 /\ pump' = Fresh0 /\ gate' = "open" /\ ~reseed' /\ ~due'
  BY DEF Crash, Uses, Free, Soils
<1>2. sess \in DOMAIN ended /\ ended[sess] = None
  <2>1. sess = Len(ended) /\ ended[sess] = None /\ sess # 0 /\ sess \in Nat
    BY <1>1 DEF Alive, Running, Typed
  <2>2. QED
    BY <2>1, EndedAre
<1>3. open' \in Opens /\ open'.seg = None /\ open'.row = open.row
  BY <1>1 DEF Typed, Opens
<1>4. QED
  BY <1>1, <1>2, <1>3

\* A unit of time passes, while the pump has settled or the machine sleeps.
LEMMA TickDoes ==
    ASSUME Typed, Dated, Tick
    PROVE  /\ now' = now + 1 /\ (Settled \/ power = "asleep") /\ due' = (Running /\ power = "on")
           /\ UNCHANGED <<power, slept, front, inputs, notice, pump, gate, reseed, open,
                          rows, sess, ended, dirty>>
           /\ past' \in Seq(Units) /\ Len(past') = now + 1
           /\ \A t \in 0 .. now - 1 : past'[t + 1] = past[t + 1]
           /\ past'[now + 1] = [app |-> front, awake |-> power = "on", gate |-> gate, sess |-> sess]
           /\ past'[now + 1].app = front /\ (past'[now + 1].awake <=> power = "on")
           /\ past'[now + 1].gate = gate /\ past'[now + 1].sess = sess
           /\ now' \in Nat /\ now \in Nat
<1> DEFINE u == [app |-> front, awake |-> power = "on", gate |-> gate, sess |-> sess]
<1>1. /\ now' = now + 1 /\ (Settled \/ power = "asleep") /\ due' = (Running /\ power = "on")
      /\ UNCHANGED <<power, slept, front, inputs, notice, pump, gate, reseed, open,
                          rows, sess, ended, dirty>>
      /\ past' = Append(past, u)
  BY DEF Tick
<1>2. past \in Seq(Units) /\ now \in Nat /\ Len(past) = now
  BY DEF Typed, Dated
<1>3. u \in Units
  BY DEF Typed, Units
<1>4. u.app = front /\ (u.awake <=> power = "on") /\ u.gate = gate /\ u.sess = sess
  OBVIOUS
<1>5. u = [app |-> front, awake |-> power = "on", gate |-> gate, sess |-> sess]
  OBVIOUS
<1> HIDE DEF u
<1>6. /\ past' \in Seq(Units) /\ Len(past') = now + 1 /\ past'[now + 1] = u
      /\ \A k \in 1 .. now : past'[k] = past[k]
  BY <1>1, <1>2, <1>3
<1>7. \A t \in 0 .. now - 1 : t + 1 \in 1 .. now
  BY <1>2
<1>8. QED
  BY <1>1, <1>2, <1>4, <1>5, <1>6, <1>7

\* repair_open_focus: the row that was left becomes the last of its session.
LEMMA RepairedIs ==
    ASSUME Typed, Dated
    PROVE  \E rep :
              /\ rep \in Seq(Entries) /\ Repaired = rows \o rep /\ Repaired \in Seq(Entries)
              /\ \A r \in Range(rep) :
                    /\ open.row # None /\ ended[open.row.sess] = None
                    /\ r.kind = "focus" /\ r.sess = open.row.sess /\ r.ts = open.row.high
                    /\ r.dur = open.row.high - open.row.start /\ r.app = open.row.app /\ r.prev = open.row.app
              /\ open.row # None /\ ended[open.row.sess] = None => Range(rep) # {}
              /\ \A i, j \in DOMAIN rep : i = j
<1>1. rows \in Seq(Entries) /\ open \in Opens
  BY DEF Typed
<1>2. CASE open.row = None \/ ended[open.row.sess] # None
  <2>1. Repaired = rows
    BY <1>2 DEF Repaired
  <2> DEFINE rep == <<>>
  <2>2. rep \in Seq(Entries) /\ rows \o rep = rows /\ Range(rep) = {} /\ DOMAIN rep = {}
    BY <1>1, Nothing
  <2> HIDE DEF rep
  <2>3. QED
    BY <1>1, <1>2, <2>1, <2>2
<1>3. CASE ~(open.row = None \/ ended[open.row.sess] # None)
  <2> DEFINE r == [kind |-> "focus", sess |-> open.row.sess, ts |-> open.row.high,
                   dur |-> open.row.high - open.row.start, app |-> open.row.app, prev |-> open.row.app]
             rep == << r >>
  <2>1. Repaired = Append(rows, r)
    BY <1>3 DEF Repaired
  <2>2. /\ open.row.sess \in Nat /\ open.row.app \in App /\ open.row.start \in Nat /\ open.row.high \in Nat
        /\ open.row.start <= open.row.high /\ "focus" \in Kinds /\ open.row.app \in Windows
    BY <1>1, <1>3, OpensAre DEF Dated, Kinds, Windows
  <2>3. r \in Entries
    BY <2>2 DEF Entries
  <2>4. /\ r.kind = "focus" /\ r.sess = open.row.sess /\ r.ts = open.row.high
        /\ r.dur = open.row.high - open.row.start /\ r.app = open.row.app /\ r.prev = open.row.app
    OBVIOUS
  <2> HIDE DEF r
  <2>5. rep \in Seq(Entries) /\ Range(rep) = {r} /\ DOMAIN rep = {1}
    BY <2>3, Single
  <2>6. Repaired = rows \o rep /\ Repaired \in Seq(Entries)
    BY <1>1, <2>1, <2>3
  <2> HIDE DEF rep
  <2>7. QED
    BY <1>3, <2>4, <2>5, <2>6
<1>4. QED
  BY <1>2, <1>3

\* A session without an end gets one no earlier than its rows.
LEMMA FinalizedIs ==
    ASSUME Typed, Dated, NEW stored \in Seq(Entries), \A k \in DOMAIN stored : stored[k].ts <= now
    PROVE  /\ Finalized(stored) \in Seq(Nat \cup {None}) /\ Len(Finalized(stored)) = Len(ended)
           /\ \A s \in DOMAIN ended :
                 /\ ended[s] # None => Finalized(stored)[s] = ended[s]
                 /\ ended[s] = None =>
                       /\ Finalized(stored)[s] \in Nat /\ Finalized(stored)[s] <= now
                       /\ \A k \in DOMAIN stored : stored[k].sess = s => stored[k].ts <= Finalized(stored)[s]
<1> DEFINE f == Finalized(stored)
           T(s) == {0} \cup {stored[i].ts : i \in {j \in DOMAIN stored : stored[j].sess = s}}
<1>1. /\ Len(ended) \in Nat /\ DOMAIN ended = 1 .. Len(ended)
      /\ \A s \in DOMAIN ended : ended[s] = None \/ ended[s] \in Nat
      /\ None \notin Nat /\ now \in Nat
  BY EndedAre DEF Typed
<1>2. \A k \in DOMAIN stored : stored[k].ts \in Nat
  <2>1. \A k \in DOMAIN stored : stored[k] \in Entries
    OBVIOUS
  <2>2. QED
    BY <2>1 DEF Entries
<1>3. f = [s \in 1 .. Len(ended) |-> IF ended[s] # None THEN ended[s] ELSE Max(T(s))]
  BY <1>1 DEF Finalized
<1>4. ASSUME NEW s
      PROVE  Max(T(s)) \in Nat /\ Max(T(s)) <= now
             /\ \A k \in DOMAIN stored : stored[k].sess = s => stored[k].ts <= Max(T(s))
  <2> DEFINE S == T(s)
  <2>1. 0 \in S /\ \A k \in DOMAIN stored : stored[k].sess = s => stored[k].ts \in S
    OBVIOUS
  <2>2. \A x \in S : x \in Nat /\ x <= now
    BY <1>1, <1>2
  <2> HIDE DEF S
  <2>3. S \in SUBSET Int /\ S # {} /\ now \in Int
    BY <1>1, <2>1, <2>2
  <2>4. Max(S) \in S /\ \A y \in S : y <= Max(S)
    BY <2>2, <2>3, MaxIs
  <2>5. QED
    BY <2>1, <2>2, <2>4 DEF S
<1> HIDE DEF f, T
<1>5. \A s \in 1 .. Len(ended) : f[s] \in Nat \cup {None}
  BY <1>1, <1>3, <1>4
<1>6. f \in Seq(Nat \cup {None}) /\ Len(f) = Len(ended)
  BY <1>1, <1>3, <1>5
<1>7. ASSUME NEW s \in DOMAIN ended
      PROVE  /\ ended[s] # None => f[s] = ended[s]
             /\ ended[s] = None =>
                   /\ f[s] \in Nat /\ f[s] <= now
                   /\ \A k \in DOMAIN stored : stored[k].sess = s => stored[k].ts <= f[s]
  BY <1>1, <1>3, <1>4
<1>8. QED
  BY <1>6, <1>7 DEF f

\* The rows of a new session: the window in front, if there is one.
LEMMA FirstIs ==
    ASSUME Typed, NEW s \in Nat
    PROVE  LET p == [Fresh0 EXCEPT !.tick = now]
               o == Seed(p, front)
               first == [i \in DOMAIN o.rows |-> [o.rows[i] EXCEPT !.sess = s]]
           IN /\ o.pump \in Pumps /\ o.pump.cur = InFront
              /\ ~o.pump.idle /\ ~o.pump.suspended /\ o.pump.resumed = None /\ o.pump.tick = now
              /\ first \in Seq(Entries)
              /\ \A r \in Range(first) : /\ r.kind = "focus" /\ ~Dwelt(r) /\ r.sess = s /\ r.ts = now
                                         /\ r.dur = 0 /\ r.app = front /\ front # None
              /\ FoldLeft(Noted, Closed, first) =
                    IF front = None THEN Closed
                    ELSE [seg |-> [sess |-> s, app |-> front, start |-> now], row |-> None]
<1> DEFINE p == [Fresh0 EXCEPT !.tick = now]
           o == Seed(p, front)
           first == [i \in DOMAIN o.rows |-> [o.rows[i] EXCEPT !.sess = s]]
<1>1. now \in Nat /\ front \in Windows
  BY DEF Typed
<1>2. p \in Pumps /\ p.cur = None /\ ~p.idle /\ ~p.suspended /\ p.resumed = None /\ p.tick = now
  <2> DEFINE f == Fresh0
  <2>1. f \in Pumps /\ f.cur = None /\ ~f.idle /\ ~f.suspended /\ f.resumed = None
    BY DEF Fresh0, Pumps
  <2>2. p = [f EXCEPT !.tick = now]
    OBVIOUS
  <2> HIDE DEF f, p
  <2>3. QED
    BY <1>1, <2>1, <2>2 DEF Pumps
<1> HIDE DEF p
<1>3. o.pump \in Pumps /\ o.pump = [p EXCEPT !.cur = IF front = None THEN @ ELSE [app |-> front, at |-> now]]
  BY <1>2, SeededIs
<1>4. o.pump.cur = InFront /\ ~o.pump.idle /\ ~o.pump.suspended /\ o.pump.resumed = None /\ o.pump.tick = now
  <2> HIDE DEF o
  <2>1. QED
    BY <1>2, <1>3 DEF InFront, Pumps
<1>5. CASE front = None
  <2>1. o.rows = <<>>
    BY <1>5 DEF Seed
  <2>2. DOMAIN <<>> = {} /\ Range(<<>>) = {} /\ <<>> \in Seq(Entries)
    BY Nothing
  <2>3. first = <<>>
    BY <2>1, <2>2
  <2>4. FoldLeft(Noted, Closed, <<>>) = Closed
    BY NotedNone
  <2> HIDE DEF o, first
  <2>5. /\ first \in Seq(Entries) /\ Range(first) = {} /\ FoldLeft(Noted, Closed, first) = Closed
    BY <2>2, <2>3, <2>4
  <2>6. QED
    BY <1>3, <1>4, <1>5, <2>5 DEF first, o, p
<1>6. CASE front # None
  <2> DEFINE r0 == Row("focus", 0, front, None)
             r == [r0 EXCEPT !.sess = s]
  <2>1. o.rows = << r0 >>
    BY <1>6 DEF Seed
  <2>2. "focus" \in Kinds /\ None \in Windows
    BY DEF Kinds, Windows
  <2>3. r0 \in Entries /\ r0.kind = "focus" /\ r0.ts = now /\ r0.dur = 0 /\ r0.app = front /\ r0.prev = None
    BY <1>1, <2>2, RowIs
  <2> HIDE DEF r0
  <2>4. /\ r \in Entries /\ r.kind = "focus" /\ r.ts = now /\ r.dur = 0 /\ r.app = front /\ r.prev = None
        /\ r.sess = s
    BY <2>3 DEF Entries
  <2>5. first = << r >>
    <3>1. DOMAIN << r0 >> = {1} /\ << r0 >>[1] = r0
      BY <2>3, Single
    <3>2. first = [i \in {1} |-> r]
      BY <2>1, <3>1
    <3>3. << r >> = [i \in {1} |-> r]
      <4>1. << r >> \in Seq({r}) /\ DOMAIN << r >> = {1} /\ << r >>[1] = r
        BY Single
      <4>2. QED
        BY <4>1
    <3>4. QED
      BY <3>2, <3>3
  <2> HIDE DEF r
  <2>6. first \in Seq(Entries) /\ Range(first) = {r}
    <3>1. << r >> \in Seq(Entries) /\ Range(<< r >>) = {r}
      BY <2>4, Single
    <3>2. QED
      BY <2>5, <3>1
  <2>7. FoldLeft(Noted, Closed, << r >>) = Noted(Closed, r)
    BY NotedOne
  <2>8. Noted(Closed, r) = [seg |-> [sess |-> s, app |-> front, start |-> now], row |-> None]
    BY <1>6, <2>4 DEF Noted
  <2>9. ~Dwelt(r)
    BY <2>4 DEF Dwelt
  <2>10. FoldLeft(Noted, Closed, first) = [seg |-> [sess |-> s, app |-> front, start |-> now], row |-> None]
    BY <2>5, <2>7, <2>8
  <2> HIDE DEF o, first
  <2>11. \A x \in Range(first) : /\ x.kind = "focus" /\ ~Dwelt(x) /\ x.sess = s /\ x.ts = now
                                /\ x.dur = 0 /\ x.app = front /\ front # None
    BY <1>6, <2>4, <2>6, <2>9
  <2>12. QED
    BY <1>3, <1>4, <1>6, <2>6, <2>10, <2>11 DEF first, o, p
<1>7. QED
  BY <1>5, <1>6

\* A row of a segment whose session did not end.
Left == open.row # None /\ ended[open.row.sess] = None

\* The program starts: repair, the ends of old sessions, a new session.
LEMMA StartDoes ==
    ASSUME Typed, Dated, Start
    PROVE  /\ ~Running /\ power = "on" /\ due' = TRUE
           /\ UNCHANGED <<world, notice, gate, reseed, dirty>>
           /\ sess' = Len(ended) + 1 /\ sess' \in Nat /\ sess' \notin DOMAIN ended /\ sess' # 0
           /\ ended' \in Seq(Nat \cup {None}) /\ Len(ended') = sess' /\ ended'[sess'] = None
           /\ DOMAIN ended \subseteq DOMAIN ended' /\ sess' \in DOMAIN ended'
           /\ \A s \in DOMAIN ended' : s \in DOMAIN ended \/ s = sess'
           /\ \A s \in DOMAIN ended : ended[s] # None => ended'[s] = ended[s]
           /\ pump' \in Pumps /\ pump'.cur = InFront
           /\ ~pump'.idle /\ ~pump'.suspended /\ pump'.resumed = None /\ pump'.tick = now
           /\ open' = IF front = None THEN Closed
                      ELSE [seg |-> [sess |-> sess', app |-> front, start |-> now], row |-> None]
           /\ \E new :
                 /\ new \in Seq(Entries) /\ rows' = rows \o new
                 /\ \A r \in Range(new) :
                       /\ r.kind = "focus" /\ r.ts <= now /\ r.dur <= r.ts
                       /\ Dwelt(r) => /\ Left /\ r.sess = open.row.sess /\ r.ts = open.row.high
                                      /\ r.dur = open.row.high - open.row.start /\ r.prev = open.row.app
                       /\ ~Dwelt(r) => r.sess = sess' /\ r.ts = now /\ r.dur = 0
                 /\ \A i, j \in DOMAIN new : Dwelt(new[i]) /\ Dwelt(new[j]) => i = j
                 /\ Left => \E r \in Range(new) : Dwelt(r)
           /\ \A s \in DOMAIN ended : ended[s] = None =>
                 /\ ended'[s] \in Nat /\ ended'[s] <= now
                 /\ \A k \in DOMAIN rows' : rows'[k].sess = s => rows'[k].ts <= ended'[s]
<1> DEFINE p == [Fresh0 EXCEPT !.tick = now]
           s0 == Len(ended) + 1
           o == Seed(p, front)
           first == [i \in DOMAIN o.rows |-> [o.rows[i] EXCEPT !.sess = s0]]
           fin == Finalized(Repaired)
<1>1. /\ ~Running /\ power = "on" /\ due' = TRUE
      /\ UNCHANGED <<world, notice, gate, reseed, dirty>>
      /\ sess' = s0 /\ ended' = Append(fin, None) /\ pump' = o.pump
      /\ rows' = Repaired \o first /\ open' = FoldLeft(Noted, Closed, first)
  BY DEF Start
<1>2. /\ Len(ended) \in Nat /\ DOMAIN ended = 1 .. Len(ended) /\ None \notin Nat
      /\ now \in Nat /\ rows \in Seq(Entries) /\ open \in Opens /\ s0 \in Nat /\ s0 # 0 /\ s0 \notin 1 .. Len(ended)
  BY EndedAre DEF Typed
<1>3. /\ o.pump \in Pumps /\ o.pump.cur = InFront
      /\ ~o.pump.idle /\ ~o.pump.suspended /\ o.pump.resumed = None /\ o.pump.tick = now
      /\ first \in Seq(Entries)
      /\ \A r \in Range(first) : /\ r.kind = "focus" /\ ~Dwelt(r) /\ r.sess = s0 /\ r.ts = now
                                 /\ r.dur = 0 /\ r.app = front /\ front # None
      /\ FoldLeft(Noted, Closed, first) =
            IF front = None THEN Closed
            ELSE [seg |-> [sess |-> s0, app |-> front, start |-> now], row |-> None]
  <2> HIDE DEF s0
  <2>1. QED
    BY <1>2, FirstIs
<1> HIDE DEF o, first, p, fin
<1>4. PICK rep :
         /\ rep \in Seq(Entries) /\ Repaired = rows \o rep /\ Repaired \in Seq(Entries)
         /\ \A r \in Range(rep) :
               /\ open.row # None /\ ended[open.row.sess] = None
               /\ r.kind = "focus" /\ r.sess = open.row.sess /\ r.ts = open.row.high
               /\ r.dur = open.row.high - open.row.start /\ r.app = open.row.app /\ r.prev = open.row.app
         /\ open.row # None /\ ended[open.row.sess] = None => Range(rep) # {}
         /\ \A i, j \in DOMAIN rep : i = j
  BY RepairedIs
<1> DEFINE new == rep \o first
<1>5. /\ new \in Seq(Entries) /\ Range(new) = Range(rep) \cup Range(first)
      /\ Len(rep) \in Nat /\ DOMAIN rep = 1 .. Len(rep)
      /\ \A k \in DOMAIN rep : new[k] = rep[k]
      /\ \A k \in DOMAIN new : k \in DOMAIN rep \/ \E i \in DOMAIN first : new[k] = first[i]
  BY <1>3, <1>4, Joined
<1>6. rows' = rows \o new
  <2>1. \A a, b, c \in Seq(Entries) : (a \o b) \o c = a \o (b \o c)
    BY ConcatAssociative
  <2>2. QED
    BY <1>1, <1>2, <1>3, <1>4, <2>1
<1> HIDE DEF new
<1>7. \A r \in Range(rep) : open.row.app # None /\ Dwelt(r) /\ open.row.high <= now
                            /\ open.row.high - open.row.start <= open.row.high
  <2>1. open.row # None => open.row.app \in App /\ open.row.start \in Nat /\ open.row.high \in Nat
                           /\ open.row.high <= now
    BY <1>2, OpensAre DEF Dated
  <2>2. QED
    BY <2>1, <1>4, Absent DEF Dwelt
<1>8. ASSUME NEW r \in Range(new)
      PROVE  /\ r.kind = "focus" /\ r.ts <= now /\ r.dur <= r.ts
             /\ Dwelt(r) => /\ Left /\ r.sess = open.row.sess /\ r.ts = open.row.high
                            /\ r.dur = open.row.high - open.row.start /\ r.prev = open.row.app
             /\ ~Dwelt(r) => r.sess = sess' /\ r.ts = now /\ r.dur = 0
  <2>1. CASE r \in Range(rep)
    BY <2>1, <1>4, <1>7 DEF Left
  <2>2. CASE r \in Range(first)
    BY <2>2, <1>1, <1>2, <1>3
  <2>3. QED
    BY <2>1, <2>2, <1>5
<1>9. \A i, j \in DOMAIN new : Dwelt(new[i]) /\ Dwelt(new[j]) => i = j
  <2>1. \A i \in DOMAIN first : ~Dwelt(first[i])
    BY <1>3, RangeIn
  <2>2. \A k \in DOMAIN new : Dwelt(new[k]) => k \in DOMAIN rep
    BY <1>5, <2>1
  <2>3. QED
    BY <1>4, <2>2
<1>10. Left => \E r \in Range(new) : Dwelt(r)
  BY <1>4, <1>5, <1>7 DEF Left
<1>11. \A k \in DOMAIN Repaired : Repaired[k].ts <= now
  <2>1. /\ \A k \in DOMAIN Repaired :
             k \in DOMAIN rows \/ (\E i \in DOMAIN rep : k = Len(rows) + i /\ Repaired[k] = rep[i])
        /\ \A k \in DOMAIN rows : Repaired[k] = rows[k]
    <3> DEFINE w == Repaired
    <3>1. w = rows \o rep
      BY <1>4
    <3> HIDE DEF w
    <3>2. /\ \A k \in DOMAIN w : k \in DOMAIN rows \/ (\E i \in DOMAIN rep : k = Len(rows) + i /\ w[k] = rep[i])
          /\ \A k \in DOMAIN rows : w[k] = rows[k]
      BY <1>2, <1>4, <3>1, Joined
    <3>3. QED
      BY <3>2 DEF w
  <2>2. \A i \in DOMAIN rep : rep[i].ts <= now
    BY <1>4, <1>7, RangeIn
  <2>3. \A k \in DOMAIN rows : rows[k].ts <= now
    BY DEF Dated
  <2>4. QED
    BY <2>1, <2>2, <2>3
<1>12. /\ fin \in Seq(Nat \cup {None}) /\ Len(fin) = Len(ended)
       /\ \A s \in DOMAIN ended :
             /\ ended[s] # None => fin[s] = ended[s]
             /\ ended[s] = None =>
                   /\ fin[s] \in Nat /\ fin[s] <= now
                   /\ \A k \in DOMAIN Repaired : Repaired[k].sess = s => Repaired[k].ts <= fin[s]
  BY <1>4, <1>11, FinalizedIs DEF fin
<1>13. /\ ended' \in Seq(Nat \cup {None}) /\ Len(ended') = s0 /\ DOMAIN ended' = 1 .. s0
       /\ ended'[s0] = None /\ \A s \in 1 .. Len(ended) : ended'[s] = fin[s]
  BY <1>1, <1>2, <1>12
<1>14. ASSUME NEW s \in DOMAIN ended, ended[s] = None, NEW k \in DOMAIN rows', rows'[k].sess = s
       PROVE  rows'[k].ts <= ended'[s]
  <2>1. (k \in DOMAIN Repaired /\ rows'[k] = Repaired[k]) \/ rows'[k] \in Range(first)
    <3> DEFINE w == rows'
               a == Repaired
    <3>1. w = a \o first /\ a \in Seq(Entries) /\ k \in DOMAIN w
      BY <1>1, <1>4
    <3> HIDE DEF w, a
    <3>2. (k \in DOMAIN a /\ w[k] = a[k]) \/ \E i \in DOMAIN first : w[k] = first[i]
      BY <1>3, <3>1, Joined
    <3>3. (k \in DOMAIN a /\ w[k] = a[k]) \/ w[k] \in Range(first)
      BY <1>3, <3>2, RangeIn
    <3>4. QED
      BY <3>3 DEF w, a
  <2>2. CASE k \in DOMAIN Repaired /\ rows'[k] = Repaired[k]
    BY <2>2, <1>2, <1>12, <1>13, <1>14
  <2>3. CASE rows'[k] \in Range(first)
    BY <2>3, <1>2, <1>3, <1>14
  <2>4. QED
    BY <2>1, <2>2, <2>3
<1>15. \A s \in DOMAIN ended : ended[s] # None => ended'[s] = ended[s]
  BY <1>2, <1>12, <1>13
<1>16. \A s \in DOMAIN ended : ended[s] = None => ended'[s] \in Nat /\ ended'[s] <= now
  BY <1>2, <1>12, <1>13
<1>17. /\ sess' = Len(ended) + 1 /\ sess' \in Nat /\ sess' \notin DOMAIN ended /\ sess' # 0
       /\ DOMAIN ended \subseteq DOMAIN ended' /\ sess' \in DOMAIN ended'
       /\ \A s \in DOMAIN ended' : s \in DOMAIN ended \/ s = sess'
       /\ Len(ended') = sess' /\ ended'[sess'] = None
  BY <1>1, <1>2, <1>13
<1>18. \E x : /\ x \in Seq(Entries) /\ rows' = rows \o x
              /\ \A r \in Range(x) :
                       /\ r.kind = "focus" /\ r.ts <= now /\ r.dur <= r.ts
                       /\ Dwelt(r) => /\ Left /\ r.sess = open.row.sess /\ r.ts = open.row.high
                                      /\ r.dur = open.row.high - open.row.start /\ r.prev = open.row.app
                       /\ ~Dwelt(r) => r.sess = sess' /\ r.ts = now /\ r.dur = 0
              /\ \A i, j \in DOMAIN x : Dwelt(x[i]) /\ Dwelt(x[j]) => i = j
              /\ Left => \E r \in Range(x) : Dwelt(r)
  BY <1>5, <1>6, <1>8, <1>9, <1>10
<1>19. open' = IF front = None THEN Closed
               ELSE [seg |-> [sess |-> sess', app |-> front, start |-> now], row |-> None]
  BY <1>1, <1>3
<1>20. pump' \in Pumps /\ pump'.cur = InFront
       /\ ~pump'.idle /\ ~pump'.suspended /\ pump'.resumed = None /\ pump'.tick = now
  BY <1>1, <1>3
<1>21. QED
  BY <1>1, <1>13, <1>14, <1>15, <1>16, <1>17, <1>18, <1>19, <1>20

-----------------------------------------------------------------------------
(* The base: types, times and the life of a session.                        *)

Base == Typed /\ Dated /\ Alive /\ Reseeding

\* What an action says of the machine, the user and the program.
Outer ==
    /\ slept \in Nat /\ slept <= now /\ power \in {"on", "suspending", "asleep"}
    /\ front \in Windows /\ inputs \in SUBSET Nat /\ inputs \subseteq 0 .. now /\ 0 \in inputs
    /\ due \in BOOLEAN /\ notice \in BOOLEAN /\ reseed \in BOOLEAN
    /\ gate \in {"open", "paused", "recording"} /\ dirty \in SUBSET (Nat \X Ops)
    /\ pump.tick # None => pump.tick <= now

\* And what it does to what is stored.
Inner ==
    /\ now \in Nat /\ sess \in Nat /\ pump \in Pumps /\ open \in Opens /\ rows \in Seq(Entries)
    /\ ended \in Seq(Nat \cup {None}) /\ past \in Seq(Units) /\ Len(past) = now
    /\ pump.cur # None => pump.cur.at <= now
    /\ \A k \in DOMAIN rows : rows[k].ts <= now /\ rows[k].dur <= rows[k].ts
    /\ \A s \in DOMAIN ended : ended[s] # None => ended[s] <= now
    /\ open.seg # None => open.seg.start <= now
    /\ open.row # None => open.row.start <= open.row.high /\ open.row.high <= now

LEMMA BaseParts == Base <=> Outer /\ Inner /\ Alive /\ Reseeding
BY DEF Base, Typed, Dated, Outer, Inner

LEMMA FreshIs ==
    /\ Fresh0 \in Pumps /\ Fresh0.cur = None /\ ~Fresh0.idle /\ ~Fresh0.suspended
    /\ Fresh0.resumed = None /\ Fresh0.tick = None
BY DEF Fresh0, Pumps

\* Every step adds rows of now to the session that runs, or is one of five.
LEMMA PumpedSteps ==
    ASSUME Base, [Next]_vars
    PROVE  (\E new : Pumped(new)) \/ Beat \/ Stop \/ Crash \/ Start \/ Tick
<1>0. Typed /\ Dated /\ Alive /\ Reseeding
  BY DEF Base
<1>1. CASE Focus
  BY <1>0, <1>1, FocusDoes
<1>2. CASE Input
  BY <1>0, <1>2, InputDoes
<1>3. CASE Timer
  BY <1>0, <1>3, TimerDoes
<1>4. CASE Suspend
  BY <1>0, <1>4, SuspendDoes
<1>5. CASE Sleep
  BY <1>0, <1>5, SleepDoes
<1>6. CASE Wake
  BY <1>0, <1>6, WakeDoes
<1>7. CASE ResumeNotice
  BY <1>0, <1>7, ResumeNoticeDoes
<1>8. CASE Lock
  BY <1>0, <1>8, LockDoes
<1>9. CASE Unlock
  BY <1>0, <1>9, UnlockDoes
<1>10. CASE Pause
  BY <1>0, <1>10, PauseDoes
<1>11. CASE Unpause
  BY <1>0, <1>11, UnpauseDoes
<1>12. CASE StartRecording
  BY <1>0, <1>12, StartRecordingDoes
<1>13. CASE EndRecording
  BY <1>0, <1>13, EndRecordingDoes
<1>14. CASE Reseed
  BY <1>0, <1>14, ReseedDoes
<1>15. CASE UNCHANGED vars
  BY <1>0, <1>15, StillPumped DEF vars, world
<1>16. QED
  BY <1>1, <1>2, <1>3, <1>4, <1>5, <1>6, <1>7, <1>8, <1>9, <1>10, <1>11, <1>12, <1>13, <1>14, <1>15
     DEF Next

\* Rows that are added have a place after those that were there.
LEMMA Added ==
    ASSUME Typed, NEW new \in Seq(Entries), rows' = rows \o new
    PROVE  /\ rows' \in Seq(Entries) /\ Len(rows) \in Nat /\ DOMAIN rows = 1 .. Len(rows)
           /\ \A k \in DOMAIN rows : k \in DOMAIN rows' /\ rows'[k] = rows[k] /\ k <= Len(rows) /\ k \in Nat
           /\ \A k \in DOMAIN new : k \in Nat /\ k >= 1 /\ new[k] \in Range(new)
                                    /\ Len(rows) + k \in DOMAIN rows' /\ rows'[Len(rows) + k] = new[k]
           /\ \A k \in DOMAIN rows' :
                 \/ k \in DOMAIN rows /\ rows'[k] = rows[k]
                 \/ \E i \in DOMAIN new : k = Len(rows) + i /\ rows'[k] = new[i] /\ new[i] \in Range(new)
           /\ \A r \in Range(new) : \E k \in DOMAIN rows' : rows'[k] = r /\ k \notin DOMAIN rows
<1>1. rows \in Seq(Entries)
  BY DEF Typed
<1> DEFINE w == rows'
<1>2. w = rows \o new
  OBVIOUS
<1> HIDE DEF w
<1>3. /\ w \in Seq(Entries) /\ Len(rows) \in Nat /\ DOMAIN rows = 1 .. Len(rows)
      /\ \A k \in DOMAIN rows : k \in DOMAIN w /\ w[k] = rows[k]
      /\ \A k \in DOMAIN new : Len(rows) + k \in DOMAIN w /\ w[Len(rows) + k] = new[k]
      /\ \A k \in DOMAIN w : k \in DOMAIN rows \/ (\E i \in DOMAIN new : k = Len(rows) + i /\ w[k] = new[i])
  BY <1>1, <1>2, Joined
<1>4. \A k \in DOMAIN new : new[k] \in Range(new) /\ k \in Nat /\ k >= 1
  BY RangeIn
<1>5. \A k \in DOMAIN rows : k \in Nat /\ k <= Len(rows)
  BY <1>3
<1>6. ASSUME NEW r \in Range(new) PROVE \E k \in DOMAIN w : w[k] = r /\ k \notin DOMAIN rows
  <2>1. PICK i \in DOMAIN new : r = new[i]
    BY RangeIn
  <2>2. Len(rows) + i \in DOMAIN w /\ w[Len(rows) + i] = r /\ ~(Len(rows) + i <= Len(rows))
    BY <2>1, <1>3, <1>4
  <2>3. Len(rows) + i \notin DOMAIN rows
    BY <2>2, <1>5
  <2>4. QED
    BY <2>2, <2>3
<1>7. QED
  BY <1>3, <1>4, <1>5, <1>6 DEF w

LEMMA InnerPumped ==
    ASSUME Base, NEW new, Pumped(new)
    PROVE  Inner'
<1>1. Typed /\ Dated /\ Inner
  BY BaseParts DEF Base
<1>2. /\ new \in Seq(Entries) /\ rows' = rows \o new /\ UNCHANGED <<now, past, sess, ended>>
      /\ pump' \in Pumps /\ Opened(open, open')
      /\ pump'.cur = pump.cur \/ pump'.cur = None \/ pump'.cur = [app |-> front', at |-> now]
      /\ \A r \in Range(new) : r.ts = now /\ r.dur <= now
  BY DEF Pumped
<1>3. /\ rows' \in Seq(Entries)
      /\ \A k \in DOMAIN rows' : (k \in DOMAIN rows /\ rows'[k] = rows[k]) \/ rows'[k] \in Range(new)
  BY <1>1, <1>2, Added
<1>4. open' \in Opens
  BY <1>1, <1>2 DEF Inner, Opened
<1>5. now \in Nat
  BY <1>1 DEF Inner
<1>6. pump'.cur # None => pump'.cur.at <= now
  BY <1>1, <1>2, <1>5 DEF Inner
<1>7. \A k \in DOMAIN rows' : rows'[k].ts <= now /\ rows'[k].dur <= rows'[k].ts
  <2>1. \A k \in DOMAIN rows : rows[k].ts <= now /\ rows[k].dur <= rows[k].ts
    BY <1>1 DEF Inner
  <2>2. \A r \in Range(new) : r.ts <= now /\ r.dur <= r.ts
    BY <1>2, <1>5
  <2>3. QED
    BY <2>1, <2>2, <1>3
<1>8. /\ open'.seg # None => open'.seg.start <= now
      /\ open'.row # None => open'.row.start <= open'.row.high /\ open'.row.high <= now
  <2>1. /\ open.seg # None => open.seg.start <= now
        /\ open.row # None => open.row.start <= open.row.high /\ open.row.high <= now
    BY <1>1 DEF Inner
  <2>2. CASE open' = open
    BY <2>1, <2>2
  <2>3. CASE open'.row = None /\ (open'.seg = None \/ open'.seg.start = now)
    BY <2>3, <1>5
  <2>4. QED
    BY <1>2, <2>2, <2>3 DEF Opened
<1>9. QED
  BY <1>1, <1>2, <1>3, <1>4, <1>5, <1>6, <1>7, <1>8 DEF Inner

LEMMA InnerBeat ==
    ASSUME Base, Beat
    PROVE  Inner'
<1>1. Typed /\ Dated /\ Alive /\ Inner
  BY BaseParts DEF Base
<1>2. /\ UNCHANGED <<world, pump, rows, sess, ended>> /\ open' \in Opens /\ open'.seg = open.seg
      /\ open.seg # None /\ open'.row.start = open.seg.start /\ open'.row.high = now
  BY <1>1, BeatDoes
<1>3. UNCHANGED <<now, past>>
  BY <1>2 DEF world
<1>4. now \in Nat /\ open.seg.start <= now
  BY <1>1, <1>2 DEF Inner
<1>5. now <= now
  BY <1>4
<1>6. QED
  BY <1>1, <1>2, <1>3, <1>4, <1>5 DEF Inner

LEMMA InnerStop ==
    ASSUME Base, Stop
    PROVE  Inner'
<1>1. Typed /\ Dated /\ Alive /\ Inner
  BY BaseParts DEF Base
<1>2. /\ UNCHANGED world /\ open' = Closed /\ sess' = 0 /\ pump' = Fresh0
      /\ ended' \in Seq(Nat \cup {None}) /\ DOMAIN ended' = DOMAIN ended /\ ended'[sess] = now
      /\ \A s \in DOMAIN ended : s # sess => ended'[s] = ended[s]
  BY <1>1, StopDoes
<1>3. PICK new : /\ new \in Seq(Entries) /\ rows' = rows \o new
                 /\ \A r \in Range(new) : r.ts = now /\ r.dur <= now
  BY <1>1, StopDoes
<1>4. UNCHANGED <<now, past>> /\ now \in Nat /\ past \in Seq(Units) /\ Len(past) = now
  BY <1>1, <1>2 DEF world, Inner
<1>5. /\ rows' \in Seq(Entries)
      /\ \A k \in DOMAIN rows' : (k \in DOMAIN rows /\ rows'[k] = rows[k]) \/ rows'[k] \in Range(new)
  BY <1>1, <1>3, Added
<1>6. \A k \in DOMAIN rows' : rows'[k].ts <= now /\ rows'[k].dur <= rows'[k].ts
  <2>1. \A k \in DOMAIN rows : rows[k].ts <= now /\ rows[k].dur <= rows[k].ts
    BY <1>1 DEF Inner
  <2>2. \A r \in Range(new) : r.ts <= now /\ r.dur <= r.ts
    BY <1>3, <1>4
  <2>3. QED
    BY <2>1, <2>2, <1>5
<1>7. \A s \in DOMAIN ended : ended[s] # None => ended[s] <= now
  BY <1>1 DEF Inner
<1>8. \A s \in DOMAIN ended' : ended'[s] # None => ended'[s] <= now
  BY <1>2, <1>4, <1>7
<1>9. QED
  BY <1>2, <1>4, <1>5, <1>6, <1>8, ClosedIs, FreshIs DEF Inner

LEMMA InnerCrash ==
    ASSUME Base, Crash
    PROVE  Inner'
<1>1. Typed /\ Dated /\ Alive /\ Inner
  BY BaseParts DEF Base
<1>2. /\ UNCHANGED <<now, past, rows, ended>> /\ sess' = 0 /\ pump' = Fresh0
      /\ open' \in Opens /\ open'.seg = None /\ open'.row = open.row
  BY <1>1, CrashDoes DEF world
<1>3. QED
  BY <1>1, <1>2, FreshIs DEF Inner

LEMMA InnerStart ==
    ASSUME Base, Start
    PROVE  Inner'
<1>1. Typed /\ Dated /\ Alive /\ Inner
  BY BaseParts DEF Base
<1>2. /\ UNCHANGED <<now, past>> /\ sess' \in Nat /\ pump' \in Pumps /\ pump'.cur = InFront
      /\ ended' \in Seq(Nat \cup {None})
      /\ \A s \in DOMAIN ended' : s \in DOMAIN ended \/ s = sess'
      /\ ended'[sess'] = None
      /\ \A s \in DOMAIN ended : ended[s] # None => ended'[s] = ended[s]
      /\ \A s \in DOMAIN ended : ended[s] = None => ended'[s] \in Nat /\ ended'[s] <= now
      /\ open' = IF front = None THEN Closed
                 ELSE [seg |-> [sess |-> sess', app |-> front, start |-> now], row |-> None]
  BY <1>1, StartDoes DEF world
<1>3. PICK new : /\ new \in Seq(Entries) /\ rows' = rows \o new
                 /\ \A r \in Range(new) : r.ts <= now /\ r.dur <= r.ts
  BY <1>1, StartDoes
<1>4. now \in Nat /\ past \in Seq(Units) /\ Len(past) = now /\ front \in Windows
  BY <1>1 DEF Inner, Typed
<1>5. /\ rows' \in Seq(Entries)
      /\ \A k \in DOMAIN rows' : (k \in DOMAIN rows /\ rows'[k] = rows[k]) \/ rows'[k] \in Range(new)
  BY <1>1, <1>3, Added
<1>6. \A k \in DOMAIN rows' : rows'[k].ts <= now /\ rows'[k].dur <= rows'[k].ts
  <2>1. \A k \in DOMAIN rows : rows[k].ts <= now /\ rows[k].dur <= rows[k].ts
    BY <1>1 DEF Inner
  <2>2. QED
    BY <2>1, <1>3, <1>5
<1>7. \A s \in DOMAIN ended : ended[s] # None => ended[s] <= now
  BY <1>1 DEF Inner
<1>8. \A s \in DOMAIN ended' : ended'[s] # None => ended'[s] <= now
  BY <1>2, <1>4, <1>7
<1>9. /\ open' \in Opens /\ open'.row = None /\ (open'.seg # None => open'.seg.start <= now)
  <2>1. CASE front = None
    BY <2>1, <1>2, ClosedIs
  <2>2. CASE front # None
    <3>1. [sess |-> sess', app |-> front, start |-> now] \in OpenSegs
      BY <2>2, <1>2, <1>4 DEF OpenSegs, Windows
    <3>2. open' = [seg |-> [sess |-> sess', app |-> front, start |-> now], row |-> None]
      BY <2>2, <1>2
    <3>3. now <= now
      BY <1>4
    <3>4. QED
      BY <3>1, <3>2, <3>3 DEF Opens
  <2>3. QED
    BY <2>1, <2>2
<1>10. pump'.cur # None => pump'.cur.at <= now
  BY <1>2, <1>4 DEF InFront
<1>11. QED
  BY <1>2, <1>4, <1>5, <1>6, <1>8, <1>9, <1>10 DEF Inner

LEMMA InnerTick ==
    ASSUME Base, Tick
    PROVE  Inner'
<1>1. Typed /\ Dated /\ Alive /\ Inner
  BY BaseParts DEF Base
<1>2. /\ now' = now + 1 /\ UNCHANGED <<pump, open, rows, sess, ended>>
      /\ past' \in Seq(Units) /\ Len(past') = now + 1 /\ now' \in Nat /\ now \in Nat
  BY <1>1, TickDoes
<1>3. \A x \in Nat : x <= now => x <= now'
  BY <1>2
<1>4. /\ \A k \in DOMAIN rows : rows[k].ts \in Nat
      /\ \A s \in DOMAIN ended : ended[s] = None \/ ended[s] \in Nat
      /\ pump.cur # None => pump.cur.at \in Nat
      /\ open.seg # None => open.seg.start \in Nat
      /\ open.row # None => open.row.high \in Nat
  BY <1>1, RowsAre, PumpsAre, OpensAre DEF Inner
<1>5. QED
  BY <1>1, <1>2, <1>3, <1>4 DEF Inner

\* Types and times of what the pump and the writer keep.
LEMMA InnerNext ==
    ASSUME Base, [Next]_vars
    PROVE  Inner'
BY PumpedSteps, InnerPumped, InnerBeat, InnerStop, InnerCrash, InnerStart, InnerTick

LEMMA AlivePumped ==
    ASSUME Base, NEW new, Pumped(new),
           ~Running => pump' = pump /\ gate' = gate /\ reseed' = reseed /\ due' = due,
           gate' = "recording" => gate = "recording" \/ <<sess, "recording">> \in dirty',
           dirty \subseteq dirty'
    PROVE  Alive'
<1>1. Alive /\ UNCHANGED <<sess, ended>> /\ (~Running => open' = open)
  BY DEF Base, Pumped
<1>2. QED
  BY <1>1 DEF Alive, Running, Recorded

LEMMA OuterPumped ==
    ASSUME Base,
           \/ Focus \/ Input \/ Timer \/ Suspend \/ Sleep \/ Wake \/ ResumeNotice \/ Lock \/ Unlock
           \/ Pause \/ Unpause \/ StartRecording \/ EndRecording \/ Reseed
    PROVE  Outer' /\ Alive' /\ Reseeding'
<1>0. /\ Typed /\ Dated /\ Alive /\ Reseeding /\ Outer
      /\ now \in Nat /\ pump \in Pumps /\ now <= now /\ IdleAfter \in Nat /\ IdleAfter # 0
      /\ pump.idle \in BOOLEAN
  BY BaseParts, PumpsAre, PresenceConstants DEF Base, Typed
<1>01. now \in 0 .. now
  BY <1>0
<1>02. sess \in Nat
  BY <1>0 DEF Typed
<1>03. ~Running => pump = Fresh0 /\ gate = "open" /\ ~reseed /\ ~due
  BY <1>0 DEF Alive
<1>1. CASE Focus
  <2>1. /\ Running /\ front' \in App
        /\ UNCHANGED <<now, power, slept, inputs, due, notice, gate, reseed, sess, dirty>>
        /\ pump' = [pump EXCEPT !.cur = pump'.cur]
        /\ \E new : Pumped(new)
    BY <1>0, <1>1, FocusDoes
  <2>2. pump'.tick = pump.tick /\ pump'.idle = pump.idle
    BY <1>0, <2>1 DEF Pumps
  <2>3. Outer'
    BY <1>0, <2>1, <2>2 DEF Outer, Windows
  <2>4. Alive'
    BY <2>1, AlivePumped
  <2>5. Reseeding'
    BY <1>0, <2>1, <2>2, Absent DEF Reseeding, Recorded
  <2>6. QED
    BY <2>3, <2>4, <2>5
<1>2. CASE Input
  <2>1. /\ inputs' = inputs \cup {now}
        /\ UNCHANGED <<now, power, slept, front, due, notice, gate, reseed, sess, dirty>>
        /\ pump' = [pump EXCEPT !.idle = pump.idle /\ ~(Running /\ front # None)]
        /\ \E new : Pumped(new)
    BY <1>0, <1>2, InputDoes
  <2>2. pump'.tick = pump.tick /\ (pump'.idle => pump.idle)
    BY <1>0, <2>1 DEF Pumps
  <2>3. Outer'
    BY <1>0, <1>01, <2>1, <2>2 DEF Outer
  <2>4. ~Running => UNCHANGED pump
    BY <1>2 DEF Input
  <2>5. Alive'
    BY <2>1, <2>4, AlivePumped
  <2>6. Reseeding'
    BY <1>0, <2>1, <2>2 DEF Reseeding, Recorded
  <2>7. QED
    BY <2>3, <2>5, <2>6
<1>3. CASE Timer
  <2>1. /\ Running /\ due' = FALSE
        /\ UNCHANGED <<now, power, slept, front, inputs, notice, gate, reseed, sess, dirty>>
        /\ pump' = Timed(pump)
        /\ \E new : Pumped(new)
    BY <1>0, <1>3, TimerDoes DEF world
  <2>2. pump'.tick = now /\ pump'.idle = Long
    BY <1>0, <2>1 DEF Timed, Pumps
  <2>3. Outer'
    BY <1>0, <2>1, <2>2 DEF Outer
  <2>4. Alive'
    BY <2>1, AlivePumped
  <2>5. now \in inputs => ~Long
    <3>1. LastInput \in Nat /\ LastInput <= now /\ (now \in inputs => now <= LastInput)
      BY <1>0, LastInputIs
    <3>2. now \in inputs => now - LastInput = 0
      BY <1>0, <3>1
    <3>3. QED
      BY <1>0, <3>2 DEF Long
  <2>6. Reseeding'
    BY <1>0, <2>1, <2>2, <2>5 DEF Reseeding, Recorded
  <2>7. QED
    BY <2>3, <2>4, <2>6
<1>4. CASE Suspend
  <2>1. /\ Free /\ power' = "suspending"
        /\ UNCHANGED <<now, slept, front, inputs, due, notice, gate, reseed, sess, dirty>>
        /\ pump' = [pump EXCEPT !.cur = None, !.suspended = TRUE, !.resumed = None, !.tick = now]
        /\ \E new : Pumped(new)
    BY <1>0, <1>4, SuspendDoes
  <2>2. pump'.tick = now /\ Running /\ ~reseed
    BY <1>0, <2>1 DEF Free, Unaware, Pumps
  <2>3. Outer'
    BY <1>0, <2>1, <2>2 DEF Outer
  <2>4. Alive'
    BY <2>1, <2>2, AlivePumped
  <2>5. Reseeding'
    BY <2>1, <2>2 DEF Reseeding
  <2>6. QED
    BY <2>3, <2>4, <2>5
<1>5. CASE Sleep
  <2>1. /\ \/ power = "suspending" /\ UNCHANGED dirty
           \/ power = "on" /\ Free /\ dirty' = dirty \cup {<<sess, "missed">>} /\ "missed" \in Ops
        /\ power' = "asleep" /\ slept' = now /\ due' = FALSE
        /\ UNCHANGED <<now, front, inputs, notice, pump, gate, reseed, sess>>
        /\ Pumped(<<>>)
    BY <1>0, <1>5, SleepDoes
  <2>2. dirty \subseteq dirty' /\ dirty' \in SUBSET (Nat \X Ops)
    BY <1>0, <1>02, <2>1 DEF Outer
  <2>3. Outer'
    BY <1>0, <2>1, <2>2 DEF Outer
  <2>4. due' = FALSE /\ (~Running => due = FALSE)
    BY <1>0, <1>03, <2>1 DEF Outer
  <2>5. Alive'
    BY <2>1, <2>2, <2>4, AlivePumped
  <2>6. Reseeding'
    <3>1. CASE power = "suspending"
      BY <1>0, <2>1, <2>2, <3>1 DEF Reseeding, Recorded
    <3>2. CASE Free
      BY <2>1, <3>2 DEF Reseeding, Free, Unaware
    <3>3. QED
      BY <2>1, <3>1, <3>2
  <2>7. QED
    BY <2>3, <2>5, <2>6
<1>6. CASE Wake
  <2>1. /\ power = "asleep" /\ power' = "on" /\ slept' = 0 /\ notice' \in BOOLEAN /\ due' = Running
        /\ UNCHANGED <<now, front, inputs, pump, gate, reseed, sess, dirty>>
        /\ Pumped(<<>>)
    BY <1>0, <1>6, WakeDoes
  <2>2. due' \in BOOLEAN /\ 0 \in Nat /\ 0 <= now
    BY <1>0, <2>1 DEF Running
  <2>3. Outer'
    BY <1>0, <2>1, <2>2 DEF Outer
  <2>4. ~Running => due' = due
    BY <1>0, <1>03, <2>1 DEF Outer, Running
  <2>5. Alive'
    BY <2>1, <2>4, AlivePumped
  <2>6. Reseeding'
    BY <1>0, <2>1 DEF Reseeding, Recorded
  <2>7. QED
    BY <2>3, <2>5, <2>6
<1>7. CASE ResumeNotice
  <2>1. /\ notice' = FALSE
        /\ UNCHANGED <<now, power, slept, front, inputs, due, gate, reseed, sess, dirty>>
        /\ pump' = IF ~Running THEN pump
                   ELSE IF Anew(pump) THEN Woken(pump) ELSE [pump EXCEPT !.tick = now]
        /\ \E new : Pumped(new)
    BY <1>0, <1>7, ResumeNoticeDoes DEF world
  <2>2. (pump'.tick = now \/ pump' = pump) /\ pump'.idle = pump.idle
    BY <1>0, <2>1 DEF Woken, Pumps
  <2>3. Outer'
    BY <1>0, <2>1, <2>2 DEF Outer
  <2>4. Alive'
    BY <2>1, AlivePumped
  <2>5. Reseeding'
    BY <1>0, <2>1, <2>2 DEF Reseeding, Recorded
  <2>6. QED
    BY <2>3, <2>4, <2>5
<1>8. CASE Lock
  <2>1. /\ Free /\ front' = None
        /\ UNCHANGED <<now, power, slept, inputs, due, notice, gate, reseed, sess, dirty>>
        /\ pump' = [pump EXCEPT !.cur = None]
        /\ \E new : Pumped(new)
    BY <1>0, <1>8, LockDoes
  <2>2. pump'.tick = pump.tick /\ Running /\ ~reseed
    BY <1>0, <2>1 DEF Free, Unaware, Pumps
  <2>3. Outer'
    BY <1>0, <2>1, <2>2 DEF Outer, Windows
  <2>4. Alive'
    BY <2>1, <2>2, AlivePumped
  <2>5. Reseeding'
    BY <2>1, <2>2 DEF Reseeding
  <2>6. QED
    BY <2>3, <2>4, <2>5
<1>9. CASE Unlock
  <2>1. /\ front' \in App
        /\ UNCHANGED <<now, power, slept, inputs, due, notice, gate, reseed, sess, dirty>>
        /\ pump' = IF ~Running THEN pump ELSE [pump EXCEPT !.cur = [app |-> front', at |-> now]]
        /\ \E new : Pumped(new)
    BY <1>0, <1>9, UnlockDoes
  <2>2. pump'.tick = pump.tick /\ pump'.idle = pump.idle
    BY <1>0, <2>1 DEF Pumps
  <2>3. Outer'
    BY <1>0, <2>1, <2>2 DEF Outer, Windows
  <2>4. Alive'
    BY <2>1, AlivePumped
  <2>5. Reseeding'
    BY <1>0, <2>1, <2>2, Absent DEF Reseeding, Recorded
  <2>6. QED
    BY <2>3, <2>4, <2>5
<1>10. CASE Pause
  <2>1. /\ Free /\ gate' = "paused" /\ "pause" \in Ops
        /\ UNCHANGED <<now, power, slept, front, inputs, due, notice, pump, reseed, sess>>
        /\ dirty' = dirty \cup {<<sess, "pause">>}
        /\ \E new : Pumped(new)
    BY <1>0, <1>10, PauseDoes DEF world
  <2>2. dirty \subseteq dirty' /\ dirty' \in SUBSET (Nat \X Ops) /\ Running /\ ~reseed
    BY <1>0, <1>02, <2>1 DEF Outer, Free, Unaware
  <2>3. Outer'
    BY <1>0, <2>1, <2>2 DEF Outer
  <2>4. Alive'
    BY <2>1, <2>2, AlivePumped
  <2>5. Reseeding'
    BY <2>1, <2>2 DEF Reseeding
  <2>6. QED
    BY <2>3, <2>4, <2>5
<1>11. CASE Unpause
  <2>1. /\ gate = "paused" /\ Pressed /\ gate' = "open" /\ reseed' = TRUE
        /\ UNCHANGED <<now, power, slept, front, inputs, due, notice, pump, sess, dirty>>
        /\ \E new : Pumped(new)
    BY <1>0, <1>11, UnpauseDoes DEF world
  <2>2. Outer'
    BY <1>0, <2>1 DEF Outer
  <2>3. Alive'
    BY <1>03, <2>1, AlivePumped
  <2>4. Reseeding'
    BY <2>1 DEF Reseeding, Pressed
  <2>5. QED
    BY <2>2, <2>3, <2>4
<1>12. CASE StartRecording
  <2>1. /\ Free /\ gate' = "recording" /\ "recording" \in Ops
        /\ UNCHANGED <<now, power, slept, front, inputs, due, notice, pump, reseed, sess>>
        /\ dirty' = dirty \cup {<<sess, "recording">>}
        /\ Pumped(<<>>)
    BY <1>0, <1>12, StartRecordingDoes DEF world
  <2>2. dirty \subseteq dirty' /\ dirty' \in SUBSET (Nat \X Ops) /\ Running /\ ~reseed
        /\ <<sess, "recording">> \in dirty'
    BY <1>0, <1>02, <2>1 DEF Outer, Free, Unaware
  <2>3. Outer'
    BY <1>0, <2>1, <2>2 DEF Outer
  <2>4. Alive'
    BY <2>1, <2>2, AlivePumped
  <2>5. Reseeding'
    BY <2>1, <2>2 DEF Reseeding
  <2>6. QED
    BY <2>3, <2>4, <2>5
<1>13. CASE EndRecording
  <2>1. /\ gate = "recording" /\ gate' = "open" /\ reseed' = TRUE
        /\ UNCHANGED <<now, power, slept, front, inputs, due, notice, pump, sess, dirty>>
        /\ Pumped(<<>>)
    BY <1>0, <1>13, EndRecordingDoes DEF world
  <2>2. Outer'
    BY <1>0, <2>1 DEF Outer
  <2>3. Alive'
    BY <1>03, <2>1, AlivePumped
  <2>4. Reseeding'
    BY <1>0, <2>1 DEF Reseeding, Recorded, Alive
  <2>5. QED
    BY <2>2, <2>3, <2>4
<1>14. CASE Reseed
  <2>1. /\ Running /\ reseed' = FALSE
        /\ UNCHANGED <<now, power, slept, front, inputs, due, notice, gate, sess, dirty>>
        /\ pump'.tick = now
        /\ \E new : Pumped(new)
    BY <1>0, <1>14, ReseedDoes DEF world
  <2>2. Outer'
    BY <1>0, <2>1 DEF Outer
  <2>3. Alive'
    BY <2>1, AlivePumped
  <2>4. Reseeding'
    BY <2>1 DEF Reseeding
  <2>5. QED
    BY <2>2, <2>3, <2>4
<1>15. QED
  BY <1>1, <1>2, <1>3, <1>4, <1>5, <1>6, <1>7, <1>8, <1>9, <1>10, <1>11, <1>12, <1>13, <1>14

LEMMA OuterOthers ==
    ASSUME Base, Beat \/ Stop \/ Crash \/ Start \/ Tick \/ UNCHANGED vars
    PROVE  Outer' /\ Alive' /\ Reseeding'
<1>0. /\ Typed /\ Dated /\ Alive /\ Reseeding /\ Outer
      /\ now \in Nat /\ pump \in Pumps /\ sess \in Nat /\ None \notin Nat
  BY BaseParts, Absent DEF Base, Typed
<1>1. CASE Beat
  <2>1. /\ UNCHANGED <<world, due, notice, pump, gate, reseed, rows, sess, ended, dirty>>
        /\ Running
    BY <1>0, <1>1, BeatDoes
  <2>2. Outer'
    BY <1>0, <2>1 DEF Outer, world
  <2>3. Alive'
    BY <1>0, <2>1 DEF Alive, Running, Recorded
  <2>4. Reseeding'
    BY <1>0, <2>1 DEF Reseeding, Recorded, world
  <2>5. QED
    BY <2>2, <2>3, <2>4
<1>2. CASE Stop
  <2>1. /\ UNCHANGED <<world, notice, dirty>> /\ open' = Closed
        /\ sess' = 0 /\ pump' = Fresh0 /\ gate' = "open" /\ ~reseed' /\ due' = FALSE /\ reseed' = FALSE
    BY <1>0, <1>2, StopDoes DEF Stop
  <2>2. Outer'
    BY <1>0, <2>1, FreshIs DEF Outer, world
  <2>3. Alive'
    BY <2>1, ClosedIs DEF Alive, Running
  <2>4. Reseeding'
    BY <2>1 DEF Reseeding
  <2>5. QED
    BY <2>2, <2>3, <2>4
<1>3. CASE Crash
  <2>1. /\ UNCHANGED <<world, notice>> /\ open'.seg = None /\ dirty' = dirty \cup {<<sess, "crash">>}
        /\ sess' = 0 /\ pump' = Fresh0 /\ gate' = "open" /\ ~reseed' /\ due' = FALSE /\ reseed' = FALSE
        /\ "crash" \in Ops
    BY <1>0, <1>3, CrashDoes DEF Crash
  <2>11. dirty' \in SUBSET (Nat \X Ops)
    BY <1>0, <2>1 DEF Outer
  <2>2. Outer'
    BY <1>0, <2>1, <2>11, FreshIs DEF Outer, world
  <2>3. Alive'
    BY <2>1 DEF Alive, Running
  <2>4. Reseeding'
    BY <2>1 DEF Reseeding
  <2>5. QED
    BY <2>2, <2>3, <2>4
<1>4. CASE Start
  <2>1. /\ ~Running /\ due' = TRUE /\ UNCHANGED <<world, notice, gate, reseed, dirty>>
        /\ sess' = Len(ended) + 1 /\ sess' \in Nat /\ sess' # 0
        /\ Len(ended') = sess' /\ ended'[sess'] = None
        /\ pump'.tick = now
    BY <1>0, <1>4, StartDoes
  <2>2. Outer'
    BY <1>0, <2>1 DEF Outer, world
  <2>3. Alive'
    BY <1>0, <2>1 DEF Alive, Running
  <2>4. Reseeding'
    BY <1>0, <2>1 DEF Reseeding, Alive
  <2>5. QED
    BY <2>2, <2>3, <2>4
<1>5. CASE Tick
  <2>1. /\ now' = now + 1 /\ (Settled \/ power = "asleep") /\ due' = (Running /\ power = "on")
        /\ UNCHANGED <<power, slept, front, inputs, notice, pump, gate, reseed, open,
                       rows, sess, ended, dirty>>
    BY <1>0, <1>5, TickDoes
  <2>2. due' \in BOOLEAN
    BY <2>1
  <2>3. \A x \in Nat : x <= now => x <= now'
    BY <1>0, <2>1
  <2>4. inputs' \subseteq 0 .. now' /\ slept' <= now' /\ (pump'.tick # None => pump'.tick <= now')
    BY <1>0, <2>1, <2>3, PumpsAre DEF Outer
  <2>5. Outer'
    BY <1>0, <2>1, <2>2, <2>4 DEF Outer
  <2>6. Alive'
    BY <1>0, <2>1 DEF Alive, Running, Recorded
  <2>7. Reseeding'
    BY <1>0, <2>1 DEF Reseeding, Recorded, Settled
  <2>8. QED
    BY <2>5, <2>6, <2>7
<1>6. CASE UNCHANGED vars
  BY <1>0, <1>6 DEF vars, world, Outer, Alive, Reseeding, Running, Recorded
<1>7. QED
  BY <1>1, <1>2, <1>3, <1>4, <1>5, <1>6

\* The base is inductive.
LEMMA BaseNext ==
    ASSUME Base, [Next]_vars
    PROVE  Base'
<1>1. Inner'
  BY InnerNext
<1>2. Outer' /\ Alive' /\ Reseeding'
  BY OuterPumped, OuterOthers DEF Next
<1>3. QED
  BY <1>1, <1>2, BaseParts DEF Base, Outer, Inner, Typed, Dated

\* It holds when the program was never started.
LEMMA BaseInit == Init => Base
<1> SUFFICES ASSUME Init PROVE Base
  OBVIOUS
<1>1. Outer
  <2>1. inputs = {0} /\ now = 0 /\ front \in Windows /\ slept = 0 /\ dirty = {} /\ pump.tick = None
    BY FreshIs DEF Init, Windows
  <2>2. inputs \subseteq 0 .. now /\ inputs \in SUBSET Nat /\ 0 \in inputs
    BY <2>1
  <2>3. /\ power \in {"on", "suspending", "asleep"} /\ due \in BOOLEAN /\ notice \in BOOLEAN
        /\ reseed \in BOOLEAN /\ gate \in {"open", "paused", "recording"}
    BY DEF Init
  <2>4. slept \in Nat /\ slept <= now /\ dirty \in SUBSET (Nat \X Ops)
    BY <2>1
  <2>5. QED
    BY <2>1, <2>2, <2>3, <2>4 DEF Outer
<1>2. Inner
  BY FreshIs, ClosedIs DEF Init, Inner
<1>3. Alive /\ Reseeding
  BY ClosedIs DEF Init, Alive, Running, Reseeding
<1>4. QED
  BY <1>1, <1>2, <1>3, BaseParts

\* A session is only ever soiled, and only the running one.
LEMMA DirtyNext ==
    ASSUME Base, [Next]_vars
    PROVE  /\ dirty \subseteq dirty'
           /\ \A d \in dirty' : d \in dirty \/ (Running /\ d[1] = sess /\ sess \in DOMAIN ended)
           /\ \A s : Recorded(s) => Recorded(s)'
<1>1. UNCHANGED dirty \/ (Running /\ \E op : dirty' = dirty \cup {<<sess, op>>})
  <2>1. CASE Sleep
    BY <2>1 DEF Sleep, Uses, Soils
  <2>2. CASE Pause
    BY <2>2 DEF Pause, Uses, Soils
  <2>3. CASE StartRecording
    BY <2>3 DEF StartRecording, Uses, Soils
  <2>4. CASE Crash
    BY <2>4 DEF Crash, Uses, Soils
  <2>5. CASE Focus \/ Input \/ Timer \/ Beat \/ Suspend \/ Wake \/ ResumeNotice \/ Lock \/ Unlock
    BY <2>5 DEF Focus, Input, Timer, Beat, Suspend, Wake, ResumeNotice, Lock, Unlock
  <2>6. CASE Unpause \/ EndRecording \/ Reseed \/ Stop \/ Start \/ Tick \/ UNCHANGED vars
    BY <2>6 DEF Unpause, EndRecording, Reseed, Stop, Start, Tick, vars
  <2>7. QED
    BY <2>1, <2>2, <2>3, <2>4, <2>5, <2>6 DEF Next
<1>2. Running => sess \in DOMAIN ended
  BY EndedAre DEF Base, Alive, Running, Typed
<1>3. \A op : <<sess, op>>[1] = sess
  OBVIOUS
<1>4. QED
  BY <1>1, <1>2, <1>3 DEF Recorded

\* Only the last session may be without an end, every row is of a session that
\* was, and the writer's open segment and open row are of the one that runs.
Sessions ==
    /\ \A s \in DOMAIN ended : ended[s] = None => s = Len(ended)
    /\ \A k \in DOMAIN rows : rows[k].sess \in DOMAIN ended
    /\ \A t \in 0 .. now - 1 : past[t + 1].sess \in 0 .. Len(ended)
    /\ \A d \in dirty : d[1] \in DOMAIN ended
    /\ open.row # None => open.row.sess \in DOMAIN ended /\ ended[open.row.sess] = None
    /\ Running /\ open.row # None =>
          open.seg # None /\ open.row.start = open.seg.start /\ open.row.app = open.seg.app
    /\ open.seg # None => open.seg.sess = sess

LEMMA SessionsPumped ==
    ASSUME Base, Sessions, NEW new, Pumped(new), \A d \in dirty' : d[1] \in DOMAIN ended'
    PROVE  Sessions'
<1>1. Typed /\ Alive
  BY DEF Base
<1>2. /\ new \in Seq(Entries) /\ rows' = rows \o new /\ UNCHANGED <<now, past, sess, ended>>
      /\ Opened(open, open') /\ (~Running => open' = open)
      /\ \A r \in Range(new) : Running /\ r.sess = sess
  BY DEF Pumped
<1>3. \A k \in DOMAIN rows' : (k \in DOMAIN rows /\ rows'[k] = rows[k]) \/ rows'[k] \in Range(new)
  BY <1>1, <1>2, Added
<1>4. Running => sess \in DOMAIN ended /\ ended[sess] = None
  BY <1>1, EndedAre DEF Alive, Running, Typed
<1>5. \A k \in DOMAIN rows' : rows'[k].sess \in DOMAIN ended'
  BY <1>2, <1>3, <1>4 DEF Sessions
<1>6. QED
  BY <1>2, <1>5 DEF Sessions, Opened, Running

\* Sessions is inductive.
LEMMA SessionsNext ==
    ASSUME Base, Sessions, [Next]_vars
    PROVE  Sessions'
<1>1. Typed /\ Alive /\ Dated
  BY DEF Base
<1>2. Running => sess \in DOMAIN ended /\ ended[sess] = None /\ sess = Len(ended)
  BY <1>1, EndedAre DEF Alive, Running, Typed
<1>3. \A d \in dirty' : d[1] \in DOMAIN ended
  BY DirtyNext DEF Sessions
<1>4. /\ Len(ended) \in Nat /\ DOMAIN ended = 1 .. Len(ended) /\ now \in Nat /\ None \notin Nat
      /\ \A t \in 0 .. now - 1 : past[t + 1].sess \in Nat
  BY <1>1, EndedAre, UnitsAre DEF Typed
<1>5. ASSUME NEW new, Pumped(new) PROVE Sessions'
  BY <1>3, <1>5, SessionsPumped DEF Pumped
<1>6. CASE Beat
  <2>1. /\ Running /\ UNCHANGED <<now, past, rows, sess, ended, dirty>> /\ open'.seg = open.seg /\ open.seg # None
        /\ open'.row.sess = open.seg.sess /\ open'.row.app = open.seg.app
        /\ open'.row.start = open.seg.start
    BY <1>1, <1>6, BeatDoes DEF world
  <2>2. QED
    BY <1>2, <1>4, <2>1 DEF Sessions, Running
<1>7. CASE Stop
  <2>1. /\ UNCHANGED <<now, past, dirty>> /\ open' = Closed /\ sess' = 0 /\ DOMAIN ended' = DOMAIN ended
        /\ ended'[sess] = now /\ \A s \in DOMAIN ended : s # sess => ended'[s] = ended[s]
        /\ Running /\ Len(ended') = Len(ended)
    BY <1>1, <1>7, StopDoes DEF world, Free
  <2>2. PICK new : /\ new \in Seq(Entries) /\ rows' = rows \o new
                   /\ \A r \in Range(new) : r.sess = sess
    BY <1>1, <1>7, StopDoes
  <2>3. \A k \in DOMAIN rows' : (k \in DOMAIN rows /\ rows'[k] = rows[k]) \/ rows'[k] \in Range(new)
    BY <1>1, <2>2, Added
  <2>4. \A k \in DOMAIN rows' : rows'[k].sess \in DOMAIN ended'
    BY <1>2, <2>1, <2>2, <2>3 DEF Sessions
  <2>5. \A s \in DOMAIN ended' : ended'[s] = None => s = Len(ended')
    BY <1>2, <1>4, <2>1 DEF Sessions
  <2>6. QED
    BY <1>4, <2>1, <2>4, <2>5, ClosedIs DEF Sessions
<1>8. CASE Crash
  <2>1. /\ UNCHANGED <<now, past, rows, ended>> /\ sess' = 0
        /\ open'.seg = None /\ open'.row = open.row
    BY <1>1, <1>8, CrashDoes DEF world
  <2>2. QED
    BY <1>3, <2>1 DEF Sessions, Running
<1>9. CASE Start
  <2>1. /\ UNCHANGED <<now, past, dirty>> /\ sess' = Len(ended) + 1 /\ sess' \in Nat /\ Len(ended') = sess'
        /\ ended'[sess'] = None /\ DOMAIN ended \subseteq DOMAIN ended' /\ sess' \in DOMAIN ended'
        /\ \A s \in DOMAIN ended' : s \in DOMAIN ended \/ s = sess'
        /\ \A s \in DOMAIN ended : ended[s] # None => ended'[s] = ended[s]
        /\ \A s \in DOMAIN ended : ended[s] = None => ended'[s] \in Nat
        /\ open' = IF front = None THEN Closed
                   ELSE [seg |-> [sess |-> sess', app |-> front, start |-> now], row |-> None]
    BY <1>1, <1>9, StartDoes DEF world
  <2>2. PICK new : /\ new \in Seq(Entries) /\ rows' = rows \o new
                   /\ \A r \in Range(new) : /\ Dwelt(r) => open.row # None /\ r.sess = open.row.sess
                                            /\ ~Dwelt(r) => r.sess = sess'
    BY <1>1, <1>9, StartDoes DEF Left
  <2>3. \A k \in DOMAIN rows' : (k \in DOMAIN rows /\ rows'[k] = rows[k]) \/ rows'[k] \in Range(new)
    BY <1>1, <2>2, Added
  <2>4. \A k \in DOMAIN rows' : rows'[k].sess \in DOMAIN ended'
    BY <2>1, <2>2, <2>3 DEF Sessions
  <2>5. \A s \in DOMAIN ended' : ended'[s] = None => s = Len(ended')
    BY <1>4, <2>1
  <2>6. open'.row = None /\ (open'.seg # None => open'.seg.sess = sess')
    BY <2>1, ClosedIs
  <2>7. \A t \in 0 .. now' - 1 : past'[t + 1].sess \in 0 .. Len(ended')
    BY <1>4, <2>1 DEF Sessions
  <2>8. QED
    BY <2>1, <2>4, <2>5, <2>6, <2>7 DEF Sessions
<1>10. CASE Tick
  <2>1. /\ now' = now + 1 /\ UNCHANGED <<open, rows, sess, ended, dirty>>
        /\ \A t \in 0 .. now - 1 : past'[t + 1] = past[t + 1]
        /\ past'[now + 1].sess = sess
    BY <1>1, <1>10, TickDoes
  <2>2. \A t \in 0 .. now' - 1 : t \in 0 .. now - 1 \/ t = now
    BY <1>4, <2>1
  <2>3. \A t \in 0 .. now' - 1 : past'[t + 1].sess \in 0 .. Len(ended')
    BY <1>2, <1>4, <2>1, <2>2 DEF Sessions, Running
  <2>4. QED
    BY <2>1, <2>3 DEF Sessions, Running
<1>11. QED
  BY <1>5, <1>6, <1>7, <1>8, <1>9, <1>10, PumpedSteps

\* The pump's segment is of the window in front.
Facing == pump.cur # None => pump.cur.app = front

\* The writer's segment stays open while capture is.
Ungated == gate' = gate \/ gate' = "open" \/ open'.seg = None \/ <<sess', "recording">> \in dirty'

LEMMA FacingPumped ==
    ASSUME Base, Facing,
           \/ Focus \/ Input \/ Timer \/ Suspend \/ Sleep \/ Wake \/ ResumeNotice \/ Lock \/ Unlock
           \/ Pause \/ Unpause \/ StartRecording \/ EndRecording \/ Reseed
    PROVE  Facing' /\ Ungated
<1>0. /\ Typed /\ Dated /\ Alive /\ Reseeding
      /\ pump \in Pumps
  BY DEF Base, Typed
<1>1. CASE Focus
  BY <1>0, <1>1, FocusDoes DEF Facing, Ungated
<1>2. CASE Input
  <2>1. /\ UNCHANGED <<front, gate>> /\ pump' = [pump EXCEPT !.idle = pump.idle /\ ~(Running /\ front # None)]
    BY <1>0, <1>2, InputDoes
  <2>2. pump'.cur = pump.cur
    BY <1>0, <2>1 DEF Pumps
  <2>3. QED
    BY <2>1, <2>2 DEF Facing, Ungated
<1>3. CASE Timer
  <2>1. UNCHANGED <<front, gate>> /\ pump' = Timed(pump)
    BY <1>0, <1>3, TimerDoes DEF world
  <2>2. pump'.cur = pump.cur \/ pump'.cur = InFront
    BY <1>0, <2>1 DEF Timed, Pumps
  <2>3. QED
    BY <2>1, <2>2 DEF Facing, InFront, Ungated
<1>4. CASE Suspend \/ Lock
  <2>1. gate' = gate /\ pump'.cur = None
    <3>1. CASE Suspend
      <4>1. gate' = gate /\ pump' = [pump EXCEPT !.cur = None, !.suspended = TRUE, !.resumed = None, !.tick = now]
        BY <1>0, <3>1, SuspendDoes
      <4>2. QED
        BY <1>0, <4>1 DEF Pumps
    <3>2. CASE Lock
      <4>1. gate' = gate /\ pump' = [pump EXCEPT !.cur = None]
        BY <1>0, <3>2, LockDoes
      <4>2. QED
        BY <1>0, <4>1 DEF Pumps
    <3>3. QED
      BY <1>4, <3>1, <3>2
  <2>2. QED
    BY <2>1 DEF Facing, Ungated
<1>5. CASE Sleep \/ Wake
  <2>1. UNCHANGED <<front, pump, gate>>
    BY <1>5 DEF Sleep, Wake
  <2>2. QED
    BY <2>1 DEF Facing, Ungated
<1>6. CASE ResumeNotice
  <2>1. /\ UNCHANGED <<front, gate>>
        /\ pump' = IF ~Running THEN pump
                   ELSE IF Anew(pump) THEN Woken(pump) ELSE [pump EXCEPT !.tick = now]
    BY <1>0, <1>6, ResumeNoticeDoes DEF world
  <2>2. pump'.cur = pump.cur \/ pump'.cur = InFront
    BY <1>0, <2>1 DEF Woken, Pumps
  <2>3. QED
    BY <2>1, <2>2 DEF Facing, InFront, Ungated
<1>7. CASE Unlock
  <2>1. gate' = gate /\ pump' = IF ~Running THEN pump ELSE [pump EXCEPT !.cur = [app |-> front', at |-> now]]
    BY <1>0, <1>7, UnlockDoes
  <2>2. pump'.cur = None \/ pump'.cur.app = front'
    BY <1>0, <2>1, FreshIs DEF Pumps, Alive
  <2>3. QED
    BY <2>1, <2>2 DEF Facing, Ungated
<1>8. CASE Pause
  <2>1. UNCHANGED <<front, pump>> /\ open' = Closed
    BY <1>0, <1>8, PauseDoes DEF world
  <2>2. QED
    BY <2>1, ClosedIs DEF Facing, Ungated
<1>9. CASE Unpause \/ EndRecording
  <2>1. UNCHANGED <<front, pump>> /\ gate' = "open"
    BY <1>9 DEF Unpause, EndRecording, world
  <2>2. QED
    BY <2>1 DEF Facing, Ungated
<1>10. CASE StartRecording
  <2>1. UNCHANGED <<front, pump, sess>> /\ dirty' = dirty \cup {<<sess, "recording">>}
    BY <1>0, <1>10, StartRecordingDoes DEF world
  <2>2. QED
    BY <2>1 DEF Facing, Ungated
<1>11. CASE Reseed
  <2>1. gate' = gate /\ UNCHANGED front /\ pump'.cur = InFront
    BY <1>0, <1>11, ReseedDoes DEF world
  <2>2. QED
    BY <2>1 DEF Facing, InFront, Ungated
<1>12. QED
  BY <1>1, <1>2, <1>3, <1>4, <1>5, <1>6, <1>7, <1>8, <1>9, <1>10, <1>11

\* The segment is of the window in front, after every step.
LEMMA FacingNext ==
    ASSUME Base, Facing, [Next]_vars
    PROVE  Facing' /\ Ungated
<1>0. /\ Typed /\ Dated /\ Alive /\ Reseeding
  BY DEF Base
<1>1. CASE Beat \/ Tick
  <2>1. UNCHANGED <<front, pump, gate>>
    BY <1>1 DEF Beat, Tick, world
  <2>2. QED
    BY <2>1 DEF Facing, Ungated
<1>2. CASE Stop \/ Crash
  <2>1. gate' = "open" /\ pump' = Fresh0
    BY <1>2 DEF Stop, Crash
  <2>2. QED
    BY <2>1, FreshIs DEF Facing, Ungated
<1>3. CASE Start
  <2>1. gate' = gate /\ pump'.cur = InFront /\ UNCHANGED front
    BY <1>0, <1>3, StartDoes DEF world
  <2>2. QED
    BY <2>1 DEF Facing, InFront, Ungated
<1>4. CASE UNCHANGED vars
  <2>1. UNCHANGED <<front, pump, gate>>
    BY <1>4 DEF vars, world
  <2>2. QED
    BY <2>1 DEF Facing, Ungated
<1>5. QED
  BY <1>1, <1>2, <1>3, <1>4, FacingPumped DEF Next

\* What is in front: the pump's segment, the writer's copy of it, and the open
\* row hold no time of another session, and, where nothing was recorded, of
\* another window, and they come after every dwell.
Current ==
    /\ pump.cur # None =>
          /\ \A t \in pump.cur.at .. now - 1 : past[t + 1].app = pump.cur.app /\ past[t + 1].sess = sess
          /\ \A i \in DOMAIN rows : Dwelt(rows[i]) => rows[i].ts <= pump.cur.at
    /\ open.seg # None =>
          /\ \A t \in open.seg.start .. now - 1 : past[t + 1].sess = sess
          /\ ~Recorded(sess) => gate = "open" /\ InStep(open, pump)
    /\ open.row # None =>
          /\ \A t \in open.row.start .. open.row.high - 1 :
                past[t + 1].sess = open.row.sess
                /\ (~Recorded(open.row.sess) => past[t + 1].app = open.row.app)
          /\ ~Recorded(open.row.sess) =>
                \A i \in DOMAIN rows : Dwelt(rows[i]) => rows[i].ts <= open.row.start

LEMMA CurrentPumped ==
    ASSUME Base, Current, NEW new, Pumped(new), Ungated, dirty \subseteq dirty'
    PROVE  Current'
<1>0. /\ Typed /\ Dated /\ Alive /\ now \in Nat /\ now' = now /\ past' = past /\ sess' = sess
  BY DEF Base, Typed, Pumped
<1>1. /\ new \in Seq(Entries) /\ rows' = rows \o new
      /\ pump'.cur = pump.cur \/ pump'.cur = None \/ pump'.cur.at = now
      /\ \A r \in Range(new) : r.ts = now /\ (Dwelt(r) => open'.row = None /\ (pump'.cur = None \/ pump'.cur.at = now))
      /\ Opened(open, open')
      /\ ~Recorded(sess) /\ gate = "open" /\ InStep(open, pump) => InStep(open', pump')
      /\ gate # "open" => open' = open \/ open' = Closed
  BY DEF Pumped
<1>2. \A k \in DOMAIN rows' : (k \in DOMAIN rows /\ rows'[k] = rows[k]) \/ rows'[k] \in Range(new)
  BY <1>0, <1>1, Added
<1>3. \A k \in DOMAIN rows : rows[k].ts <= now
  BY <1>0 DEF Dated
<1>4. now <= now /\ now .. now - 1 = {}
  BY <1>0
<1>5. \A s : ~Recorded(s)' => ~Recorded(s)
  BY DEF Recorded
<1>6. pump'.cur # None =>
          /\ \A t \in pump'.cur.at .. now' - 1 : past'[t + 1].app = pump'.cur.app /\ past'[t + 1].sess = sess'
          /\ \A i \in DOMAIN rows' : Dwelt(rows'[i]) => rows'[i].ts <= pump'.cur.at
  <2>1. CASE pump'.cur # None /\ pump'.cur.at = now
    BY <2>1, <1>0, <1>1, <1>2, <1>3, <1>4
  <2>2. CASE pump'.cur # None /\ pump'.cur = pump.cur /\ pump'.cur.at # now
    BY <2>2, <1>0, <1>1, <1>2 DEF Current
  <2>3. QED
    BY <2>1, <2>2, <1>1
<1>7. open'.seg # None =>
          /\ \A t \in open'.seg.start .. now' - 1 : past'[t + 1].sess = sess'
          /\ ~Recorded(sess)' => gate' = "open" /\ InStep(open', pump')
  <2>1. ASSUME open'.seg # None
        PROVE  \A t \in open'.seg.start .. now' - 1 : past'[t + 1].sess = sess'
    BY <2>1, <1>0, <1>1, <1>4 DEF Current, Opened
  <2>2. ASSUME open'.seg # None, ~Recorded(sess)'
        PROVE  gate' = "open" /\ InStep(open', pump')
    <3>1. ~Recorded(sess)
      BY <2>2, <1>0, <1>5 DEF Recorded
    <3>2. gate = "open"
      BY <2>2, <3>1, <1>1, ClosedIs DEF Current
    <3>3. InStep(open', pump')
      BY <3>1, <3>2, <1>1 DEF Current, InStep
    <3>4. gate' = "open"
      BY <2>2, <3>2 DEF Ungated, Recorded
    <3>5. QED
      BY <3>3, <3>4
  <2>3. QED
    BY <2>1, <2>2
<1>8. open'.row # None =>
          /\ \A t \in open'.row.start .. open'.row.high - 1 :
                past'[t + 1].sess = open'.row.sess
                /\ (~Recorded(open.row.sess)' => past'[t + 1].app = open'.row.app)
          /\ ~Recorded(open.row.sess)' =>
                \A i \in DOMAIN rows' : Dwelt(rows'[i]) => rows'[i].ts <= open'.row.start
  <2> SUFFICES ASSUME open'.row # None
               PROVE  /\ \A t \in open'.row.start .. open'.row.high - 1 :
                            past'[t + 1].sess = open'.row.sess
                            /\ (~Recorded(open.row.sess)' => past'[t + 1].app = open'.row.app)
                      /\ ~Recorded(open.row.sess)' =>
                            \A i \in DOMAIN rows' : Dwelt(rows'[i]) => rows'[i].ts <= open'.row.start
    OBVIOUS
  <2>1. open' = open
    BY <1>1 DEF Opened
  <2>2. ~Recorded(open.row.sess)' => ~Recorded(open.row.sess)
    BY <2>1 DEF Recorded
  <2>3. \A i \in DOMAIN rows' : Dwelt(rows'[i]) => i \in DOMAIN rows /\ rows'[i] = rows[i]
    BY <1>1, <1>2
  <2>4. QED
    BY <1>0, <2>1, <2>2, <2>3 DEF Current
<1>9. QED
  BY <1>6, <1>7, <1>8 DEF Current

LEMMA CurrentOthers ==
    ASSUME Base, Sessions, Facing, Current, Beat \/ Stop \/ Crash \/ Start \/ Tick
    PROVE  Current'
<1>0. /\ Typed /\ Dated /\ Alive /\ now \in Nat
      /\ \A s : ~Recorded(s)' => ~Recorded(s)
  BY DirtyNext DEF Base, Typed, Next
<1>01. now <= now /\ now .. now - 1 = {}
  BY <1>0
<1>02. \A k \in DOMAIN rows : rows[k].ts <= now
  BY <1>0 DEF Dated
<1>1. CASE Beat
  <2>1. /\ UNCHANGED <<now, past, pump, gate, rows, sess, ended, dirty>> /\ open'.seg = open.seg /\ open.seg # None
        /\ open'.row.sess = open.seg.sess /\ open'.row.app = open.seg.app
        /\ open'.row.start = open.seg.start /\ open'.row.high = now
    BY <1>0, <1>1, BeatDoes DEF world
  <2>2. open.seg.sess = sess
    BY <2>1 DEF Sessions
  <2>3. \A t \in open.seg.start .. now - 1 : past[t + 1].sess = sess
    BY <2>1 DEF Current
  <2>4. ~Recorded(sess) => /\ gate = "open" /\ InStep(open, pump)
                           /\ pump.cur # None /\ pump.cur.at = open.seg.start /\ pump.cur.app = open.seg.app
    BY <2>1 DEF Current, InStep
  <2>5. ~Recorded(sess) => /\ \A t \in open.seg.start .. now - 1 : past[t + 1].app = open.seg.app
                           /\ \A i \in DOMAIN rows : Dwelt(rows[i]) => rows[i].ts <= open.seg.start
    BY <2>4 DEF Current
  <2>6. Recorded(open.row.sess)' = Recorded(sess) /\ Recorded(sess)' = Recorded(sess)
    BY <2>1, <2>2 DEF Recorded
  <2>7. InStep(open', pump') <=> InStep(open, pump)
    BY <2>1 DEF InStep
  <2>8. /\ pump'.cur # None =>
              /\ \A t \in pump'.cur.at .. now' - 1 : past'[t + 1].app = pump'.cur.app /\ past'[t + 1].sess = sess'
              /\ \A i \in DOMAIN rows' : Dwelt(rows'[i]) => rows'[i].ts <= pump'.cur.at
    BY <2>1 DEF Current
  <2>9. open'.seg # None =>
          /\ \A t \in open'.seg.start .. now' - 1 : past'[t + 1].sess = sess'
          /\ ~Recorded(sess)' => gate' = "open" /\ InStep(open', pump')
    BY <2>1, <2>3, <2>4, <2>6, <2>7
  <2>10. open'.row # None =>
          /\ \A t \in open'.row.start .. open'.row.high - 1 :
                past'[t + 1].sess = open'.row.sess
                /\ (~Recorded(open.row.sess)' => past'[t + 1].app = open'.row.app)
          /\ ~Recorded(open.row.sess)' =>
                \A i \in DOMAIN rows' : Dwelt(rows'[i]) => rows'[i].ts <= open'.row.start
    BY <2>1, <2>2, <2>3, <2>5, <2>6
  <2>11. QED
    BY <2>8, <2>9, <2>10 DEF Current
<1>2. CASE Stop
  <2>1. open' = Closed /\ pump' = Fresh0
    BY <1>0, <1>2, StopDoes
  <2>2. QED
    BY <2>1, ClosedIs, FreshIs DEF Current
<1>3. CASE Crash
  <2>1. UNCHANGED <<now, past, rows>> /\ open'.seg = None /\ open'.row = open.row /\ pump' = Fresh0
    BY <1>0, <1>3, CrashDoes DEF world
  <2>2. Recorded(open.row.sess) => Recorded(open.row.sess)'
    BY <2>1, <1>0 DEF Recorded
  <2>3. QED
    BY <2>1, <2>2, FreshIs DEF Current
<1>4. CASE Start
  <2>1. /\ ~Running /\ UNCHANGED <<now, past, front, gate>> /\ pump'.cur = InFront
        /\ open' = IF front = None THEN Closed
                   ELSE [seg |-> [sess |-> sess', app |-> front, start |-> now], row |-> None]
    BY <1>0, <1>4, StartDoes DEF world
  <2>2. \A k \in DOMAIN rows' : rows'[k].ts <= now
    BY <2>1, InnerStart, <1>4 DEF Inner
  <2>3. gate' = "open"
    BY <1>0, <2>1 DEF Alive
  <2>4. pump'.cur # None => pump'.cur.at = now /\ pump'.cur.app = front /\ front # None
    BY <2>1 DEF InFront
  <2>5. open'.row = None /\ (open'.seg # None => open'.seg.start = now /\ open'.seg.app = front /\ front # None)
    BY <2>1, ClosedIs
  <2>51. front # None => [app |-> front, at |-> now] \in Segments
    BY <1>0 DEF Segments, Typed, Windows
  <2>6. InStep(open', pump')
    BY <2>1, <2>4, <2>5, <2>51, Absent DEF InStep, InFront
  <2>7. QED
    BY <1>0, <1>01, <2>1, <2>2, <2>3, <2>4, <2>5, <2>6 DEF Current
<1>5. CASE Tick
  <2>1. /\ now' = now + 1 /\ UNCHANGED <<front, pump, gate, open, rows, sess, dirty>>
        /\ \A t \in 0 .. now - 1 : past'[t + 1] = past[t + 1]
        /\ past'[now + 1].app = front /\ past'[now + 1].sess = sess
    BY <1>0, <1>5, TickDoes
  <2>2. pump.cur # None => pump.cur.at \in Nat /\ pump.cur.at <= now /\ pump.cur.app = front
    BY <1>0, PumpsAre DEF Typed, Dated, Facing
  <2>3. open.seg # None => open.seg.start \in Nat /\ open.seg.sess = sess
    BY <1>0, OpensAre DEF Typed, Sessions
  <2>4. open.row # None => open.row.start \in Nat /\ open.row.high \in Nat /\ open.row.high <= now
    BY <1>0, OpensAre DEF Typed, Dated
  <2>5. \A x \in Nat : \A t \in x .. now' - 1 : t = now \/ t \in x .. now - 1
    BY <1>0, <2>1
  <2>6. \A x \in Nat : \A t \in x .. now - 1 : t \in 0 .. now - 1
    BY <1>0
  <2>7. pump'.cur # None =>
          /\ \A t \in pump'.cur.at .. now' - 1 : past'[t + 1].app = pump'.cur.app /\ past'[t + 1].sess = sess'
          /\ \A i \in DOMAIN rows' : Dwelt(rows'[i]) => rows'[i].ts <= pump'.cur.at
    BY <2>1, <2>2, <2>5, <2>6 DEF Current
  <2>8. open'.seg # None =>
          /\ \A t \in open'.seg.start .. now' - 1 : past'[t + 1].sess = sess'
          /\ ~Recorded(sess)' => gate' = "open" /\ InStep(open', pump')
    <3>1. open'.seg # None => \A t \in open'.seg.start .. now' - 1 : past'[t + 1].sess = sess'
      BY <2>1, <2>3, <2>5, <2>6 DEF Current
    <3>2. open'.seg # None /\ ~Recorded(sess)' => gate' = "open" /\ InStep(open', pump')
      BY <2>1 DEF Current, Recorded, InStep
    <3>3. QED
      BY <3>1, <3>2
  <2>9. open'.row # None =>
          /\ \A t \in open'.row.start .. open'.row.high - 1 :
                past'[t + 1].sess = open'.row.sess
                /\ (~Recorded(open.row.sess)' => past'[t + 1].app = open'.row.app)
          /\ ~Recorded(open.row.sess)' =>
                \A i \in DOMAIN rows' : Dwelt(rows'[i]) => rows'[i].ts <= open'.row.start
    <3>1. Recorded(open.row.sess)' = Recorded(open.row.sess)
      BY <2>1 DEF Recorded
    <3>2. \A t \in open.row.start .. open.row.high - 1 : open.row # None => t \in 0 .. now - 1
      BY <1>0, <2>4
    <3>3. QED
      BY <2>1, <3>1, <3>2 DEF Current
  <2>10. QED
    BY <2>7, <2>8, <2>9 DEF Current
<1>6. QED
  BY <1>1, <1>2, <1>3, <1>4, <1>5

\* Current is inductive: no step puts another application in the segment.
LEMMA CurrentNext ==
    ASSUME Base, Sessions, Facing, Current, [Next]_vars
    PROVE  Current'
BY PumpedSteps, CurrentPumped, CurrentOthers, FacingNext, DirtyNext

\* A dwell holds time of its own session and, where nothing was recorded, of its
\* own window, and a later one begins where the earlier ones have ended.
Stored ==
    /\ \A i \in DOMAIN rows : Dwelt(rows[i]) =>
          \A t \in rows[i].ts - rows[i].dur .. rows[i].ts - 1 :
              past[t + 1].sess = rows[i].sess
              /\ (~Recorded(rows[i].sess) => past[t + 1].app = rows[i].prev)
    /\ \A i, j \in DOMAIN rows : i < j /\ Dwelt(rows[i]) /\ Dwelt(rows[j]) =>
          rows[i].ts <= rows[j].ts - rows[j].dur \/ Recorded(rows[j].sess)

\* The rows a step adds, and what each of their dwells may be of.
NewDwells(new) ==
    /\ new \in Seq(Entries) /\ rows' = rows \o new /\ UNCHANGED <<now, past>>
    /\ \A r \in Range(new) : Dwelt(r) =>
          /\ r.ts \in Nat /\ r.ts <= now
          /\ \A t \in r.ts - r.dur .. r.ts - 1 :
                past[t + 1].sess = r.sess /\ (~Recorded(r.sess) => past[t + 1].app = r.prev)
          /\ \A i \in DOMAIN rows : Dwelt(rows[i]) => rows[i].ts <= r.ts - r.dur \/ Recorded(r.sess)
    /\ \A i, j \in DOMAIN new : i < j /\ Dwelt(new[i]) /\ Dwelt(new[j]) => new[i].ts <= new[j].ts - new[j].dur

\* New dwells that fit in leave the stored ones as they are.
LEMMA StoredGrown ==
    ASSUME Base, Stored, NEW new, NewDwells(new), \A s : Recorded(s) => Recorded(s)'
    PROVE  Stored'
<1>0. /\ Typed /\ new \in Seq(Entries) /\ rows' = rows \o new /\ now' = now /\ past' = past
  BY DEF Base, NewDwells
<1>1. \A s : ~Recorded(s)' => ~Recorded(s)
  OBVIOUS
<1>2. /\ Len(rows) \in Nat
      /\ \A k \in DOMAIN rows : k <= Len(rows) /\ k \in Nat
      /\ \A k \in DOMAIN new : k \in Nat /\ k >= 1
      /\ \A k \in DOMAIN rows' :
            \/ k \in DOMAIN rows /\ rows'[k] = rows[k]
            \/ \E i \in DOMAIN new : k = Len(rows) + i /\ rows'[k] = new[i] /\ new[i] \in Range(new)
  BY <1>0, Added
<1>3. ASSUME NEW i \in DOMAIN rows', Dwelt(rows'[i])
      PROVE  \A t \in rows'[i].ts - rows'[i].dur .. rows'[i].ts - 1 :
                past'[t + 1].sess = rows'[i].sess
                /\ (<<rows'[i].sess, "recording">> \notin dirty' => past'[t + 1].app = rows'[i].prev)
  <2>1. CASE i \in DOMAIN rows /\ rows'[i] = rows[i]
    <3>1. \A t \in rows[i].ts - rows[i].dur .. rows[i].ts - 1 :
                past[t + 1].sess = rows[i].sess
                /\ (~Recorded(rows[i].sess) => past[t + 1].app = rows[i].prev)
      BY <2>1, <1>3 DEF Stored
    <3>2. <<rows'[i].sess, "recording">> \notin dirty' => ~Recorded(rows[i].sess)
      BY <2>1 DEF Recorded
    <3>3. QED
      BY <1>0, <2>1, <3>1, <3>2
  <2>2. CASE rows'[i] \in Range(new)
    <3>1. \A t \in rows'[i].ts - rows'[i].dur .. rows'[i].ts - 1 :
                past[t + 1].sess = rows'[i].sess
                /\ (~Recorded(rows'[i].sess) => past[t + 1].app = rows'[i].prev)
      BY <2>2, <1>3 DEF NewDwells
    <3>2. <<rows'[i].sess, "recording">> \notin dirty' => <<rows'[i].sess, "recording">> \notin dirty
      BY DEF Recorded
    <3>3. QED
      BY <1>0, <3>1, <3>2 DEF Recorded
  <2>3. QED
    BY <1>2, <2>1, <2>2
<1>4. ASSUME NEW i \in DOMAIN rows', NEW j \in DOMAIN rows', i < j, Dwelt(rows'[i]), Dwelt(rows'[j])
      PROVE  rows'[i].ts <= rows'[j].ts - rows'[j].dur \/ <<rows'[j].sess, "recording">> \in dirty
  <2>1. CASE j \in DOMAIN rows /\ rows'[j] = rows[j]
    <3>1. i \in DOMAIN rows /\ rows'[i] = rows[i]
      BY <2>1, <1>2, <1>4
    <3>2. QED
      BY <2>1, <3>1, <1>4 DEF Stored, Recorded
  <2>2. ASSUME NEW m \in DOMAIN new, j = Len(rows) + m, rows'[j] = new[m], new[m] \in Range(new)
        PROVE  rows'[i].ts <= rows'[j].ts - rows'[j].dur \/ <<rows'[j].sess, "recording">> \in dirty
    <3>1. CASE i \in DOMAIN rows /\ rows'[i] = rows[i]
      BY <2>2, <3>1, <1>4 DEF NewDwells, Recorded
    <3>2. ASSUME NEW l \in DOMAIN new, i = Len(rows) + l, rows'[i] = new[l]
          PROVE  rows'[i].ts <= rows'[j].ts - rows'[j].dur
      <4>1. l < m
        BY <1>2, <1>4, <2>2, <3>2
      <4>2. Dwelt(new[l]) /\ Dwelt(new[m])
        BY <1>4, <2>2, <3>2
      <4>3. QED
        BY <4>1, <4>2, <2>2, <3>2 DEF NewDwells
    <3>3. QED
      BY <1>2, <3>1, <3>2
  <2>3. QED
    BY <1>2, <2>1, <2>2
<1>5. \A i, j \in DOMAIN rows' : i < j /\ Dwelt(rows'[i]) /\ Dwelt(rows'[j]) =>
          rows'[i].ts <= rows'[j].ts - rows'[j].dur \/ <<rows'[j].sess, "recording">> \in dirty'
  BY <1>1, <1>4 DEF Recorded
<1>6. QED
  BY <1>3, <1>5 DEF Stored, Recorded

\* The dwells of the pump's segment, told by the pump or by the end of the
\* session, are of its window and of its time.
LEMMA StoredNow ==
    ASSUME Base, Current, Stored, NEW new, new \in Seq(Entries), rows' = rows \o new,
           UNCHANGED <<now, past>>, \A s : Recorded(s) => Recorded(s)',
           \A r \in Range(new) :
              /\ r.sess = sess /\ r.ts = now
              /\ Dwelt(r) => r.dur = 0 \/ (pump.cur # None /\ r.prev = pump.cur.app /\ r.dur <= now - pump.cur.at),
           \A i, j \in DOMAIN new : i < j /\ Dwelt(new[i]) /\ Dwelt(new[j]) => new[j].dur = 0
    PROVE  Stored'
<1>0. /\ Typed /\ now \in Nat /\ pump \in Pumps /\ Dated
      /\ \A k \in DOMAIN rows : rows[k].ts \in Nat /\ rows[k].ts <= now
  BY RowsAre DEF Base, Typed, Dated
<1>1. /\ \A r \in Range(new) : r.dur \in Nat /\ r.ts = now
      /\ \A k \in DOMAIN new : new[k] \in Range(new)
  <2>1. \A r \in Range(new) : r \in Entries
    BY RangeIn
  <2>2. QED
    BY <2>1, RangeIn DEF Entries
<1>2. pump.cur # None => /\ pump.cur.at \in Nat
                         /\ \A t \in pump.cur.at .. now - 1 : past[t + 1].app = pump.cur.app /\ past[t + 1].sess = sess
                         /\ \A i \in DOMAIN rows : Dwelt(rows[i]) => rows[i].ts <= pump.cur.at
  BY <1>0, PumpsAre DEF Current
<1>3. ASSUME NEW r \in Range(new), Dwelt(r)
      PROVE  /\ \A t \in r.ts - r.dur .. r.ts - 1 :
                    past[t + 1].sess = r.sess /\ (~Recorded(r.sess) => past[t + 1].app = r.prev)
             /\ \A i \in DOMAIN rows : Dwelt(rows[i]) => rows[i].ts <= r.ts - r.dur
  <2>1. r.sess = sess /\ r.ts = now /\ r.dur \in Nat
    BY <1>1
  <2>2. CASE r.dur = 0
    BY <1>0, <2>1, <2>2
  <2>3. CASE pump.cur # None /\ r.prev = pump.cur.app /\ r.dur <= now - pump.cur.at
    <3>1. \A t \in now - r.dur .. now - 1 : t \in pump.cur.at .. now - 1
      BY <1>0, <1>2, <2>1, <2>3
    <3>2. pump.cur.at <= now - r.dur
      BY <1>0, <1>2, <2>1, <2>3
    <3>3. \A i \in DOMAIN rows : Dwelt(rows[i]) => rows[i].ts <= now - r.dur
      BY <1>0, <1>2, <2>1, <2>3, <3>2
    <3>4. QED
      BY <1>2, <2>1, <2>3, <3>1, <3>3
  <2>4. QED
    BY <2>2, <2>3, <1>3
<1>4. \A i, j \in DOMAIN new : i < j /\ Dwelt(new[i]) /\ Dwelt(new[j]) => new[i].ts <= new[j].ts - new[j].dur
  BY <1>0, <1>1
<1>5. \A r \in Range(new) : r.ts \in Nat /\ r.ts <= now
  BY <1>0, <1>1
<1>6. NewDwells(new)
  BY <1>3, <1>4, <1>5 DEF NewDwells
<1>7. QED
  BY <1>6, StoredGrown

\* Stored is inductive.
LEMMA StoredNext ==
    ASSUME Base, Sessions, Current, Stored, [Next]_vars
    PROVE  Stored'
<1>0. /\ Typed /\ Dated /\ Alive /\ now \in Nat /\ \A s : Recorded(s) => Recorded(s)'
  BY DirtyNext DEF Base, Typed
<1>1. ASSUME NEW new, Pumped(new) PROVE Stored'
  <2>1. /\ new \in Seq(Entries) /\ rows' = rows \o new /\ UNCHANGED <<now, past>>
        /\ \A r \in Range(new) :
              /\ r.sess = sess /\ r.ts = now
              /\ Dwelt(r) => r.dur = 0 \/ (pump.cur # None /\ r.prev = pump.cur.app /\ r.dur <= now - pump.cur.at)
        /\ \A i, j \in DOMAIN new : i < j /\ Dwelt(new[i]) /\ Dwelt(new[j]) => new[j].dur = 0
    BY <1>1 DEF Pumped
  <2>2. QED
    BY <1>0, <2>1, StoredNow
<1>2. CASE Beat
  <2>1. UNCHANGED <<rows, past, dirty>>
    BY <1>0, <1>2, BeatDoes DEF world
  <2>2. QED
    BY <2>1 DEF Stored, Recorded
<1>3. CASE Stop
  <2>1. UNCHANGED <<now, past>>
    BY <1>0, <1>3, StopDoes DEF world
  <2>2. PICK new :
           /\ new \in Seq(Entries) /\ rows' = rows \o new
           /\ \A r \in Range(new) :
                 /\ r.sess = sess /\ r.ts = now
                 /\ Dwelt(r) => r.dur = 0 \/ (pump.cur # None /\ r.prev = pump.cur.app /\ r.dur <= now - pump.cur.at)
           /\ \A i, j \in DOMAIN new : i < j /\ Dwelt(new[i]) /\ Dwelt(new[j]) => new[j].dur = 0
    BY <1>0, <1>3, StopDoes
  <2>3. QED
    BY <1>0, <2>1, <2>2, StoredNow
<1>4. CASE Crash
  <2>1. UNCHANGED <<rows, past>>
    BY <1>0, <1>4, CrashDoes DEF world
  <2>2. \A i \in DOMAIN rows : Recorded(rows[i].sess) => <<rows[i].sess, "recording">> \in dirty'
    BY <1>0 DEF Recorded
  <2>3. QED
    BY <2>1, <2>2 DEF Stored, Recorded
<1>5. CASE Start
  <2>1. UNCHANGED <<now, past>>
    BY <1>0, <1>5, StartDoes DEF world
  <2>2. PICK new :
           /\ new \in Seq(Entries) /\ rows' = rows \o new
           /\ \A r \in Range(new) :
                 Dwelt(r) => /\ open.row # None /\ r.sess = open.row.sess /\ r.ts = open.row.high
                             /\ r.dur = open.row.high - open.row.start /\ r.prev = open.row.app
           /\ \A i, j \in DOMAIN new : Dwelt(new[i]) /\ Dwelt(new[j]) => i = j
    BY <1>0, <1>5, StartDoes DEF Left
  <2>3. open.row # None =>
          /\ open.row.start \in Nat /\ open.row.high \in Nat /\ open.row.high <= now
          /\ \A t \in open.row.start .. open.row.high - 1 :
                past[t + 1].sess = open.row.sess
                /\ (~Recorded(open.row.sess) => past[t + 1].app = open.row.app)
          /\ ~Recorded(open.row.sess) =>
                \A i \in DOMAIN rows : Dwelt(rows[i]) => rows[i].ts <= open.row.start
    BY <1>0, OpensAre DEF Typed, Dated, Current
  <2>4. ASSUME NEW r \in Range(new), Dwelt(r)
        PROVE  /\ r.ts \in Nat /\ r.ts <= now
               /\ \A t \in r.ts - r.dur .. r.ts - 1 :
                      past[t + 1].sess = r.sess /\ (~Recorded(r.sess) => past[t + 1].app = r.prev)
               /\ \A i \in DOMAIN rows : Dwelt(rows[i]) => rows[i].ts <= r.ts - r.dur \/ Recorded(r.sess)
    <3>1. /\ open.row # None /\ r.sess = open.row.sess /\ r.ts = open.row.high
          /\ r.dur = open.row.high - open.row.start /\ r.prev = open.row.app
      BY <2>2, <2>4
    <3>2. r.ts - r.dur = open.row.start
      BY <2>3, <3>1
    <3>3. QED
      BY <2>3, <3>1, <3>2
  <2>5. \A i, j \in DOMAIN new : i < j => i # j
    BY <2>2, RangeIn
  <2>6. NewDwells(new)
    BY <2>1, <2>2, <2>4, <2>5 DEF NewDwells
  <2>7. QED
    BY <1>0, <2>6, StoredGrown
<1>6. CASE Tick
  <2>1. /\ now' = now + 1 /\ UNCHANGED <<rows, dirty>>
        /\ \A t \in 0 .. now - 1 : past'[t + 1] = past[t + 1]
    BY <1>0, <1>6, TickDoes
  <2>2. \A i \in DOMAIN rows : /\ rows[i].ts \in Nat /\ rows[i].dur \in Nat
                               /\ rows[i].ts <= now /\ rows[i].dur <= rows[i].ts
    BY <1>0, RowsAre DEF Dated
  <2>3. \A i \in DOMAIN rows : \A t \in rows[i].ts - rows[i].dur .. rows[i].ts - 1 : t \in 0 .. now - 1
    BY <1>0, <2>2
  <2>4. QED
    BY <2>1, <2>3 DEF Stored, Recorded
<1>7. QED
  BY <1>1, <1>2, <1>3, <1>4, <1>5, <1>6, PumpedSteps

\* Row k of session s waits for an answer of that kind, and the next row will.
Waits(k, s, from, to) == k \in DOMAIN rows /\ Is(k, s, from) /\ Unanswered(k, s, to)
WaitsOn(k, s, from, to) ==
    /\ k \in DOMAIN rows' /\ rows'[k] = rows[k] /\ rows'[k].sess = s /\ rows'[k].kind = from
    /\ \A j \in DOMAIN rows' : rows'[j].sess = s /\ rows'[j].kind = to => rows'[j].ts <= rows'[k].ts
Lacks(new, kind) == \A r \in Range(new) : r.kind # kind
Appends(new) == new \in Seq(Entries) /\ rows' = rows \o new

\* A row whose answers have not come keeps waiting while the rows added are of
\* other kinds.
LEMMA StillUnanswered ==
    ASSUME Typed, NEW new, Appends(new), NEW s, NEW from, NEW to, Lacks(new, to),
           NEW k, Waits(k, s, from, to)
    PROVE  WaitsOn(k, s, from, to)
<1>1. /\ \A j \in DOMAIN rows : j \in DOMAIN rows' /\ rows'[j] = rows[j]
      /\ \A j \in DOMAIN rows' : (j \in DOMAIN rows /\ rows'[j] = rows[j]) \/ rows'[j] \in Range(new)
  BY Added DEF Appends
<1>2. QED
  BY <1>1 DEF Is, Unanswered, Waits, WaitsOn, Lacks

\* A row a step adds is the answer to no earlier one, and answers all of them.
LEMMA AnswersNow ==
    ASSUME Base, [Next]_vars, NEW new, Pumped(new), NEW k \in DOMAIN rows, NEW from, NEW to,
           <<from, to>> \in {<<"suspend", "resume">>, <<"paused", "resumed">>, <<"idle", "active">>},
           Is(k, sess, from), Unanswered(k, sess, to), \E r \in Range(new) : r.kind = to,
           NEW t \in Nat, rows[k].ts - rows[k].dur <= t, rows[k].ts < now, t < now
    PROVE  t \in Away(sess)'
<1>0. Typed /\ Dated /\ Alive /\ Typed'
  BY BaseNext DEF Base
<1>1. /\ new \in Seq(Entries) /\ rows' = rows \o new /\ UNCHANGED <<sess, ended>>
      /\ \A r \in Range(new) : Running /\ r.sess = sess /\ r.ts = now
  BY DEF Pumped
<1>2. Running /\ sess \in DOMAIN ended
  BY <1>0, <1>1, EndedAre DEF Alive, Running
<1>3. /\ k \in DOMAIN rows' /\ rows'[k] = rows[k]
      /\ \A j \in DOMAIN rows' : (j \in DOMAIN rows /\ rows'[j] = rows[j]) \/ rows'[j] \in Range(new)
      /\ \A r \in Range(new) : \E j \in DOMAIN rows' : rows'[j] = r
  BY <1>0, <1>1, Added
<1>4. Is(k, sess, from)'
  BY <1>1, <1>3 DEF Is
<1>5. Answered(k, sess, to, t)'
  <2>1. PICK r \in Range(new) : r.kind = to
    OBVIOUS
  <2>2. PICK j \in DOMAIN rows' : rows'[j] = r
    BY <1>3
  <2>3. Is(j, sess, to)' /\ rows'[j].ts > rows'[k].ts
    BY <1>1, <1>3, <2>1, <2>2 DEF Is
  <2>4. \A i \in DOMAIN rows' : rows'[i].sess = sess' /\ rows'[i].kind = to /\ rows'[i].ts > rows'[k].ts => t < rows'[i].ts
    <3>1. /\ \A i \in DOMAIN rows : rows[i].ts \in Nat
          /\ \A i \in DOMAIN rows : rows[i].sess = sess /\ rows[i].kind = to => ~(rows[i].ts > rows[k].ts)
      BY <1>0, RowsAre DEF Unanswered, Is
    <3>2. QED
      BY <1>1, <1>3, <3>1
  <2>5. QED
    BY <2>3, <2>4 DEF Answered, Is
<1>6. Under(k, sess, to, t)'
  BY <1>3, <1>5 DEF Under
<1>7. Rests(k, sess, t)'
  BY <1>4, <1>6 DEF Rests
<1>8. AwayFact'
  BY <1>0, AwayNext
<1>9. sess' \in DOMAIN ended'
  BY <1>1, <1>2
<1>10. QED
  BY <1>3, <1>7, <1>8, <1>9 DEF AwayFact

\* A recovered row covers the gap it was found after.
LEMMA RecoversNow ==
    ASSUME Base, [Next]_vars, NEW new, Pumped(new), NEW t \in Nat, t < now,
           NEW tick \in Nat, tick <= t,
           \E r \in Range(new) : r.kind = "recovered" /\ r.dur = now - tick,
           \A r \in Range(new) : r.kind # "suspend",
           \A j \in DOMAIN rows : Is(j, sess, "suspend") => rows[j].ts <= tick
    PROVE  t \in Away(sess)'
<1>0. Typed /\ Dated /\ Alive /\ Typed' /\ now \in Nat
  BY BaseNext DEF Base, Typed
<1>1. /\ new \in Seq(Entries) /\ rows' = rows \o new /\ UNCHANGED <<sess, ended>>
      /\ \A r \in Range(new) : Running /\ r.sess = sess /\ r.ts = now
  BY DEF Pumped
<1>2. Running /\ sess \in DOMAIN ended
  BY <1>0, <1>1, EndedAre DEF Alive, Running
<1>3. /\ \A j \in DOMAIN rows' : (j \in DOMAIN rows /\ rows'[j] = rows[j]) \/ rows'[j] \in Range(new)
      /\ \A r \in Range(new) : \E j \in DOMAIN rows' : rows'[j] = r
  BY <1>0, <1>1, Added
<1>4. PICK k \in DOMAIN rows' : rows'[k].kind = "recovered" /\ rows'[k].dur = now - tick
                                /\ rows'[k].sess = sess /\ rows'[k].ts = now
  <2>1. PICK r \in Range(new) : r.kind = "recovered" /\ r.dur = now - tick
    OBVIOUS
  <2>2. PICK j \in DOMAIN rows' : rows'[j] = r
    BY <1>3
  <2>3. r.sess = sess /\ r.ts = now
    BY <1>1
  <2>4. QED
    BY <2>1, <2>2, <2>3
<1>5. \A j \in DOMAIN rows' : rows'[j].sess = sess' /\ rows'[j].kind = "suspend" => rows'[j].ts <= t
  <2>1. \A j \in DOMAIN rows : rows[j].ts \in Nat /\ (rows[j].sess = sess /\ rows[j].kind = "suspend" => rows[j].ts <= tick)
    BY <1>0, RowsAre DEF Is
  <2>2. QED
    BY <1>1, <1>3, <2>1
<1>51. rows'[k].ts - rows'[k].dur <= t /\ t < rows'[k].ts
  <2>1. now - (now - tick) = tick
    BY <1>0
  <2>2. QED
    BY <1>4, <2>1
<1>6. Recovering(k, sess, t)'
  BY <1>5, <1>51 DEF Recovering, Is
<1>7. Rests(k, sess, t)'
  BY <1>1, <1>4, <1>6 DEF Rests, Is
<1>8. AwayFact'
  BY <1>0, AwayNext
<1>9. sess' \in DOMAIN ended'
  BY <1>1, <1>2
<1>10. QED
  BY <1>7, <1>8, <1>9 DEF AwayFact

\* What was away stays away when a step adds rows.
LEMMA AwayPumped ==
    ASSUME Base, [Next]_vars, NEW new, Pumped(new),
           (\E r \in Range(new) : r.kind = "suspend") =>
               \A k \in DOMAIN rows : rows[k].kind = "recovered" => rows[k].ts < now,
           NEW s \in DOMAIN ended, NEW t \in Away(s)
    PROVE  t \in Away(s)'
<1>0. Typed /\ Dated /\ Alive /\ Typed'
  BY BaseNext DEF Base
<1>1. Grows(new)
  BY DEF Pumped, Grows
<1>2. /\ \A k \in DOMAIN rows : rows[k].ts <= now
      /\ Running => ended[sess] = None
  BY <1>0 DEF Dated, Alive
<1>3. QED
  BY <1>0, <1>1, <1>2, AwayGrows

\* What is taken away stays so when a session ends.
LEMMA AwayStopped ==
    ASSUME Base, Stop \/ Crash \/ Start \/ Beat \/ Tick, NEW s \in DOMAIN ended, NEW t \in Away(s)
    PROVE  t \in Away(s)'
<1>0. Typed /\ Dated /\ Alive /\ Typed'
  BY BaseNext DEF Base, Next
<1>1. \E new : Grows(new)
  <2>1. CASE Stop
    <3>1. /\ sess \in DOMAIN ended /\ ended[sess] = None /\ DOMAIN ended' = DOMAIN ended
          /\ \A x \in DOMAIN ended : x # sess => ended'[x] = ended[x]
      BY <1>0, <2>1, StopDoes
    <3>2. PICK new : new \in Seq(Entries) /\ rows' = rows \o new /\ \A r \in Range(new) : r.kind = "focus"
      BY <1>0, <2>1, StopDoes
    <3>3. Grows(new)
      BY <3>1, <3>2 DEF Grows
    <3>4. QED
      BY <3>3
  <2>2. CASE Start
    <3>1. /\ DOMAIN ended \subseteq DOMAIN ended'
          /\ \A x \in DOMAIN ended : ended[x] # None => ended'[x] = ended[x]
      BY <1>0, <2>2, StartDoes
    <3>2. PICK new : new \in Seq(Entries) /\ rows' = rows \o new /\ \A r \in Range(new) : r.kind = "focus"
      BY <1>0, <2>2, StartDoes
    <3>3. Grows(new)
      BY <3>1, <3>2 DEF Grows
    <3>4. QED
      BY <3>3
  <2>3. CASE Crash \/ Beat \/ Tick
    <3>1. UNCHANGED <<rows, ended>>
      BY <2>3 DEF Crash, Beat, Tick
    <3>2. rows \o <<>> = rows /\ <<>> \in Seq(Entries) /\ Range(<<>>) = {}
      BY <1>0, Nothing DEF Typed
    <3>3. Grows(<<>>)
      BY <3>1, <3>2 DEF Grows
    <3>4. QED
      BY <3>3
  <2>4. QED
    BY <2>1, <2>2, <2>3
<1>2. /\ \A k \in DOMAIN rows : rows[k].ts <= now
      /\ Running => ended[sess] = None
  BY <1>0 DEF Dated, Alive
<1>3. QED
  BY <1>0, <1>1, <1>2, AwayGrows

\* What the last tick of the timer tells: it is no earlier than any suspend, it
\* is of now once the timer has run, and no later than a sleep without one; and
\* a suspend the pump was told of stays without an answer until it has woken.
Ticks ==
    /\ Running => pump.tick # None /\ \A k \in DOMAIN rows : Is(k, sess, "suspend") => rows[k].ts <= pump.tick
    /\ Running /\ power = "on" /\ pump.suspended => due
    /\ Running /\ power = "on" /\ ~due => pump.tick = now
    /\ Running /\ power = "asleep" /\ ~pump.suspended => pump.tick <= slept
    /\ Running /\ power # "on" /\ pump.suspended /\ gate = "open" /\ ~Recorded(sess) =>
          \E k \in DOMAIN rows : Is(k, sess, "suspend") /\ Unanswered(k, sess, "resume")
    /\ power = "suspending" /\ pump.cur # None => pump.cur.at = now
    /\ due => Running /\ power # "asleep"
    /\ pump.resumed # None => pump.tick # None /\ pump.resumed <= pump.tick

\* A step that neither ticks nor tells of a suspend or of its end.
LEMMA TicksStill ==
    ASSUME Base, Ticks, NEW new, Pumped(new), dirty \subseteq dirty',
           UNCHANGED <<power, slept, due>>,
           pump'.tick = pump.tick, pump'.suspended = pump.suspended, pump'.resumed = pump.resumed,
           \A r \in Range(new) : r.kind \notin {"suspend", "resume"},
           gate' = "open" => gate = "open" \/ power = "on"
    PROVE  Ticks'
<1>0. /\ Typed /\ now' = now /\ sess' = sess /\ new \in Seq(Entries) /\ rows' = rows \o new
      /\ pump'.cur = pump.cur \/ pump'.cur = None \/ pump'.cur.at = now
  BY DEF Base, Pumped
<1>1. \A k \in DOMAIN rows' : (k \in DOMAIN rows /\ rows'[k] = rows[k]) \/ rows'[k] \in Range(new)
  BY <1>0, Added
<1>2. Running' = Running
  BY <1>0 DEF Running
<1>3. Running' => pump'.tick # None /\ \A k \in DOMAIN rows' : Is(k, sess, "suspend")' => rows'[k].ts <= pump'.tick
  BY <1>0, <1>1, <1>2 DEF Ticks, Is
<1>4. Running' /\ power' # "on" /\ pump'.suspended /\ gate' = "open" /\ ~Recorded(sess)' =>
          \E k \in DOMAIN rows' : Is(k, sess, "suspend")' /\ Unanswered(k, sess, "resume")'
  <2> SUFFICES ASSUME Running', power' # "on", pump'.suspended, gate' = "open", ~Recorded(sess)'
               PROVE  \E k \in DOMAIN rows' : Is(k, sess, "suspend")' /\ Unanswered(k, sess, "resume")'
    OBVIOUS
  <2>1. Running /\ power # "on" /\ pump.suspended /\ gate = "open" /\ ~Recorded(sess)
    BY <1>0, <1>2 DEF Recorded
  <2>2. PICK k \in DOMAIN rows : Is(k, sess, "suspend") /\ Unanswered(k, sess, "resume")
    BY <2>1 DEF Ticks
  <2>3. WaitsOn(k, sess, "suspend", "resume")
    <3>1. Typed /\ Appends(new) /\ Lacks(new, "resume") /\ Waits(k, sess, "suspend", "resume")
      BY <1>0, <2>2 DEF Appends, Lacks, Waits
    <3>2. QED
      BY <3>1, StillUnanswered, Zenon
  <2>4. QED
    BY <1>0, <2>3 DEF Is, Unanswered, WaitsOn
<1>5. power' = "suspending" /\ pump'.cur # None => pump'.cur.at = now'
  BY <1>0 DEF Ticks
<1>6. /\ Running' /\ power' = "on" /\ pump'.suspended => due'
      /\ Running' /\ power' = "on" /\ ~due' => pump'.tick = now'
      /\ Running' /\ power' = "asleep" /\ ~pump'.suspended => pump'.tick <= slept'
      /\ due' => Running' /\ power' # "asleep"
      /\ pump'.resumed # None => pump'.tick # None /\ pump'.resumed <= pump'.tick
  BY <1>0, <1>2 DEF Ticks
<1>7. QED
  BY <1>3, <1>4, <1>5, <1>6 DEF Ticks

\* A step of a tick, which ends whatever sleep there was.
LEMMA TicksFresh ==
    ASSUME Base, Ticks, NEW new, Pumped(new), UNCHANGED power, power = "on", Running,
           pump'.tick = now, ~pump'.suspended,
           pump'.resumed \in {None, now, pump.resumed},
           due' => due
    PROVE  Ticks'
<1>0. /\ Typed /\ Dated /\ Inner /\ now' = now /\ sess' = sess /\ now \in Nat /\ pump \in Pumps
  BY BaseParts DEF Base, Pumped, Typed
<1>1. \A k \in DOMAIN rows' : rows'[k].ts <= now
  BY <1>0, InnerPumped DEF Inner
<1>2. Running' = Running
  BY <1>0 DEF Running
<1>3. pump'.resumed # None => pump'.resumed <= now
  <2>1. pump.resumed # None => pump.resumed <= now
    BY <1>0, PumpsAre DEF Ticks, Dated
  <2>2. QED
    BY <1>0, <2>1
<1>4. now # None
  BY <1>0, Absent
<1>5. Running' => pump'.tick # None /\ \A k \in DOMAIN rows' : Is(k, sess, "suspend")' => rows'[k].ts <= pump'.tick
  BY <1>1, <1>4
<1>6. /\ Running' /\ power' = "on" /\ pump'.suspended => due'
      /\ Running' /\ power' = "on" /\ ~due' => pump'.tick = now'
      /\ Running' /\ power' = "asleep" /\ ~pump'.suspended => pump'.tick <= slept'
      /\ due' => Running' /\ power' # "asleep"
      /\ pump'.resumed # None => pump'.tick # None /\ pump'.resumed <= pump'.tick
      /\ power' = "suspending" /\ pump'.cur # None => pump'.cur.at = now'
  BY <1>0, <1>2, <1>3, <1>4 DEF Ticks
<1>7. Running' /\ power' # "on" /\ pump'.suspended /\ gate' = "open" /\ ~Recorded(sess)' =>
          \E k \in DOMAIN rows' : Is(k, sess, "suspend")' /\ Unanswered(k, sess, "resume")'
  OBVIOUS
<1>8. QED
  BY <1>5, <1>6, <1>7 DEF Ticks

LEMMA TicksPumped ==
    ASSUME Base, Ticks,
           \/ Focus \/ Input \/ Timer \/ Suspend \/ Sleep \/ Wake \/ ResumeNotice \/ Lock \/ Unlock
           \/ Pause \/ Unpause \/ StartRecording \/ EndRecording \/ Reseed
    PROVE  Ticks'
<1>0. /\ Typed /\ Dated /\ Alive /\ Reseeding /\ pump \in Pumps /\ now \in Nat /\ now # None
      /\ dirty \subseteq dirty'
  BY DirtyNext, Absent DEF Base, Typed, Next
<1>1. CASE Focus
  <2>1. /\ UNCHANGED <<power, slept, due, gate>> /\ pump' = [pump EXCEPT !.cur = pump'.cur]
    BY <1>0, <1>1, FocusDoes
  <2>2. PICK new : Pumped(new) /\ Only(new, {"focus"})
    BY <1>0, <1>1, FocusDoes
  <2>3. pump'.tick = pump.tick /\ pump'.suspended = pump.suspended /\ pump'.resumed = pump.resumed
    BY <1>0, <2>1 DEF Pumps
  <2>4. \A r \in Range(new) : r.kind \notin {"suspend", "resume"}
    BY <2>2 DEF Only
  <2>5. QED
    BY <1>0, <2>1, <2>2, <2>3, <2>4, TicksStill
<1>2. CASE Input
  <2>1. /\ UNCHANGED <<power, slept, due, gate>>
        /\ pump' = [pump EXCEPT !.idle = pump.idle /\ ~(Running /\ front # None)]
    BY <1>0, <1>2, InputDoes
  <2>2. PICK new : Pumped(new) /\ Only(new, {"active"})
    BY <1>0, <1>2, InputDoes
  <2>3. pump'.tick = pump.tick /\ pump'.suspended = pump.suspended /\ pump'.resumed = pump.resumed
    BY <1>0, <2>1 DEF Pumps
  <2>4. \A r \in Range(new) : r.kind \notin {"suspend", "resume"}
    BY <2>2 DEF Only
  <2>5. QED
    BY <1>0, <2>1, <2>2, <2>3, <2>4, TicksStill
<1>3. CASE Timer
  <2>1. /\ Running /\ power = "on" /\ due' = FALSE /\ UNCHANGED power /\ pump' = Timed(pump)
    BY <1>0, <1>3, TimerDoes DEF world
  <2>2. PICK new : Pumped(new)
    BY <1>0, <1>3, TimerDoes
  <2>3. pump'.tick = now /\ ~pump'.suspended /\ pump'.resumed \in {None, now, pump.resumed}
    BY <1>0, <2>1 DEF Pumps, Timed
  <2>4. QED
    BY <2>1, <2>2, <2>3, TicksFresh
<1>4. CASE Suspend
  <2>1. /\ Running /\ power' = "suspending" /\ UNCHANGED <<due, gate>> /\ power = "on"
        /\ pump' = [pump EXCEPT !.cur = None, !.suspended = TRUE, !.resumed = None, !.tick = now]
    BY <1>0, <1>4, SuspendDoes DEF Free
  <2>2. PICK new : Pumped(new) /\ Sends(new, "suspend")
    BY <1>0, <1>4, SuspendDoes
  <2>3. pump'.tick = now /\ pump'.suspended /\ pump'.resumed = None /\ pump'.cur = None
    BY <1>0, <2>1 DEF Pumps
  <2>4. /\ now' = now /\ sess' = sess /\ new \in Seq(Entries) /\ rows' = rows \o new
        /\ \A r \in Range(new) : r.sess = sess /\ r.ts = now
    BY <2>2 DEF Pumped
  <2>5. \A k \in DOMAIN rows' : rows'[k].ts <= now
    BY <2>2, <2>4, InnerPumped DEF Inner
  <2>6. gate = "open" => \E k \in DOMAIN rows' : Is(k, sess, "suspend")' /\ Unanswered(k, sess, "resume")'
    <3> SUFFICES ASSUME gate = "open"
                 PROVE  \E k \in DOMAIN rows' : Is(k, sess, "suspend")' /\ Unanswered(k, sess, "resume")'
      OBVIOUS
    <3>1. PICK r \in Range(new) : r.kind = "suspend"
      BY <2>2 DEF Sends
    <3>2. PICK k \in DOMAIN rows' : rows'[k] = r
      BY <1>0, <2>4, Added
    <3>3. QED
      BY <2>4, <2>5, <3>1, <3>2 DEF Is, Unanswered
  <2>7. Running'
    BY <2>1, <2>4 DEF Running
  <2>8. QED
    BY <1>0, <2>1, <2>3, <2>4, <2>5, <2>6, <2>7 DEF Ticks
<1>5. CASE Sleep
  <2>1. /\ power = "suspending" \/ (power = "on" /\ Free)
        /\ power' = "asleep" /\ slept' = now /\ due' = FALSE
        /\ UNCHANGED <<now, pump, gate, rows, sess>>
    BY <1>0, <1>5, SleepDoes
  <2>2. pump.tick # None => pump.tick <= now
    BY <1>0 DEF Dated
  <2>3. power = "on" => ~(Running /\ pump.suspended)
    BY <2>1 DEF Free, Unaware, Ticks
  <2>4. Running' = Running /\ (Recorded(sess) => Recorded(sess)')
    BY <1>0, <2>1 DEF Running, Recorded
  <2>5. /\ Is(1, sess, "suspend")' = Is(1, sess, "suspend")
        /\ \A k : Is(k, sess, "suspend")' = Is(k, sess, "suspend")
        /\ \A k : Unanswered(k, sess, "resume")' = Unanswered(k, sess, "resume")
    BY <2>1 DEF Is, Unanswered
  <2>6. Running' /\ power' # "on" /\ pump'.suspended /\ gate' = "open" /\ ~Recorded(sess)' =>
          \E k \in DOMAIN rows' : Is(k, sess, "suspend")' /\ Unanswered(k, sess, "resume")'
    BY <2>1, <2>3, <2>4, <2>5 DEF Ticks
  <2>7. /\ Running' => pump'.tick # None /\ \A k \in DOMAIN rows' : Is(k, sess, "suspend")' => rows'[k].ts <= pump'.tick
        /\ pump'.resumed # None => pump'.tick # None /\ pump'.resumed <= pump'.tick
    BY <2>1, <2>4, <2>5 DEF Ticks
  <2>8. Running' /\ power' = "asleep" /\ ~pump'.suspended => pump'.tick <= slept'
    BY <2>1, <2>2, <2>4 DEF Ticks
  <2>9. QED
    BY <2>1, <2>6, <2>7, <2>8 DEF Ticks
<1>6. CASE Wake
  <2>1. /\ power = "asleep" /\ power' = "on" /\ due' = Running
        /\ UNCHANGED <<now, pump, rows, sess>>
    BY <1>0, <1>6, WakeDoes
  <2>2. Running' = Running
    BY <2>1 DEF Running
  <2>3. due' <=> Running
    BY <2>1 DEF Running
  <2>4. /\ Running' => pump'.tick # None /\ \A k \in DOMAIN rows' : Is(k, sess, "suspend")' => rows'[k].ts <= pump'.tick
        /\ pump'.resumed # None => pump'.tick # None /\ pump'.resumed <= pump'.tick
    BY <2>1, <2>2 DEF Ticks, Is
  <2>5. QED
    BY <2>1, <2>2, <2>3, <2>4 DEF Ticks
<1>7. CASE ResumeNotice
  <2>1. /\ power = "on" /\ UNCHANGED <<power, slept, due, gate, sess, now>>
        /\ pump' = IF ~Running THEN pump
                   ELSE IF Anew(pump) THEN Woken(pump) ELSE [pump EXCEPT !.tick = now]
    BY <1>0, <1>7, ResumeNoticeDoes DEF world
  <2>2. PICK new : Pumped(new)
    BY <1>0, <1>7, ResumeNoticeDoes
  <2>3. CASE Running
    <3>1. pump'.tick = now /\ ~pump'.suspended /\ pump'.resumed \in {None, now, pump.resumed}
      BY <1>0, <2>1, <2>3 DEF Pumps, Woken, Anew
    <3>2. QED
      BY <2>1, <2>2, <2>3, <3>1, TicksFresh
  <2>4. CASE ~Running
    <3>1. pump' = pump /\ ~Running' /\ due' = due /\ power' = power /\ pump.resumed = None
      BY <1>0, <2>1, <2>4, FreshIs DEF Running, Alive
    <3>2. QED
      BY <2>1, <2>4, <3>1 DEF Ticks
  <2>5. QED
    BY <2>3, <2>4
<1>8. CASE Lock
  <2>1. /\ UNCHANGED <<power, slept, due, gate>> /\ pump' = [pump EXCEPT !.cur = None]
    BY <1>0, <1>8, LockDoes
  <2>2. PICK new : Pumped(new) /\ Only(new, {"focus", "lock"})
    BY <1>0, <1>8, LockDoes
  <2>3. pump'.tick = pump.tick /\ pump'.suspended = pump.suspended /\ pump'.resumed = pump.resumed
    BY <1>0, <2>1 DEF Pumps
  <2>4. \A r \in Range(new) : r.kind \notin {"suspend", "resume"}
    BY <2>2 DEF Only
  <2>5. QED
    BY <1>0, <2>1, <2>2, <2>3, <2>4, TicksStill
<1>9. CASE Unlock
  <2>1. /\ UNCHANGED <<power, slept, due, gate>>
        /\ pump' = IF ~Running THEN pump ELSE [pump EXCEPT !.cur = [app |-> front', at |-> now]]
    BY <1>0, <1>9, UnlockDoes
  <2>2. PICK new : Pumped(new) /\ Only(new, {"focus"})
    BY <1>0, <1>9, UnlockDoes
  <2>3. pump'.tick = pump.tick /\ pump'.suspended = pump.suspended /\ pump'.resumed = pump.resumed
    BY <1>0, <2>1 DEF Pumps
  <2>4. \A r \in Range(new) : r.kind \notin {"suspend", "resume"}
    BY <2>2 DEF Only
  <2>5. QED
    BY <1>0, <2>1, <2>2, <2>3, <2>4, TicksStill
<1>10. CASE Pause
  <2>1. /\ UNCHANGED <<power, slept, due, pump>> /\ gate' = "paused"
    BY <1>0, <1>10, PauseDoes DEF world
  <2>2. PICK new : Pumped(new) /\ Only(new, {"paused"})
    BY <1>0, <1>10, PauseDoes
  <2>4. \A r \in Range(new) : r.kind \notin {"suspend", "resume"}
    BY <2>2 DEF Only
  <2>5. QED
    BY <1>0, <2>1, <2>2, <2>4, TicksStill
<1>11. CASE Unpause
  <2>1. /\ UNCHANGED <<power, slept, due, pump>> /\ power = "on"
    BY <1>0, <1>11, UnpauseDoes DEF world, Pressed
  <2>2. PICK new : Pumped(new) /\ Only(new, {"resumed"})
    BY <1>0, <1>11, UnpauseDoes
  <2>4. \A r \in Range(new) : r.kind \notin {"suspend", "resume"}
    BY <2>2 DEF Only
  <2>5. QED
    BY <1>0, <2>1, <2>2, <2>4, TicksStill
<1>12. CASE StartRecording \/ EndRecording
  <2>1. /\ UNCHANGED <<power, slept, due, pump>> /\ power = "on"
    BY <1>0, <1>12, StartRecordingDoes, EndRecordingDoes DEF world, Pressed
  <2>2. Pumped(<<>>)
    BY <1>0, <1>12, StartRecordingDoes, EndRecordingDoes
  <2>4. \A r \in Range(<<>>) : r.kind \notin {"suspend", "resume"}
    BY Nothing
  <2>5. QED
    BY <1>0, <2>1, <2>2, <2>4, TicksStill
<1>13. CASE Reseed
  <2>1. /\ Running /\ power = "on" /\ UNCHANGED <<power, due>>
        /\ ~pump'.suspended /\ pump'.resumed = None /\ pump'.tick = now
    BY <1>0, <1>13, ReseedDoes DEF world
  <2>2. PICK new : Pumped(new)
    BY <1>0, <1>13, ReseedDoes
  <2>3. QED
    BY <2>1, <2>2, TicksFresh
<1>14. QED
  BY <1>1, <1>2, <1>3, <1>4, <1>5, <1>6, <1>7, <1>8, <1>9, <1>10, <1>11, <1>12, <1>13

\* Ticks is inductive.
LEMMA TicksNext ==
    ASSUME Base, Sessions, Ticks, [Next]_vars
    PROVE  Ticks'
<1>0. /\ Typed /\ Dated /\ Alive /\ pump \in Pumps /\ now \in Nat /\ now # None
      /\ Running => sess \in DOMAIN ended
  BY EndedAre, Absent DEF Base, Typed, Alive, Running
<1>1. CASE Beat \/ UNCHANGED vars
  <2>1. UNCHANGED <<now, power, slept, due, pump, gate, rows, sess, dirty>>
    BY <1>1 DEF Beat, world, vars
  <2>2. QED
    BY <2>1 DEF Ticks, Running, Recorded, Is, Unanswered
<1>2. CASE Stop \/ Crash
  <2>1. sess' = 0 /\ pump' = Fresh0 /\ due' = FALSE
    BY <1>2 DEF Stop, Crash
  <2>2. QED
    BY <2>1, FreshIs DEF Ticks, Running
<1>3. CASE Start
  <2>1. /\ power = "on" /\ due' = TRUE /\ UNCHANGED <<now, power>>
        /\ sess' \notin DOMAIN ended /\ sess' # 0
        /\ ~pump'.suspended /\ pump'.resumed = None /\ pump'.tick = now
    BY <1>0, <1>3, StartDoes DEF world
  <2>2. PICK new : /\ new \in Seq(Entries) /\ rows' = rows \o new
                   /\ \A r \in Range(new) : r.kind = "focus"
    BY <1>0, <1>3, StartDoes
  <2>3. \A k \in DOMAIN rows' : ~(rows'[k].sess = sess' /\ rows'[k].kind = "suspend")
    <3>1. \A k \in DOMAIN rows' : (k \in DOMAIN rows /\ rows'[k] = rows[k]) \/ rows'[k] \in Range(new)
      BY <1>0, <2>2, Added
    <3>2. QED
      BY <2>1, <2>2, <3>1 DEF Sessions
  <2>4. QED
    BY <1>0, <2>1, <2>3 DEF Ticks, Running, Is
<1>4. CASE Tick
  <2>1. /\ now' = now + 1 /\ (Settled \/ power = "asleep") /\ due' = (Running /\ power = "on")
        /\ UNCHANGED <<power, slept, pump, gate, rows, sess, dirty>>
    BY <1>0, <1>4, TickDoes
  <2>2. Running' = Running /\ (due' <=> Running /\ power = "on")
    BY <2>1 DEF Running
  <2>3. power # "suspending"
    BY <2>1 DEF Settled
  <2>4. power = "on" => ~due
    BY <2>1 DEF Settled
  <2>5. /\ Running' => pump'.tick # None /\ \A k \in DOMAIN rows' : Is(k, sess, "suspend")' => rows'[k].ts <= pump'.tick
        /\ Running' /\ power' # "on" /\ pump'.suspended /\ gate' = "open" /\ ~Recorded(sess)' =>
              \E k \in DOMAIN rows' : Is(k, sess, "suspend")' /\ Unanswered(k, sess, "resume")'
    BY <2>1, <2>2 DEF Ticks, Is, Unanswered, Recorded
  <2>6. QED
    BY <2>1, <2>2, <2>3, <2>4, <2>5 DEF Ticks
<1>5. QED
  BY <1>1, <1>2, <1>3, <1>4, TicksPumped DEF Next

Absence(t) == ~past[t + 1].awake \/ past[t + 1].gate = "paused"

\* A unit slept, whose rows are not all there yet: the pump was told of the
\* suspend and not of its end, or has not yet seen that the ticks stopped.
Sleeping(t) ==
    /\ Running /\ past[t + 1].sess = sess /\ gate = "open" /\ ~reseed
    /\ \/ /\ pump.suspended /\ (power # "on" \/ due)
          /\ \E k : Waits(k, sess, "suspend", "resume") /\ rows[k].ts <= t
       \/ ~pump.suspended /\ pump.tick <= t /\ (power = "asleep" \/ (due /\ Missing(pump)))

\* A unit of the pause that lasts.
Pausing(t) ==
    /\ gate = "paused" /\ past[t + 1].sess = sess
    /\ \E k : Waits(k, sess, "paused", "resumed") /\ rows[k].ts <= t

LEMMA PausingStill ==
    ASSUME Base, NEW new, Pumped(new), gate' = gate, Lacks(new, "resumed"), NEW t, Pausing(t)
    PROVE  Pausing(t)'
<1>0. Typed /\ sess' = sess /\ past' = past /\ Appends(new)
  BY DEF Base, Pumped, Appends
<1>1. PICK k : Waits(k, sess, "paused", "resumed") /\ rows[k].ts <= t
  BY DEF Pausing
<1>2. WaitsOn(k, sess, "paused", "resumed")
  BY <1>0, <1>1, StillUnanswered, Zenon
<1>3. Waits(k, sess, "paused", "resumed")' /\ rows'[k].ts <= t
  BY <1>0, <1>1, <1>2 DEF Waits, WaitsOn, Is, Unanswered
<1>4. QED
  BY <1>0, <1>3 DEF Pausing

LEMMA SleepingStill ==
    ASSUME Base, NEW new, Pumped(new), UNCHANGED <<power, due, gate, reseed>>, Lacks(new, "resume"),
           pump'.tick = pump.tick, pump'.suspended = pump.suspended, NEW t, Sleeping(t)
    PROVE  Sleeping(t)'
<1>0. Typed /\ sess' = sess /\ past' = past /\ now' = now /\ Appends(new)
  BY DEF Base, Pumped, Appends
<1>1. Running' /\ past'[t + 1].sess = sess' /\ gate' = "open" /\ ~reseed'
  BY <1>0 DEF Sleeping, Running
<1>2. CASE pump.suspended /\ (power # "on" \/ due) /\ \E k : Waits(k, sess, "suspend", "resume") /\ rows[k].ts <= t
  <2>1. PICK k : Waits(k, sess, "suspend", "resume") /\ rows[k].ts <= t
    BY <1>2
  <2>2. WaitsOn(k, sess, "suspend", "resume")
    BY <1>0, <2>1, StillUnanswered, Zenon
  <2>3. Waits(k, sess, "suspend", "resume")' /\ rows'[k].ts <= t
    BY <1>0, <2>1, <2>2 DEF Waits, WaitsOn, Is, Unanswered
  <2>4. QED
    BY <1>1, <1>2, <2>3 DEF Sleeping
<1>3. CASE ~pump.suspended /\ pump.tick <= t /\ (power = "asleep" \/ (due /\ Missing(pump)))
  <2>1. Missing(pump) => Missing(pump)'
    BY <1>0 DEF Missing
  <2>2. QED
    BY <1>1, <1>3, <2>1 DEF Sleeping
<1>4. QED
  BY <1>2, <1>3 DEF Sleeping

\* Where something of Ops may happen, no sleep is waiting to be found.
LEMMA FreeIsAwake ==
    ASSUME Ticks, Free, power = "on", NEW t
    PROVE  ~Sleeping(t)
BY DEF Free, Unaware, Sleeping, Ticks

\* The resume row, or the recovered row, that a waking pump tells.
LEMMA SleepAnswered ==
    ASSUME Base, Ticks, [Next]_vars, NEW new, Pumped(new), power = "on",
           NEW t \in 0 .. now - 1, Sleeping(t),
           gate = "open" /\ pump.suspended => \E r \in Range(new) : r.kind = "resume",
           gate = "open" /\ Missing(pump) => \E r \in Range(new) : r.kind = "recovered" /\ r.dur = now - pump.tick,
           Lacks(new, "suspend")
    PROVE  t \in Away(sess)'
<1>0. /\ Typed /\ Dated /\ now \in Nat /\ pump \in Pumps /\ Running /\ gate = "open" /\ t \in Nat /\ t < now
      /\ None \notin Nat
  BY Absent DEF Base, Typed, Sleeping
<1>1. CASE pump.suspended
  <2>1. PICK k : Waits(k, sess, "suspend", "resume") /\ rows[k].ts <= t
    BY <1>1 DEF Sleeping
  <2>2. k \in DOMAIN rows /\ Is(k, sess, "suspend") /\ Unanswered(k, sess, "resume")
    BY <2>1 DEF Waits
  <2>3. rows[k].ts - rows[k].dur <= t /\ rows[k].ts < now
    <3>1. rows[k].ts \in Nat /\ rows[k].dur \in Nat
      BY <1>0, <2>2, RowsAre
    <3>2. QED
      BY <1>0, <2>1, <3>1
  <2>4. \E r \in Range(new) : r.kind = "resume"
    BY <1>0, <1>1
  <2>5. QED
    BY <1>0, <2>2, <2>3, <2>4, AnswersNow
<1>2. CASE ~pump.suspended
  <2>1. due /\ Missing(pump) /\ pump.tick <= t
    BY <1>2 DEF Sleeping
  <2>2. pump.tick \in Nat
    BY <1>0, <2>1, PumpsAre DEF Missing
  <2>3. \E r \in Range(new) : r.kind = "recovered" /\ r.dur = now - pump.tick
    BY <1>0, <2>1
  <2>4. \A j \in DOMAIN rows : Is(j, sess, "suspend") => rows[j].ts <= pump.tick
    BY <1>0 DEF Ticks
  <2>5. \A r \in Range(new) : r.kind # "suspend"
    BY DEF Lacks
  <2>6. \A tick \in Nat : tick = pump.tick => t \in Away(sess)'
    <3> SUFFICES ASSUME NEW tick \in Nat, tick = pump.tick PROVE t \in Away(sess)'
      OBVIOUS
    <3>1. /\ tick <= t /\ \E r \in Range(new) : r.kind = "recovered" /\ r.dur = now - tick
          /\ \A j \in DOMAIN rows : Is(j, sess, "suspend") => rows[j].ts <= tick
      BY <2>1, <2>3, <2>4
    <3>2. QED
      BY <1>0, <2>5, <3>1, RecoversNow
  <2>7. QED
    BY <2>2, <2>6
<1>3. QED
  BY <1>1, <1>2

\* What a step of a continuing session does for a unit: its rows take nothing
\* back, none comes while the machine sleeps, and what a row still lacks it gets
\* or goes on lacking.
Carried(new, t) ==
    /\ Pumped(new)
    /\ (\E r \in Range(new) : r.kind = "suspend") =>
           \A k \in DOMAIN rows : rows[k].kind = "recovered" => rows[k].ts < now
    /\ power = "asleep" => Range(new) = {}
    /\ Sleeping(t) => t \in Away(sess)' \/ (Sleeping(t)' /\ (power = "on" => power' = "on"))
    /\ Pausing(t) => t \in Away(sess)' \/ Pausing(t)'

LEMMA CarriedStill ==
    ASSUME Base, NEW new, Pumped(new), UNCHANGED <<power, due, gate, reseed>>, power # "asleep",
           Lacks(new, "resume"), Lacks(new, "resumed"), Lacks(new, "suspend"),
           pump'.tick = pump.tick, pump'.suspended = pump.suspended, NEW t
    PROVE  Carried(new, t)
BY SleepingStill, PausingStill DEF Carried, Lacks

\* Every step of the pump carries a sleep or a pause on, or closes its span.
LEMMA CarriedPumped ==
    ASSUME Base, Ticks, NEW t \in 0 .. now - 1,
           \/ Focus \/ Input \/ Timer \/ Suspend \/ Sleep \/ Wake \/ ResumeNotice \/ Lock \/ Unlock
           \/ Pause \/ Unpause \/ StartRecording \/ EndRecording \/ Reseed
    PROVE  \E new : Carried(new, t)
<1>0. /\ Typed /\ Dated /\ Alive /\ Reseeding /\ pump \in Pumps /\ now \in Nat /\ now # None
      /\ t \in Nat /\ t < now /\ [Next]_vars
  BY Absent DEF Base, Typed, Next
<1>1. CASE Focus
  <2>1. /\ UNCHANGED <<power, due, gate, reseed>> /\ pump' = [pump EXCEPT !.cur = pump'.cur] /\ power # "asleep"
    BY <1>0, <1>1, FocusDoes
  <2>2. PICK new : Pumped(new) /\ Only(new, {"focus"})
    BY <1>0, <1>1, FocusDoes
  <2>3. pump'.tick = pump.tick /\ pump'.suspended = pump.suspended
    BY <1>0, <2>1 DEF Pumps
  <2>4. Lacks(new, "resume") /\ Lacks(new, "resumed") /\ Lacks(new, "suspend")
    BY <2>2 DEF Only, Lacks
  <2>5. QED
    BY <2>1, <2>2, <2>3, <2>4, CarriedStill
<1>2. CASE Input
  <2>1. /\ UNCHANGED <<power, due, gate, reseed>> /\ power = "on"
        /\ pump' = [pump EXCEPT !.idle = pump.idle /\ ~(Running /\ front # None)]
    BY <1>0, <1>2, InputDoes
  <2>2. PICK new : Pumped(new) /\ Only(new, {"active"})
    BY <1>0, <1>2, InputDoes
  <2>3. pump'.tick = pump.tick /\ pump'.suspended = pump.suspended
    BY <1>0, <2>1 DEF Pumps
  <2>4. Lacks(new, "resume") /\ Lacks(new, "resumed") /\ Lacks(new, "suspend")
    BY <2>2 DEF Only, Lacks
  <2>5. QED
    BY <2>1, <2>2, <2>3, <2>4, CarriedStill
<1>3. CASE Timer
  <2>1. power = "on" /\ UNCHANGED gate
    BY <1>0, <1>3, TimerDoes
  <2>2. PICK new : /\ Pumped(new)
                   /\ \A r \in Range(new) : r.kind \in {"focus", "resume", "recovered", "idle", "active"}
                   /\ gate = "open" =>
                        /\ pump.suspended => \E r \in Range(new) : r.kind = "resume"
                        /\ Missing(pump) => \E r \in Range(new) : r.kind = "recovered" /\ r.dur = now - pump.tick
    <3>1. PICK new : /\ Pumped(new)
                     /\ \A r \in Range(new) :
                          \/ r.kind = "focus"
                          \/ r.kind = "resume" /\ pump.suspended
                          \/ r.kind = "recovered" /\ Missing(pump)
                          \/ r.kind = "idle" /\ r.dur = now - LastInput /\ Long
                          \/ r.kind = "active" /\ ~Long
                     /\ gate = "open" =>
                          /\ pump.suspended => \E r \in Range(new) : r.kind = "resume"
                          /\ Missing(pump) => \E r \in Range(new) : r.kind = "recovered" /\ r.dur = now - pump.tick
      BY <1>0, <1>3, TimerDoes
    <3>2. QED
      BY <3>1
  <2>3. Lacks(new, "resumed") /\ Lacks(new, "suspend")
    BY <2>2 DEF Lacks
  <2>4. Pausing(t) => Pausing(t)'
    BY <2>1, <2>2, <2>3, PausingStill
  <2>5. Sleeping(t) => t \in Away(sess)'
    BY <1>0, <2>1, <2>2, <2>3, SleepAnswered
  <2>6. QED
    BY <2>1, <2>2, <2>3, <2>4, <2>5 DEF Carried, Lacks
<1>4. CASE Suspend
  <2>1. Free /\ power = "on" /\ UNCHANGED gate
    BY <1>0, <1>4, SuspendDoes
  <2>2. PICK new : Pumped(new) /\ Only(new, {"focus", "suspend"})
    BY <1>0, <1>4, SuspendDoes
  <2>3. Lacks(new, "resumed")
    BY <2>2 DEF Only, Lacks
  <2>4. Pausing(t) => Pausing(t)'
    BY <2>1, <2>2, <2>3, PausingStill
  <2>5. ~Sleeping(t)
    BY <2>1, FreeIsAwake
  <2>6. QED
    BY <2>1, <2>2, <2>4, <2>5 DEF Carried, Free
<1>5. CASE Sleep
  <2>1. /\ power = "suspending" \/ (power = "on" /\ Free)
        /\ power' = "asleep" /\ UNCHANGED <<now, past, pump, gate, reseed, rows, sess>>
        /\ Pumped(<<>>)
    BY <1>0, <1>5, SleepDoes
  <2>2. power = "on" => ~Sleeping(t)
    BY <2>1, FreeIsAwake
  <2>3. Sleeping(t) => Sleeping(t)'
    <3>1. \A k : Waits(k, sess, "suspend", "resume") => Waits(k, sess, "suspend", "resume")'
      BY <2>1 DEF Waits, Is, Unanswered
    <3>2. QED
      BY <2>1, <2>2, <3>1 DEF Sleeping, Running
  <2>4. Range(<<>>) = {} /\ Lacks(<<>>, "resumed")
    BY Nothing DEF Lacks
  <2>5. Pausing(t) => Pausing(t)'
    BY <2>1, <2>4, PausingStill
  <2>6. QED
    BY <2>1, <2>2, <2>3, <2>4, <2>5 DEF Carried
<1>6. CASE Wake
  <2>1. /\ power = "asleep" /\ (Running /\ ~pump.suspended => now > slept + Gap)
        /\ power' = "on" /\ due' = Running
        /\ UNCHANGED <<now, past, pump, gate, reseed, rows, sess>>
        /\ Pumped(<<>>)
    BY <1>0, <1>6, WakeDoes
  <2>2. Sleeping(t) => Sleeping(t)'
    <3> SUFFICES ASSUME Sleeping(t) PROVE Sleeping(t)'
      OBVIOUS
    <3>1. \A k : Waits(k, sess, "suspend", "resume") => Waits(k, sess, "suspend", "resume")'
      BY <2>1 DEF Waits, Is, Unanswered
    <3>2. Running /\ Running' /\ due'
      BY <2>1 DEF Sleeping, Running
    <3>3. CASE pump.suspended
      BY <2>1, <3>1, <3>2, <3>3 DEF Sleeping
    <3>4. CASE ~pump.suspended
      <4>1. pump.tick # None /\ pump.tick \in Nat /\ pump.tick <= slept /\ slept \in Nat
        BY <1>0, <2>1, <3>2, <3>4, PumpsAre DEF Ticks, Typed
      <4>2. now - pump.tick > Gap
        BY <1>0, <2>1, <3>2, <3>4, <4>1 DEF Gap
      <4>3. Missing(pump)'
        BY <2>1, <3>4, <4>1, <4>2 DEF Missing
      <4>4. QED
        BY <2>1, <3>2, <3>4, <4>3 DEF Sleeping
    <3>5. QED
      BY <3>3, <3>4
  <2>4. Range(<<>>) = {} /\ Lacks(<<>>, "resumed")
    BY Nothing DEF Lacks
  <2>5. Pausing(t) => Pausing(t)'
    BY <2>1, <2>4, PausingStill
  <2>6. QED
    BY <2>1, <2>2, <2>4, <2>5 DEF Carried
<1>7. CASE ResumeNotice
  <2>1. power = "on" /\ UNCHANGED gate
    BY <1>0, <1>7, ResumeNoticeDoes
  <2>2. PICK new : /\ Pumped(new)
                   /\ \A r \in Range(new) : r.kind \in {"focus", "resume", "recovered"}
                   /\ Running /\ gate = "open" /\ Anew(pump) =>
                        /\ \E r \in Range(new) : r.kind = "resume"
                        /\ Missing(pump) => \E r \in Range(new) : r.kind = "recovered" /\ r.dur = now - pump.tick
    <3>1. PICK new : /\ Pumped(new)
                     /\ \A r \in Range(new) :
                          \/ r.kind \in {"focus", "resume"}
                          \/ r.kind = "recovered" /\ Missing(pump)
                     /\ Running /\ gate = "open" /\ Anew(pump) =>
                          /\ \E r \in Range(new) : r.kind = "resume"
                          /\ Missing(pump) => \E r \in Range(new) : r.kind = "recovered" /\ r.dur = now - pump.tick
      BY <1>0, <1>7, ResumeNoticeDoes
    <3>2. QED
      BY <3>1
  <2>3. Lacks(new, "resumed") /\ Lacks(new, "suspend")
    BY <2>2 DEF Lacks
  <2>4. Pausing(t) => Pausing(t)'
    BY <2>1, <2>2, <2>3, PausingStill
  <2>5. Sleeping(t) => t \in Away(sess)'
    <3> SUFFICES ASSUME Sleeping(t) PROVE t \in Away(sess)'
      OBVIOUS
    <3>1. Running
      BY DEF Sleeping
    <3>2. pump.suspended \/ Missing(pump) => Anew(pump)
      <4>1. CASE pump.suspended
        BY <4>1 DEF Anew
      <4>2. CASE Missing(pump)
        <5>1. pump.tick \in Nat /\ now - pump.tick > 1
          BY <1>0, <4>2, PumpsAre DEF Missing, Gap
        <5>2. pump.resumed # None => pump.resumed <= pump.tick
          BY DEF Ticks
        <5>3. pump.resumed # now
          BY <1>0, <5>1, <5>2
        <5>4. QED
          BY <5>3 DEF Anew
      <4>3. QED
        BY <4>1, <4>2
    <3>3. /\ gate = "open" /\ pump.suspended => \E r \in Range(new) : r.kind = "resume"
          /\ gate = "open" /\ Missing(pump) => \E r \in Range(new) : r.kind = "recovered" /\ r.dur = now - pump.tick
      BY <2>2, <3>1, <3>2
    <3>4. QED
      BY <1>0, <2>1, <2>2, <2>3, <3>3, SleepAnswered
  <2>6. QED
    BY <2>1, <2>2, <2>3, <2>4, <2>5 DEF Carried, Lacks
<1>8. CASE Lock
  <2>1. Free /\ power = "on" /\ UNCHANGED gate
    BY <1>0, <1>8, LockDoes
  <2>2. PICK new : Pumped(new) /\ Only(new, {"focus", "lock"})
    BY <1>0, <1>8, LockDoes
  <2>3. Lacks(new, "resumed") /\ Lacks(new, "suspend")
    BY <2>2 DEF Only, Lacks
  <2>4. Pausing(t) => Pausing(t)'
    BY <2>1, <2>2, <2>3, PausingStill
  <2>5. ~Sleeping(t)
    BY <2>1, FreeIsAwake
  <2>6. QED
    BY <2>1, <2>2, <2>3, <2>4, <2>5 DEF Carried, Lacks
<1>9. CASE Unlock
  <2>1. /\ UNCHANGED <<power, due, gate, reseed>> /\ power = "on"
        /\ pump' = IF ~Running THEN pump ELSE [pump EXCEPT !.cur = [app |-> front', at |-> now]]
    BY <1>0, <1>9, UnlockDoes
  <2>2. PICK new : Pumped(new) /\ Only(new, {"focus"})
    BY <1>0, <1>9, UnlockDoes
  <2>3. pump'.tick = pump.tick /\ pump'.suspended = pump.suspended
    BY <1>0, <2>1 DEF Pumps
  <2>4. Lacks(new, "resume") /\ Lacks(new, "resumed") /\ Lacks(new, "suspend")
    BY <2>2 DEF Only, Lacks
  <2>5. QED
    BY <2>1, <2>2, <2>3, <2>4, CarriedStill
<1>10. CASE Pause \/ StartRecording
  <2>1. Free /\ power = "on" /\ gate = "open"
    BY <1>0, <1>10, PauseDoes, StartRecordingDoes DEF Pressed
  <2>2. \E new : Pumped(new) /\ Lacks(new, "suspend")
    <3>1. CASE Pause
      <4>1. PICK new : Pumped(new) /\ Only(new, {"paused"})
        BY <1>0, <3>1, PauseDoes
      <4>2. QED
        BY <4>1 DEF Only, Lacks
    <3>2. CASE StartRecording
      BY <1>0, <3>2, StartRecordingDoes, Nothing DEF Lacks
    <3>3. QED
      BY <1>10, <3>1, <3>2
  <2>3. ~Sleeping(t) /\ ~Pausing(t)
    BY <2>1, FreeIsAwake DEF Pausing
  <2>4. QED
    BY <2>1, <2>2, <2>3 DEF Carried, Lacks
<1>11. CASE Unpause
  <2>1. power = "on" /\ gate = "paused"
    BY <1>0, <1>11, UnpauseDoes DEF Pressed
  <2>2. PICK new : Pumped(new) /\ Only(new, {"resumed"}) /\ \E r \in Range(new) : r.kind = "resumed"
    BY <1>0, <1>11, UnpauseDoes
  <2>3. Pausing(t) => t \in Away(sess)'
    <3> SUFFICES ASSUME Pausing(t) PROVE t \in Away(sess)'
      OBVIOUS
    <3>1. PICK k : Waits(k, sess, "paused", "resumed") /\ rows[k].ts <= t
      BY DEF Pausing
    <3>2. k \in DOMAIN rows /\ Is(k, sess, "paused") /\ Unanswered(k, sess, "resumed")
      BY <3>1 DEF Waits
    <3>3. rows[k].ts - rows[k].dur <= t /\ rows[k].ts < now
      <4>1. rows[k].ts \in Nat /\ rows[k].dur \in Nat
        BY <1>0, <3>2, RowsAre
      <4>2. QED
        BY <1>0, <3>1, <4>1
    <3>4. QED
      BY <1>0, <2>2, <3>2, <3>3, AnswersNow
  <2>4. Lacks(new, "suspend") /\ ~Sleeping(t)
    BY <2>1, <2>2 DEF Only, Lacks, Sleeping
  <2>5. QED
    BY <2>1, <2>2, <2>3, <2>4 DEF Carried, Lacks
<1>12. CASE EndRecording
  <2>1. power = "on" /\ gate = "recording" /\ Pumped(<<>>)
    BY <1>0, <1>12, EndRecordingDoes
  <2>2. ~Sleeping(t) /\ ~Pausing(t) /\ Range(<<>>) = {}
    BY <2>1, Nothing DEF Sleeping, Pausing
  <2>3. QED
    BY <2>1, <2>2 DEF Carried
<1>13. CASE Reseed
  <2>1. reseed /\ power = "on" /\ UNCHANGED gate
    BY <1>0, <1>13, ReseedDoes
  <2>2. PICK new : Pumped(new) /\ Only(new, {"focus"})
    BY <1>0, <1>13, ReseedDoes
  <2>3. Lacks(new, "resumed") /\ Lacks(new, "suspend")
    BY <2>2 DEF Only, Lacks
  <2>4. Pausing(t) => Pausing(t)'
    BY <2>1, <2>2, <2>3, PausingStill
  <2>5. ~Sleeping(t)
    BY <2>1 DEF Sleeping
  <2>6. QED
    BY <2>1, <2>2, <2>3, <2>4, <2>5 DEF Carried, Lacks
<1>14. QED
  BY <1>1, <1>2, <1>3, <1>4, <1>5, <1>6, <1>7, <1>8, <1>9, <1>10, <1>11, <1>12, <1>13

\* While capture is paused nothing is stored.
LEMMA ShutIsQuiet ==
    ASSUME Base, [Next]_vars, gate = "paused", gate' = "paused"
    PROVE  rows' = rows /\ sess' = sess /\ inputs \subseteq inputs'
<1>0. rows \o <<>> = rows
  BY Nothing DEF Base, Typed
<1>1. \A new : Send(new) => rows' = rows
  BY <1>0 DEF Send, StoreAll
<1>2. \A o : Became(o) => rows' = rows
  BY <1>1 DEF Became
<1>3. \A o : Told(o) => rows' = rows
  BY <1>2 DEF Told
<1>4. CASE Focus
  BY <1>2, <1>4 DEF Focus
<1>5. CASE Input
  BY <1>2, <1>5 DEF Input
<1>6. CASE Timer
  BY <1>2, <1>6 DEF Timer, world
<1>7. CASE Reseed
  BY <1>2, <1>7 DEF Reseed, world
<1>8. CASE Suspend
  BY <1>3, <1>8 DEF Suspend
<1>9. CASE Lock
  BY <1>3, <1>9 DEF Lock
<1>10. CASE Unlock
  BY <1>3, <1>10 DEF Unlock
<1>11. CASE ResumeNotice
  BY <1>3, <1>11 DEF ResumeNotice, world
<1>12. CASE Sleep \/ Wake \/ Beat \/ Tick \/ UNCHANGED vars
  BY <1>12 DEF Sleep, Wake, Beat, Tick, vars, world
<1>13. CASE Pause \/ Unpause \/ StartRecording \/ EndRecording \/ Stop \/ Crash
  BY <1>13 DEF Pause, Unpause, StartRecording, EndRecording, Stop, Crash
<1>14. CASE Start
  BY <1>14 DEF Start, Base, Alive
<1>15. QED
  BY <1>4, <1>5, <1>6, <1>7, <1>8, <1>9, <1>10, <1>11, <1>12, <1>13, <1>14 DEF Next

\* The row of the pause that lasts: at the user's press, and of all its time.
Paused ==
    gate = "paused" => \E k :
        /\ Waits(k, sess, "paused", "resumed") /\ rows[k].ts \in inputs
        /\ \A t \in rows[k].ts .. now - 1 : past[t + 1].gate = "paused"

\* Paused is inductive: the row of the pause waits for its end.
LEMMA PausedNext ==
    ASSUME Base, Paused, [Next]_vars
    PROVE  Paused'
<1>0. Typed /\ Dated /\ Alive /\ now \in Nat /\ Inner'
  BY InnerNext DEF Base, Typed
<1> SUFFICES ASSUME gate' = "paused"
             PROVE  \E k : /\ Waits(k, sess, "paused", "resumed")' /\ rows'[k].ts \in inputs'
                           /\ \A t \in rows'[k].ts .. now' - 1 : past'[t + 1].gate = "paused"
  BY DEF Paused
<1>1. CASE gate = "paused"
  <2>1. rows' = rows /\ sess' = sess /\ inputs \subseteq inputs'
    BY <1>1, ShutIsQuiet
  <2>2. PICK k : /\ Waits(k, sess, "paused", "resumed") /\ rows[k].ts \in inputs
                 /\ \A t \in rows[k].ts .. now - 1 : past[t + 1].gate = "paused"
    BY <1>1 DEF Paused
  <2>3. Waits(k, sess, "paused", "resumed")'
    BY <2>1, <2>2 DEF Waits, Is, Unanswered
  <2>4. \A t \in rows[k].ts .. now' - 1 : past'[t + 1].gate = "paused"
    <3>1. CASE UNCHANGED <<now, past>>
      BY <2>2, <3>1
    <3>2. CASE Tick
      <4>1. /\ now' = now + 1 /\ past'[now + 1].gate = gate
            /\ \A t \in 0 .. now - 1 : past'[t + 1] = past[t + 1]
        BY <1>0, <3>2, TickDoes
      <4>2. rows[k].ts \in Nat
        BY <1>0, <2>2, RowsAre DEF Waits
      <4>3. \A t \in rows[k].ts .. now' - 1 : t = now \/ (t \in 0 .. now - 1 /\ t \in rows[k].ts .. now - 1)
        BY <1>0, <4>1, <4>2
      <4>4. QED
        BY <1>1, <2>2, <4>1, <4>3
    <3>3. UNCHANGED <<now, past>> \/ Tick
      BY PumpedSteps, <1>0, BeatDoes, StopDoes, CrashDoes, StartDoes DEF Pumped, world
    <3>4. QED
      BY <3>1, <3>2, <3>3
  <2>5. QED
    BY <2>1, <2>2, <2>3, <2>4
<1>2. CASE gate # "paused"
  <2>1. Pause
    <3>1. CASE Unpause \/ StartRecording \/ EndRecording \/ Stop \/ Crash
      BY <3>1 DEF Unpause, StartRecording, EndRecording, Stop, Crash
    <3>2. CASE Focus \/ Input \/ Timer \/ Suspend \/ Sleep \/ Wake \/ ResumeNotice \/ Lock \/ Unlock
      BY <1>2, <3>2 DEF Focus, Input, Timer, Suspend, Sleep, Wake, ResumeNotice, Lock, Unlock
    <3>3. CASE Reseed \/ Beat \/ Start \/ Tick \/ UNCHANGED vars
      BY <1>2, <3>3 DEF Reseed, Beat, Start, Tick, vars
    <3>4. QED
      BY <3>1, <3>2, <3>3 DEF Next
  <2>2. /\ UNCHANGED <<inputs, now, past, sess>> /\ now \in inputs
    BY <1>0, <2>1, PauseDoes DEF world, Pressed
  <2>3. PICK new : Pumped(new) /\ Sends(new, "paused")
    BY <1>0, <2>1, PauseDoes
  <2>4. gate = "open"
    BY <2>1 DEF Pause
  <2>5. PICK r \in Range(new) : r.kind = "paused"
    BY <2>3, <2>4 DEF Sends
  <2>6. /\ new \in Seq(Entries) /\ rows' = rows \o new /\ r.sess = sess /\ r.ts = now
    BY <2>3 DEF Pumped
  <2>7. PICK k \in DOMAIN rows' : rows'[k] = r
    BY <1>0, <2>6, Added
  <2>8. \A j \in DOMAIN rows' : rows'[j].ts <= now
    BY <1>0, <2>2 DEF Inner
  <2>9. Waits(k, sess, "paused", "resumed")'
    BY <2>2, <2>5, <2>6, <2>7, <2>8 DEF Waits, Is, Unanswered
  <2>10. \A t \in rows'[k].ts .. now' - 1 : past'[t + 1].gate = "paused"
    BY <1>0, <2>2, <2>6, <2>7
  <2>11. QED
    BY <2>2, <2>6, <2>7, <2>9, <2>10
<1>3. QED
  BY <1>1, <1>2

\* The unit is in a completed dwell, or in the open row.
Shown(t) ==
    \/ \E i \in DOMAIN rows : Dwelt(rows[i]) /\ t \in rows[i].ts - rows[i].dur .. rows[i].ts - 1
    \/ open.row # None /\ t \in open.row.start .. open.row.high - 1

\* The unit is in the pump's segment.
Going(t) == pump.cur # None /\ pump.cur.at <= t

\* The time of a sleep or a pause that reached a dwell or the open row is away,
\* but for the moment before the pump has found it, and the time that will reach
\* one is away or known to be missing.
Covered ==
    \A t \in 0 .. now - 1 : \A s : s = past[t + 1].sess /\ ~Recorded(s) /\ Absence(t) =>
        /\ Shown(t) => t \in Away(s) \/ (power = "on" /\ Sleeping(t))
        /\ Going(t) => t \in Away(s) \/ Sleeping(t) \/ Pausing(t)

\* A dwell that is new is of the time of the pump's segment, and there is none
\* while the machine sleeps.
LEMMA ShownNow ==
    ASSUME Base, Ticks, NEW new, Appends(new), NEW t \in 0 .. now - 1,
           power = "asleep" => Range(new) = {},
           \A r \in Range(new) :
              /\ r.ts = now
              /\ Dwelt(r) => /\ gate = "open"
                             /\ r.dur = 0 \/ (pump.cur # None /\ r.prev = pump.cur.app /\ r.dur <= now - pump.cur.at),
           open'.row = None \/ open' = open, Shown(t)'
    PROVE  Shown(t) \/ (Going(t) /\ gate = "open" /\ power = "on")
<1>0. /\ Typed /\ Dated /\ now \in Nat /\ pump \in Pumps /\ t \in Nat /\ t < now
      /\ pump.cur # None => pump.cur.at \in Nat
  BY PumpsAre DEF Base, Typed
<1>1. CASE open'.row # None /\ t \in open'.row.start .. open'.row.high - 1
  BY <1>1 DEF Shown
<1>2. ASSUME NEW i \in DOMAIN rows', Dwelt(rows'[i]), t \in rows'[i].ts - rows'[i].dur .. rows'[i].ts - 1
      PROVE  Shown(t) \/ (Going(t) /\ gate = "open" /\ power = "on")
  <2>1. CASE i \in DOMAIN rows /\ rows'[i] = rows[i]
    BY <1>2, <2>1 DEF Shown
  <2>2. CASE rows'[i] \in Range(new)
    <3>1. rows'[i].ts = now /\ gate = "open"
      BY <1>2, <2>2
    <3>2. rows'[i].dur \in Nat
      <4>1. rows'[i] \in Entries
        BY <2>2, RangeIn DEF Appends
      <4>2. QED
        BY <4>1 DEF Entries
    <3>3. rows'[i].dur # 0
      BY <1>0, <1>2, <3>1, <3>2
    <3>4. pump.cur # None /\ rows'[i].dur <= now - pump.cur.at
      BY <1>2, <2>2, <3>3
    <3>5. pump.cur.at <= t
      BY <1>0, <1>2, <3>1, <3>2, <3>4
    <3>6. power # "suspending"
      BY <1>0, <3>4, <3>5 DEF Ticks
    <3>7. power \in {"on", "suspending", "asleep"} /\ power # "asleep"
      BY <1>0, <2>2 DEF Typed
    <3>8. QED
      BY <3>1, <3>4, <3>5, <3>6, <3>7 DEF Going
  <2>3. (i \in DOMAIN rows /\ rows'[i] = rows[i]) \/ rows'[i] \in Range(new)
    BY <1>0, Added DEF Appends
  <2>4. QED
    BY <2>1, <2>2, <2>3
<1>3. QED
  BY <1>1, <1>2 DEF Shown

LEMMA AwayOf ==
    ASSUME NEW s, s = sess'
    PROVE  Away(s)' = Away(sess)'
BY DEF Away, Asleep, Paired, PairedSpan, EndOf, OfKind, RecoveredSpan

LEMMA ShownIn ==
    ASSUME Base, Sessions, Current, Stored, NEW t \in 0 .. now - 1
    PROVE  /\ Shown(t) => past[t + 1].sess \in DOMAIN ended
           /\ Going(t) => past[t + 1].sess = sess /\ Running /\ sess \in DOMAIN ended
<1>0. /\ Typed /\ Alive /\ Dated /\ pump \in Pumps /\ now \in Nat
      /\ Running => sess \in DOMAIN ended
  BY EndedAre DEF Base, Alive, Running, Typed
<1>1. Shown(t) => past[t + 1].sess \in DOMAIN ended
  BY DEF Shown, Stored, Current, Sessions
<1>2. Going(t) => past[t + 1].sess = sess /\ Running
  <2> SUFFICES ASSUME Going(t) PROVE past[t + 1].sess = sess /\ Running
    OBVIOUS
  <2>1. pump.cur # None /\ pump.cur.at <= t /\ pump.cur.at \in Nat
    BY <1>0, PumpsAre DEF Going
  <2>2. t \in pump.cur.at .. now - 1
    BY <1>0, <2>1
  <2>3. Running
    BY <1>0, <2>1, FreshIs DEF Alive
  <2>4. QED
    BY <2>1, <2>2, <2>3 DEF Current
<1>3. QED
  BY <1>0, <1>1, <1>2

LEMMA CoveredPumped ==
    ASSUME Base, Sessions, Current, Stored, Ticks, Covered, [Next]_vars,
           NEW t \in 0 .. now - 1, NEW new, Carried(new, t),
           NEW s, s = past'[t + 1].sess, ~Recorded(s)', Absence(t)'
    PROVE  /\ Shown(t)' => t \in Away(s)' \/ (power' = "on" /\ Sleeping(t)')
           /\ Going(t)' => t \in Away(s)' \/ Sleeping(t)' \/ Pausing(t)'
<1>0. /\ Pumped(new) /\ UNCHANGED <<now, past, sess, ended>> /\ Appends(new) /\ now \in Nat
      /\ Typed /\ pump \in Pumps
  BY DEF Carried, Pumped, Appends, Base, Typed
<1>1. s = past[t + 1].sess /\ ~Recorded(s) /\ Absence(t)
  <2>1. Recorded(s) => Recorded(s)'
    BY DirtyNext
  <2>2. QED
    BY <1>0, <2>1 DEF Absence
<1>2. /\ Shown(t) => t \in Away(s) \/ (power = "on" /\ Sleeping(t))
      /\ Going(t) => t \in Away(s) \/ Sleeping(t) \/ Pausing(t)
  BY <1>1 DEF Covered
<1>3. s \in DOMAIN ended /\ t \in Away(s) => t \in Away(s)'
  BY <1>0, AwayPumped DEF Carried
<1>4. Sleeping(t) \/ Pausing(t) => s = sess'
  BY <1>0, <1>1 DEF Sleeping, Pausing
<1>5. Sleeping(t) => t \in Away(s)' \/ (Sleeping(t)' /\ (power = "on" => power' = "on"))
  <2>1. s = sess' => Away(s)' = Away(sess)'
    BY AwayOf
  <2>2. QED
    BY <1>4, <2>1 DEF Carried
<1>6. Pausing(t) => t \in Away(s)' \/ Pausing(t)'
  <2>1. s = sess' => Away(s)' = Away(sess)'
    BY AwayOf
  <2>2. QED
    BY <1>4, <2>1 DEF Carried
<1>7. Shown(t)' => Shown(t) \/ (Going(t) /\ gate = "open" /\ power = "on")
  <2>1. /\ \A r \in Range(new) :
              /\ r.ts = now
              /\ Dwelt(r) => /\ gate = "open"
                             /\ r.dur = 0 \/ (pump.cur # None /\ r.prev = pump.cur.app /\ r.dur <= now - pump.cur.at)
        /\ open'.row = None \/ open' = open
    BY <1>0 DEF Pumped, Opened
  <2>2. power = "asleep" => Range(new) = {}
    BY DEF Carried
  <2>3. QED
    BY <1>0, <2>1, <2>2, ShownNow
<1>8. Going(t)' => Going(t)
  <2>1. pump'.cur = pump.cur \/ pump'.cur = None \/ pump'.cur.at = now
    BY <1>0 DEF Pumped
  <2>2. QED
    BY <1>0, <2>1 DEF Going
<1>9. gate = "open" => ~Pausing(t)
  BY DEF Pausing
<1>10. (Shown(t) \/ Going(t)) => s \in DOMAIN ended
  BY <1>1, ShownIn
<1>11. ASSUME Shown(t)' PROVE t \in Away(s)' \/ (power' = "on" /\ Sleeping(t)')
  BY <1>11, <1>2, <1>3, <1>5, <1>7, <1>9, <1>10
<1>12. ASSUME Going(t)' PROVE t \in Away(s)' \/ Sleeping(t)' \/ Pausing(t)'
  BY <1>12, <1>2, <1>3, <1>5, <1>6, <1>8, <1>10
<1>13. QED
  BY <1>11, <1>12

\* The same of the steps that begin and end a session, and of time.
LEMMA CoveredOthers ==
    ASSUME Base, Sessions, Current, Stored, Ticks, Covered,
           Beat \/ Stop \/ Crash \/ Start \/ Tick,
           NEW t \in 0 .. now - 1,
           NEW s, s = past'[t + 1].sess, ~Recorded(s)', Absence(t)'
    PROVE  /\ Shown(t)' => t \in Away(s)' \/ (power' = "on" /\ Sleeping(t)')
           /\ Going(t)' => t \in Away(s)' \/ Sleeping(t)' \/ Pausing(t)'
<1>0. /\ Typed /\ Dated /\ Alive /\ now \in Nat /\ pump \in Pumps /\ t \in Nat /\ t < now /\ [Next]_vars
  BY DEF Base, Typed, Next
<1>1. past'[t + 1] = past[t + 1]
  BY <1>0, BeatDoes, StopDoes, CrashDoes, StartDoes, TickDoes DEF world
<1>2. s = past[t + 1].sess /\ ~Recorded(s) /\ Absence(t)
  <2>1. Recorded(s) => Recorded(s)'
    BY <1>0, DirtyNext
  <2>2. QED
    BY <1>1, <2>1 DEF Absence
<1>3. /\ Shown(t) => t \in Away(s) \/ (power = "on" /\ Sleeping(t))
      /\ Going(t) => t \in Away(s) \/ Sleeping(t) \/ Pausing(t)
  BY <1>2 DEF Covered
<1>4. s \in DOMAIN ended /\ t \in Away(s) => t \in Away(s)'
  BY AwayStopped
<1>5. (Shown(t) \/ Going(t)) => s \in DOMAIN ended
  BY <1>2, ShownIn
<1>6. gate = "open" => ~Pausing(t)
  BY DEF Pausing
<1>7. CASE Beat
  <2>1. /\ Settled /\ UNCHANGED <<now, past, power, pump, gate, rows, sess, ended, due, reseed, dirty>>
        /\ open.seg # None /\ open'.row.start = open.seg.start /\ open'.row.high = now
    BY <1>0, <1>7, BeatDoes DEF world
  <2>2. ~Sleeping(t)
    BY <2>1 DEF Settled, Sleeping
  <2>3. t \in open.seg.start .. now - 1 => Going(t) /\ gate = "open"
    <3> SUFFICES ASSUME t \in open.seg.start .. now - 1 PROVE Going(t) /\ gate = "open"
      OBVIOUS
    <3>1. s = sess /\ ~Recorded(sess)
      BY <1>2, <2>1 DEF Current
    <3>2. gate = "open" /\ InStep(open, pump)
      BY <2>1, <3>1 DEF Current
    <3>3. open.seg.start <= t
      OBVIOUS
    <3>4. QED
      BY <2>1, <3>2, <3>3 DEF InStep, Going
  <2>4. Shown(t)' => Shown(t) \/ (Going(t) /\ gate = "open")
    BY <2>1, <2>3 DEF Shown
  <2>5. (Going(t)' => Going(t)) /\ (Pausing(t) => Pausing(t)')
    BY <2>1 DEF Going, Pausing, Waits, Is, Unanswered
  <2>6. ASSUME Shown(t)' PROVE t \in Away(s)'
    BY <2>6, <2>2, <2>4, <1>3, <1>4, <1>5, <1>6
  <2>7. ASSUME Going(t)' PROVE t \in Away(s)' \/ Pausing(t)'
    BY <2>7, <2>2, <2>5, <1>3, <1>4, <1>5
  <2>8. QED
    BY <2>6, <2>7
<1>8. CASE Stop
  <2>1. /\ Free /\ power = "on" /\ open' = Closed /\ pump' = Fresh0
    BY <1>0, <1>8, StopDoes
  <2>2. PICK new :
           /\ new \in Seq(Entries) /\ rows' = rows \o new
           /\ \A r \in Range(new) :
                 /\ r.ts = now
                 /\ Dwelt(r) => /\ gate = "open"
                                /\ r.dur = 0 \/ (pump.cur # None /\ r.prev = pump.cur.app /\ r.dur <= now - pump.cur.at)
    BY <1>0, <1>8, StopDoes
  <2>3. Appends(new) /\ open'.row = None
    BY <2>1, <2>2, ClosedIs DEF Appends
  <2>4. Shown(t)' => Shown(t) \/ (Going(t) /\ gate = "open")
    BY <2>1, <2>2, <2>3, ShownNow
  <2>5. ~Sleeping(t)
    BY <2>1, FreeIsAwake
  <2>6. ~Going(t)'
    BY <2>1, FreshIs DEF Going
  <2>7. ASSUME Shown(t)' PROVE t \in Away(s)'
    BY <2>7, <2>4, <2>5, <1>3, <1>4, <1>5, <1>6
  <2>8. QED
    BY <2>6, <2>7
<1>9. CASE Crash
  <2>1. Free /\ open'.row = open.row /\ pump' = Fresh0 /\ UNCHANGED rows
    BY <1>0, <1>9, CrashDoes
  <2>2. Shown(t)' => Shown(t)
    BY <2>1 DEF Shown
  <2>3. power = "on" => ~Sleeping(t)
    BY <2>1, FreeIsAwake
  <2>4. ~Going(t)'
    BY <2>1, FreshIs DEF Going
  <2>5. ASSUME Shown(t)' PROVE t \in Away(s)'
    BY <2>5, <2>2, <2>3, <1>3, <1>4, <1>5
  <2>6. QED
    BY <2>4, <2>5
<1>10. CASE Start
  <2>1. /\ ~Running /\ pump'.cur = InFront /\ UNCHANGED <<now, past>>
        /\ open' = IF front = None THEN Closed
                   ELSE [seg |-> [sess |-> sess', app |-> front, start |-> now], row |-> None]
    BY <1>0, <1>10, StartDoes DEF world
  <2>2. PICK new :
           /\ new \in Seq(Entries) /\ rows' = rows \o new
           /\ \A r \in Range(new) :
                 Dwelt(r) => /\ open.row # None /\ r.ts = open.row.high
                             /\ r.dur = open.row.high - open.row.start
    BY <1>0, <1>10, StartDoes DEF Left
  <2>3. \A i \in DOMAIN rows' : (i \in DOMAIN rows /\ rows'[i] = rows[i]) \/ rows'[i] \in Range(new)
    BY <1>0, <2>2, Added
  <2>4. open.row # None => /\ open.row.high \in Nat /\ open.row.start \in Nat
                           /\ open.row.high - (open.row.high - open.row.start) = open.row.start
    BY <1>0, OpensAre DEF Typed
  <2>5. open'.row = None
    BY <2>1, ClosedIs
  <2>6. ASSUME NEW i \in DOMAIN rows', Dwelt(rows'[i]), t \in rows'[i].ts - rows'[i].dur .. rows'[i].ts - 1
        PROVE  Shown(t)
    <3>1. CASE i \in DOMAIN rows /\ rows'[i] = rows[i]
      BY <2>6, <3>1 DEF Shown
    <3>2. CASE rows'[i] \in Range(new)
      <4>1. /\ open.row # None /\ rows'[i].ts = open.row.high
            /\ rows'[i].dur = open.row.high - open.row.start
        BY <2>2, <2>6, <3>2
      <4>2. t \in open.row.start .. open.row.high - 1
        BY <2>4, <2>6, <4>1
      <4>3. QED
        BY <4>1, <4>2 DEF Shown
    <3>3. QED
      BY <2>3, <3>1, <3>2
  <2>7. Shown(t)' => Shown(t)
    BY <2>5, <2>6 DEF Shown
  <2>8. ~Sleeping(t)
    BY <2>1 DEF Sleeping
  <2>9. ~Going(t)'
    BY <1>0, <2>1 DEF Going, InFront
  <2>10. ASSUME Shown(t)' PROVE t \in Away(s)'
    BY <2>10, <2>7, <2>8, <1>3, <1>4, <1>5
  <2>11. QED
    BY <2>9, <2>10
<1>11. CASE Tick
  <2>1. /\ (Settled \/ power = "asleep") /\ UNCHANGED <<power, pump, gate, reseed, open, rows, sess, ended>>
        /\ now' = now + 1 /\ due' = (Running /\ power = "on")
    BY <1>0, <1>11, TickDoes
  <2>2. (Shown(t)' => Shown(t)) /\ (Going(t)' => Going(t))
    BY <2>1 DEF Shown, Going
  <2>3. Pausing(t) => Pausing(t)'
    BY <1>1, <2>1 DEF Pausing, Waits, Is, Unanswered
  <2>4. power = "on" => ~Sleeping(t)
    BY <2>1 DEF Settled, Sleeping
  <2>5. Sleeping(t) => Sleeping(t)'
    <3> SUFFICES ASSUME Sleeping(t) PROVE Sleeping(t)'
      OBVIOUS
    <3>1. power = "asleep" /\ (Running <=> Running')
      BY <2>1, <2>4 DEF Settled, Running
    <3>2. \A k : Waits(k, sess, "suspend", "resume") => Waits(k, sess, "suspend", "resume")'
      BY <2>1 DEF Waits, Is, Unanswered
    <3>3. QED
      BY <1>1, <2>1, <2>4, <3>1, <3>2 DEF Sleeping
  <2>6. ASSUME Shown(t)' PROVE t \in Away(s)'
    BY <2>6, <2>2, <2>4, <1>3, <1>4, <1>5
  <2>7. ASSUME Going(t)' PROVE t \in Away(s)' \/ Sleeping(t)' \/ Pausing(t)'
    BY <2>7, <2>2, <2>3, <2>5, <1>3, <1>4, <1>5
  <2>8. QED
    BY <2>6, <2>7
<1>12. QED
  BY <1>7, <1>8, <1>9, <1>10, <1>11

\* The unit that has just passed is in no dwell; what hides it is the sleep that
\* lasts, or the pause.
LEMMA CoveredNew ==
    ASSUME Base, Ticks, Paused, Current, Tick,
           NEW t \in Nat, t = now, NEW s, s = past'[t + 1].sess, ~Recorded(s)', Absence(t)'
    PROVE  /\ ~Shown(t)'
           /\ Going(t)' => Sleeping(t)' \/ Pausing(t)'
<1>0. /\ Typed /\ Dated /\ Alive /\ Reseeding /\ now \in Nat /\ pump \in Pumps
  BY DEF Base, Typed
<1>1. /\ (Settled \/ power = "asleep")
      /\ UNCHANGED <<power, pump, gate, reseed, open, rows, sess, ended, dirty>>
      /\ now' = now + 1 /\ due' = (Running /\ power = "on")
      /\ (past'[now + 1].awake <=> power = "on")
      /\ past'[now + 1].gate = gate /\ past'[now + 1].sess = sess
  BY <1>0, TickDoes
<1>2. ~Shown(t)'
  <2>1. \A i \in DOMAIN rows : rows[i].ts \in Nat /\ rows[i].ts <= now
    BY <1>0, RowsAre DEF Dated
  <2>2. open.row # None => open.row.high \in Nat /\ open.row.high <= now
    BY <1>0, OpensAre DEF Typed, Dated
  <2>3. QED
    BY <1>0, <1>1, <2>1, <2>2 DEF Shown
<1>3. ASSUME Going(t)' PROVE Sleeping(t)' \/ Pausing(t)'
  <2>1. pump.cur # None
    BY <1>1, <1>3 DEF Going
  <2>2. Running /\ Running' /\ s = sess /\ ~Recorded(sess) /\ gate # "recording"
    <3>1. Running
      BY <1>0, <2>1, FreshIs DEF Alive
    <3>2. s = sess /\ ~Recorded(sess)
      BY <1>1 DEF Recorded
    <3>3. QED
      BY <1>0, <1>1, <3>1, <3>2 DEF Alive, Running
  <2>3. CASE gate = "paused"
    <3>1. PICK k : Waits(k, sess, "paused", "resumed")
      BY <2>3 DEF Paused
    <3>2. rows[k].ts <= now
      BY <1>0, <3>1 DEF Waits, Dated
    <3>3. \E j : Waits(j, sess, "paused", "resumed")' /\ rows'[j].ts <= t
      BY <1>1, <3>1, <3>2 DEF Waits, Is, Unanswered
    <3>4. QED
      BY <1>1, <2>2, <2>3, <3>2, <3>3 DEF Pausing
  <2>4. CASE gate # "paused"
    <3>1. gate = "open"
      BY <1>0, <2>2, <2>4 DEF Typed
    <3>2. power # "on" /\ power = "asleep"
      BY <1>1, <2>2, <2>4 DEF Absence, Settled
    <3>3. ~reseed
      BY <2>2, <3>2 DEF Base, Reseeding
    <3>4. CASE pump.suspended
      <4>1. PICK k \in DOMAIN rows : Is(k, sess, "suspend") /\ Unanswered(k, sess, "resume")
        BY <2>2, <3>1, <3>2, <3>4 DEF Ticks
      <4>2. rows[k].ts <= now
        BY <1>0 DEF Dated
      <4>3. Waits(k, sess, "suspend", "resume")'
        BY <1>1, <4>1 DEF Waits, Is, Unanswered
      <4>4. \E j : Waits(j, sess, "suspend", "resume")' /\ rows'[j].ts <= t
        BY <1>1, <4>2, <4>3
      <4>5. QED
        BY <1>1, <2>2, <3>1, <3>2, <3>3, <3>4, <4>4 DEF Sleeping
    <3>5. CASE ~pump.suspended
      <4>1. pump.tick <= now
        BY <1>0, <2>2 DEF Ticks, Dated
      <4>2. QED
        BY <1>1, <2>2, <3>1, <3>2, <3>3, <3>5, <4>1 DEF Sleeping
    <3>6. QED
      BY <3>4, <3>5
  <2>5. QED
    BY <2>3, <2>4
<1>4. QED
  BY <1>2, <1>3

LEMMA CarriedStutter ==
    ASSUME Base, UNCHANGED vars, NEW t
    PROVE  Carried(<<>>, t)
<1>1. UNCHANGED <<now, power, due, pump, gate, reseed, open, rows, sess, ended, past>>
  BY DEF vars, world
<1>2. Pumped(<<>>) /\ Range(<<>>) = {}
  BY <1>1, StillPumped, Nothing DEF Base
<1>3. Lacks(<<>>, "resume") /\ Lacks(<<>>, "resumed")
  BY <1>2 DEF Lacks
<1>4. (Sleeping(t) => Sleeping(t)') /\ (Pausing(t) => Pausing(t)')
  BY <1>1, <1>2, <1>3, SleepingStill, PausingStill
<1>5. QED
  BY <1>1, <1>2, <1>4 DEF Carried

\* Covered is inductive: no absence is forgotten.
LEMMA CoveredNext ==
    ASSUME Base, Sessions, Current, Stored, Ticks, Paused, Covered, [Next]_vars
    PROVE  Covered'
<1>0. Typed /\ Dated /\ Alive /\ now \in Nat
  BY DEF Base, Typed
<1>1. UNCHANGED now \/ Tick
  BY PumpedSteps, <1>0, BeatDoes, StopDoes, CrashDoes, StartDoes DEF Pumped, world
<1> SUFFICES ASSUME NEW t \in 0 .. now' - 1, NEW s, s = past'[t + 1].sess, ~Recorded(s)', Absence(t)'
             PROVE  /\ Shown(t)' => t \in Away(s)' \/ (power' = "on" /\ Sleeping(t)')
                    /\ Going(t)' => t \in Away(s)' \/ Sleeping(t)' \/ Pausing(t)'
  BY DEF Covered
<1>2. CASE t \in 0 .. now - 1
  <2>1. (\E new : Carried(new, t)) \/ Beat \/ Stop \/ Crash \/ Start \/ Tick
    BY <1>2, CarriedPumped, CarriedStutter DEF Next
  <2>2. CASE \E new : Carried(new, t)
    BY <1>2, <2>2, CoveredPumped
  <2>3. CASE Beat \/ Stop \/ Crash \/ Start \/ Tick
    BY <1>2, <2>3, CoveredOthers
  <2>4. QED
    BY <2>1, <2>2, <2>3
<1>3. CASE t = now /\ Tick
  BY <1>3, CoveredNew
<1>4. t \in 0 .. now - 1 \/ (t = now /\ Tick)
  <2>1. Tick => now' = now + 1
    BY <1>0, TickDoes
  <2>2. QED
    BY <1>0, <1>1, <2>1
<1>5. QED
  BY <1>2, <1>3, <1>4

\* The steps that neither hear of input nor look for it.
LEMMA IdleSame ==
    ASSUME Base, \/ Focus \/ Suspend \/ Sleep \/ Wake \/ ResumeNotice \/ Lock \/ Unlock
                 \/ Pause \/ Unpause \/ StartRecording \/ EndRecording
    PROVE  /\ pump'.idle = pump.idle /\ inputs' = inputs
           /\ \E new : Pumped(new) /\ Lacks(new, "idle") /\ Lacks(new, "active")
           /\ Running /\ (due \/ power # "on") => due' \/ power' # "on"
           /\ Running /\ power' = "on" /\ ~due' => power = "on" /\ ~due
           /\ gate' = gate \/ (Pressed /\ (Pause \/ StartRecording \/ Unpause)) \/ EndRecording
<1>0. Typed /\ Dated /\ Alive /\ pump \in Pumps
  BY DEF Base, Typed
<1>1. CASE Focus
  <2>1. /\ UNCHANGED <<power, due, inputs, gate>> /\ pump' = [pump EXCEPT !.cur = pump'.cur]
    BY <1>0, <1>1, FocusDoes
  <2>2. PICK new : Pumped(new) /\ Only(new, {"focus"})
    BY <1>0, <1>1, FocusDoes
  <2>3. pump'.idle = pump.idle
    BY <1>0, <2>1 DEF Pumps
  <2>4. Lacks(new, "idle") /\ Lacks(new, "active")
    BY <2>2 DEF Only, Lacks
  <2>5. QED
    BY <2>1, <2>2, <2>3, <2>4
<1>2. CASE Suspend
  <2>1. /\ power' = "suspending" /\ UNCHANGED <<inputs, gate>>
        /\ pump' = [pump EXCEPT !.cur = None, !.suspended = TRUE, !.resumed = None, !.tick = now]
    BY <1>0, <1>2, SuspendDoes
  <2>2. PICK new : Pumped(new) /\ Only(new, {"focus", "suspend"})
    BY <1>0, <1>2, SuspendDoes
  <2>3. pump'.idle = pump.idle
    BY <1>0, <2>1 DEF Pumps
  <2>4. Lacks(new, "idle") /\ Lacks(new, "active")
    BY <2>2 DEF Only, Lacks
  <2>5. QED
    BY <2>1, <2>2, <2>3, <2>4
<1>3. CASE Sleep
  <2>1. power' = "asleep" /\ UNCHANGED <<inputs, pump, gate>> /\ Pumped(<<>>)
    BY <1>0, <1>3, SleepDoes
  <2>2. Lacks(<<>>, "idle") /\ Lacks(<<>>, "active")
    BY Nothing DEF Lacks
  <2>3. QED
    BY <2>1, <2>2
<1>4. CASE Wake
  <2>1. due' = Running /\ UNCHANGED <<inputs, pump, gate>> /\ Pumped(<<>>)
    BY <1>0, <1>4, WakeDoes
  <2>2. Lacks(<<>>, "idle") /\ Lacks(<<>>, "active")
    BY Nothing DEF Lacks
  <2>3. QED
    BY <2>1, <2>2 DEF Running
<1>5. CASE ResumeNotice
  <2>1. /\ UNCHANGED <<power, due, inputs, gate>>
        /\ pump' = IF ~Running THEN pump
                   ELSE IF Anew(pump) THEN Woken(pump) ELSE [pump EXCEPT !.tick = now]
    BY <1>0, <1>5, ResumeNoticeDoes DEF world
  <2>2. PICK new : /\ Pumped(new)
                   /\ \A r \in Range(new) :
                        \/ r.kind \in {"focus", "resume"}
                        \/ r.kind = "recovered" /\ Missing(pump)
    BY <1>0, <1>5, ResumeNoticeDoes
  <2>3. pump'.idle = pump.idle
    BY <1>0, <2>1 DEF Pumps, Woken
  <2>4. Lacks(new, "idle") /\ Lacks(new, "active")
    BY <2>2 DEF Lacks
  <2>5. QED
    BY <2>1, <2>2, <2>3, <2>4
<1>6. CASE Lock
  <2>1. UNCHANGED <<power, due, inputs, gate>> /\ pump' = [pump EXCEPT !.cur = None]
    BY <1>0, <1>6, LockDoes
  <2>2. PICK new : Pumped(new) /\ Only(new, {"focus", "lock"})
    BY <1>0, <1>6, LockDoes
  <2>3. pump'.idle = pump.idle
    BY <1>0, <2>1 DEF Pumps
  <2>4. Lacks(new, "idle") /\ Lacks(new, "active")
    BY <2>2 DEF Only, Lacks
  <2>5. QED
    BY <2>1, <2>2, <2>3, <2>4
<1>7. CASE Unlock
  <2>1. /\ UNCHANGED <<power, due, inputs, gate>>
        /\ pump' = IF ~Running THEN pump ELSE [pump EXCEPT !.cur = [app |-> front', at |-> now]]
    BY <1>0, <1>7, UnlockDoes
  <2>2. PICK new : Pumped(new) /\ Only(new, {"focus"})
    BY <1>0, <1>7, UnlockDoes
  <2>3. pump'.idle = pump.idle
    BY <1>0, <2>1 DEF Pumps
  <2>4. Lacks(new, "idle") /\ Lacks(new, "active")
    BY <2>2 DEF Only, Lacks
  <2>5. QED
    BY <2>1, <2>2, <2>3, <2>4
<1>8. CASE Pause
  <2>1. UNCHANGED <<power, due, inputs, pump>> /\ Pressed
    BY <1>0, <1>8, PauseDoes DEF world
  <2>2. PICK new : Pumped(new) /\ Only(new, {"paused"})
    BY <1>0, <1>8, PauseDoes
  <2>4. Lacks(new, "idle") /\ Lacks(new, "active")
    BY <2>2 DEF Only, Lacks
  <2>5. QED
    BY <1>8, <2>1, <2>2, <2>4
<1>9. CASE Unpause
  <2>1. UNCHANGED <<power, due, inputs, pump>> /\ Pressed
    BY <1>0, <1>9, UnpauseDoes DEF world
  <2>2. PICK new : Pumped(new) /\ Only(new, {"resumed"})
    BY <1>0, <1>9, UnpauseDoes
  <2>4. Lacks(new, "idle") /\ Lacks(new, "active")
    BY <2>2 DEF Only, Lacks
  <2>5. QED
    BY <1>9, <2>1, <2>2, <2>4
<1>10. CASE StartRecording \/ EndRecording
  <2>1. UNCHANGED <<power, due, inputs, pump>> /\ (Pressed \/ EndRecording) /\ Pumped(<<>>)
    BY <1>0, <1>10, StartRecordingDoes, EndRecordingDoes DEF world
  <2>2. Lacks(<<>>, "idle") /\ Lacks(<<>>, "active")
    BY Nothing DEF Lacks
  <2>3. QED
    BY <1>10, <2>1, <2>2
<1>11. QED
  BY <1>1, <1>2, <1>3, <1>4, <1>5, <1>6, <1>7, <1>8, <1>9, <1>10

LEMMA InputQuiet ==
    ASSUME Base, Input, ~(Running /\ front # None /\ pump.idle)
    PROVE  UNCHANGED <<pump, rows, open>>
BY DEF Input

LEMMA LastInputSame ==
    ASSUME inputs' = inputs
    PROVE  LastInput' = LastInput
BY DEF LastInput, Max

LEMMA LastInputNow ==
    ASSUME Base, Base', now \in inputs, now' = now, inputs' = inputs
    PROVE  LastInput = now /\ LastInput' = now /\ ~Long /\ ~Long'
<1>1. LastInput \in Nat /\ LastInput <= now /\ \A i \in inputs : i <= LastInput
  BY LastInputIs DEF Base
<1>2. now \in Nat /\ IdleAfter \in Nat /\ IdleAfter # 0
  BY PresenceConstants DEF Base, Typed
<1>3. LastInput = now
  BY <1>1, <1>2
<1>4. now - LastInput = 0
  BY <1>2, <1>3
<1>5. LastInput' = now
  BY <1>3, LastInputSame
<1>6. QED
  BY <1>2, <1>3, <1>4, <1>5 DEF Long

\* What LastInput is, as a fact of a state.
InputsFact == LastInput \in inputs /\ LastInput \in Nat /\ LastInput <= now /\ \A i \in inputs : i <= LastInput

LEMMA InputsAre == Base => InputsFact
BY LastInputIs DEF Base, InputsFact

LEMMA InputsNext == Base' => InputsFact'
BY InputsAre, PTL

LEMMA InputNow ==
    ASSUME Base, Input
    PROVE  LastInput' = now /\ ~Long'
<1>0. Base' /\ Typed /\ Dated
  BY BaseNext DEF Base, Next
<1>1. inputs' = inputs \cup {now} /\ now' = now /\ now \in Nat
  BY <1>0, InputDoes DEF Typed
<1>2. LastInput' \in Nat /\ LastInput' <= now /\ \A i \in inputs' : i <= LastInput'
  BY <1>0, <1>1, InputsNext DEF InputsFact
<1>3. LastInput' = now
  BY <1>1, <1>2
<1>4. now' - LastInput' = 0
  BY <1>1, <1>3
<1>5. QED
  BY <1>3, <1>4, PresenceConstants DEF Long

\* Every step, for what is known of the user's idleness.
IdleQuiet ==
    \/ Focus \/ Suspend \/ Sleep \/ Wake \/ ResumeNotice \/ Lock \/ Unlock
    \/ Pause \/ Unpause \/ StartRecording \/ EndRecording

LEMMA IdleSteps ==
    ASSUME [Next]_vars
    PROVE  IdleQuiet \/ Input \/ Timer \/ Reseed \/ Beat \/ Stop \/ Crash \/ Start \/ Tick \/ UNCHANGED vars
BY DEF Next, IdleQuiet

LEMMA StillIdle ==
    ASSUME Base, Beat \/ UNCHANGED vars
    PROVE  /\ UNCHANGED <<world, due, pump, gate, reseed, rows, sess, ended, dirty>>
           /\ LastInput' = LastInput /\ Long' = Long
<1>1. UNCHANGED <<world, due, pump, gate, reseed, rows, sess, ended, dirty>>
  BY BeatDoes DEF Base, vars, world
<1>2. LastInput' = LastInput
  BY <1>1, LastInputSame DEF world
<1>3. QED
  BY <1>1, <1>2 DEF Long, world

\* A settled pump knows whether the user is idle (IdleDetector): the recordings
\* apart, whose end reseeds it as active.
Flag ==
    Running /\ power = "on" /\ ~due /\ ~Recorded(sess) => (pump.idle <=> Long)

\* Flag is inductive.
LEMMA FlagNext ==
    ASSUME Base, Flag, [Next]_vars
    PROVE  Flag'
<1>0. Typed /\ Dated /\ Alive /\ Reseeding /\ Base' /\ \A s : Recorded(s) => Recorded(s)'
  BY BaseNext, DirtyNext DEF Base
<1>1. CASE IdleQuiet
  <2>1. /\ pump'.idle = pump.idle /\ inputs' = inputs
        /\ Running /\ power' = "on" /\ ~due' => power = "on" /\ ~due
    BY <1>1, IdleSame DEF IdleQuiet
  <2>2. PICK new : Pumped(new)
    BY <1>1, IdleSame DEF IdleQuiet
  <2>3. UNCHANGED <<now, sess>>
    BY <2>2 DEF Pumped
  <2>4. Long' = Long
    BY <2>1, <2>3, LastInputSame DEF Long
  <2>5. QED
    BY <1>0, <2>1, <2>3, <2>4 DEF Flag, Running, Recorded
<1>2. CASE Input
  BY <1>0, <1>2, InputDoes DEF Flag, Running
<1>3. CASE Timer
  <2>1. pump' = Timed(pump) /\ UNCHANGED <<now, inputs>>
    BY <1>0, <1>3, TimerDoes DEF world
  <2>2. Long' = Long
    BY <2>1, LastInputSame DEF Long
  <2>3. pump'.idle = Long
    BY <1>0, <2>1 DEF Timed, Typed, Pumps
  <2>4. QED
    BY <2>2, <2>3 DEF Flag
<1>4. CASE Reseed
  <2>1. UNCHANGED <<now, inputs, sess, dirty>> /\ reseed /\ ~pump'.idle
    BY <1>0, <1>4, ReseedDoes DEF world
  <2>2. ~Recorded(sess) => ~Long'
    BY <1>0, <2>1, LastInputNow DEF Reseeding
  <2>3. QED
    BY <2>1, <2>2 DEF Flag, Recorded
<1>5. CASE Beat \/ UNCHANGED vars
  BY <1>5, StillIdle DEF Flag, world, Running, Recorded
<1>6. CASE Stop \/ Crash
  BY <1>0, <1>6, StopDoes, CrashDoes DEF Flag, Running
<1>7. CASE Start
  BY <1>0, <1>7, StartDoes DEF Flag
<1>8. CASE Tick
  BY <1>0, <1>8, TickDoes DEF Flag, Running
<1>9. QED
  BY <1>1, <1>2, <1>3, <1>4, <1>5, <1>6, <1>7, <1>8, IdleSteps

\* Nobody was there for the whole threshold, on an awake machine, before now:
\* then the pump knows.
Lonely(u) ==
    u \in LastInput + IdleAfter .. now - 1 /\ past[u + 1].awake /\ past[u + 1].sess = sess
Overdue ==
    Running /\ ~Recorded(sess) /\ (\E u : Lonely(u)) => pump.idle

LonelyFact == \A u : Lonely(u) => u \in Nat /\ LastInput + IdleAfter <= u /\ u <= now - 1

LEMMA LonelyIs == Base => LonelyFact
<1> SUFFICES ASSUME Base, NEW u, Lonely(u)
             PROVE  u \in Nat /\ LastInput + IdleAfter <= u /\ u <= now - 1
  BY DEF LonelyFact
<1>1. LastInput \in Nat /\ IdleAfter \in Nat /\ now \in Nat
  BY InputsAre, PresenceConstants DEF InputsFact, Base, Typed
<1>2. QED
  BY <1>1 DEF Lonely

LEMMA LonelyNext == Base' => LonelyFact'
BY LonelyIs, PTL

\* Overdue is inductive.
LEMMA OverdueNext ==
    ASSUME Base, Sessions, Flag, Overdue, [Next]_vars
    PROVE  Overdue'
<1>0. /\ Typed /\ Dated /\ Alive /\ Reseeding /\ Base' /\ (\A s : Recorded(s) => Recorded(s)')
      /\ now \in Nat /\ IdleAfter \in Nat /\ IdleAfter # 0
  BY BaseNext, DirtyNext, PresenceConstants DEF Base, Typed
<1>a. LastInput \in Nat /\ LastInput <= now /\ LastInput' \in Nat
  BY <1>0, InputsAre, InputsNext DEF InputsFact
<1> SUFFICES ASSUME Running', ~Recorded(sess)', NEW u, Lonely(u)'
             PROVE  pump'.idle
  BY DEF Overdue
<1>d. u \in Nat /\ LastInput' + IdleAfter <= u /\ u <= now' - 1 /\ now' \in Nat
  <2>1. now' \in Nat
    BY <1>0 DEF Base, Typed
  <2>2. QED
    BY <1>0, <2>1, LonelyNext DEF LonelyFact
<1>e. past'[u + 1].awake /\ past'[u + 1].sess = sess'
  BY DEF Lonely
<1>1. CASE IdleQuiet
  <2>1. pump'.idle = pump.idle /\ LastInput' = LastInput
    BY <1>1, IdleSame, LastInputSame DEF IdleQuiet
  <2>2. PICK new : Pumped(new)
    BY <1>1, IdleSame DEF IdleQuiet
  <2>3. UNCHANGED <<now, past, sess>>
    BY <2>2 DEF Pumped
  <2>4. Lonely(u) /\ Running /\ ~Recorded(sess)
    BY <1>0, <2>1, <2>3 DEF Lonely, Running, Recorded
  <2>5. QED
    BY <2>1, <2>4 DEF Overdue
<1>2. CASE Input
  <2>1. LastInput' = now /\ now' = now
    BY <1>0, <1>2, InputNow, InputDoes
  <2>2. QED
    BY <1>0, <1>d, <2>1
<1>3. CASE Timer
  <2>1. pump' = Timed(pump) /\ UNCHANGED <<now, inputs>>
    BY <1>0, <1>3, TimerDoes DEF world
  <2>2. LastInput' = LastInput
    BY <2>1, LastInputSame
  <2>3. Long
    BY <1>0, <1>a, <1>d, <2>1, <2>2 DEF Long
  <2>4. QED
    BY <1>0, <2>1, <2>3 DEF Timed, Typed, Pumps
<1>4. CASE Reseed
  <2>1. UNCHANGED <<now, inputs, sess, dirty>> /\ reseed
    BY <1>0, <1>4, ReseedDoes DEF world
  <2>2. LastInput' = now
    BY <1>0, <2>1, LastInputNow DEF Reseeding, Recorded
  <2>3. QED
    BY <1>0, <1>d, <2>1, <2>2
<1>5. CASE Beat \/ UNCHANGED vars
  <2>1. Lonely(u) /\ Running /\ ~Recorded(sess) /\ pump' = pump
    BY <1>5, StillIdle DEF Lonely, world, Running, Recorded
  <2>2. QED
    BY <2>1 DEF Overdue
<1>6. CASE Stop \/ Crash
  BY <1>0, <1>6, StopDoes, CrashDoes DEF Running
<1>7. CASE Start
  <2>1. /\ sess' = Len(ended) + 1 /\ UNCHANGED <<now, past>> /\ Len(ended) \in Nat
    BY <1>0, <1>7, StartDoes, EndedAre DEF world
  <2>2. u \in 0 .. now - 1
    BY <1>d, <2>1
  <2>3. past[u + 1].sess \in 0 .. Len(ended)
    BY <2>2 DEF Sessions
  <2>4. QED
    BY <1>e, <2>1, <2>3
<1>8. CASE Tick
  <2>1. /\ now' = now + 1 /\ (Settled \/ power = "asleep")
        /\ UNCHANGED <<power, inputs, pump, sess, dirty>>
        /\ \A t \in 0 .. now - 1 : past'[t + 1] = past[t + 1]
        /\ past'[now + 1].awake <=> power = "on"
    BY <1>0, <1>8, TickDoes
  <2>2. LastInput' = LastInput
    BY <2>1, LastInputSame
  <2>3. CASE u \in 0 .. now - 1
    <3>1. Lonely(u) /\ Running /\ ~Recorded(sess)
      BY <1>0, <1>d, <1>e, <2>1, <2>2, <2>3 DEF Lonely, Running, Recorded
    <3>2. QED
      BY <2>1, <3>1 DEF Overdue
  <2>4. CASE u = now
    <3>1. power = "on" /\ ~due
      BY <1>e, <2>1, <2>4 DEF Settled
    <3>2. Long
      BY <1>0, <1>a, <1>d, <2>2, <2>4 DEF Long
    <3>3. QED
      BY <1>0, <2>1, <3>1, <3>2 DEF Flag, Running, Recorded
  <2>5. u \in 0 .. now - 1 \/ u = now
    BY <1>0, <1>d, <2>1
  <2>6. QED
    BY <2>3, <2>4, <2>5
<1>9. QED
  BY <1>1, <1>2, <1>3, <1>4, <1>5, <1>6, <1>7, <1>8, IdleSteps

LEMMA WaitsNext ==
    ASSUME NEW k, NEW from, NEW to, WaitsOn(k, sess, from, to), sess' = sess
    PROVE  Waits(k, sess, from, to)' /\ rows'[k] = rows[k]
BY DEF WaitsOn, Waits, Is, Unanswered

\* While the pump is idle and capture open, the idle row is stored, and no active
\* row answers it.
IdleRow ==
    Running /\ ~Recorded(sess) /\ gate = "open" /\ pump.idle =>
        \E k : Waits(k, sess, "idle", "active") /\ rows[k].ts - rows[k].dur <= LastInput

\* IdleRow is inductive: the row of an absence waits for the return.
LEMMA IdleRowNext ==
    ASSUME Base, IdleRow, [Next]_vars
    PROVE  IdleRow'
<1>0. /\ Typed /\ Dated /\ Alive /\ Reseeding /\ Base' /\ (\A s : Recorded(s) => Recorded(s)')
      /\ now \in Nat
  BY BaseNext, DirtyNext DEF Base, Typed
<1>a. LastInput \in Nat /\ LastInput <= now /\ LastInput' \in Nat
  BY <1>0, InputsAre, InputsNext DEF InputsFact
<1> SUFFICES ASSUME Running', ~Recorded(sess)', gate' = "open", pump'.idle
             PROVE  \E k : Waits(k, sess, "idle", "active")' /\ rows'[k].ts - rows'[k].dur <= LastInput'
  BY DEF IdleRow
<1>b. ASSUME NEW new, Pumped(new), Lacks(new, "active"), pump.idle, gate = "open", LastInput' = LastInput,
             dirty \subseteq dirty'
      PROVE  \E k : Waits(k, sess, "idle", "active")' /\ rows'[k].ts - rows'[k].dur <= LastInput'
  <2>1. sess' = sess /\ Appends(new)
    BY <1>b DEF Pumped, Appends
  <2>2. PICK k : Waits(k, sess, "idle", "active") /\ rows[k].ts - rows[k].dur <= LastInput
    BY <1>0, <1>b, <2>1 DEF IdleRow, Running, Recorded
  <2>3. WaitsOn(k, sess, "idle", "active")
    BY <1>0, <1>b, <2>1, <2>2, StillUnanswered
  <2>4. QED
    BY <1>b, <2>1, <2>2, <2>3, WaitsNext
<1>c. dirty \subseteq dirty'
  BY DirtyNext
<1>1. CASE IdleQuiet
  <2>1. /\ pump'.idle = pump.idle /\ LastInput' = LastInput
        /\ gate' = gate \/ (Pressed /\ (Pause \/ StartRecording \/ Unpause)) \/ EndRecording
    BY <1>1, IdleSame, LastInputSame DEF IdleQuiet
  <2>2. PICK new : Pumped(new) /\ Lacks(new, "active")
    BY <1>1, IdleSame DEF IdleQuiet
  <2>3. sess' = sess
    BY <2>2 DEF Pumped
  <2>4. gate = "open"
    <3>1. ~Pressed
      BY <2>1 DEF Pressed
    <3>2. ~EndRecording
      BY <1>0, <1>c, <2>3, EndRecordingDoes DEF Alive, Recorded
    <3>3. QED
      BY <2>1, <3>1, <3>2
  <2>5. QED
    BY <1>b, <1>c, <2>1, <2>2, <2>4
<1>2. CASE Input
  <2>1. /\ pump' = [pump EXCEPT !.idle = pump.idle /\ ~(Running /\ front # None)]
        /\ UNCHANGED <<now, sess, gate, dirty>> /\ LastInput' = now
    BY <1>0, <1>2, InputDoes, InputNow
  <2>2. pump.idle /\ ~(Running /\ front # None)
    BY <1>0, <2>1 DEF Typed, Pumps
  <2>3. rows' = rows
    BY <1>2, <2>2, InputQuiet
  <2>4. PICK k : Waits(k, sess, "idle", "active") /\ rows[k].ts - rows[k].dur <= LastInput
    BY <1>0, <2>1, <2>2 DEF IdleRow, Running, Recorded
  <2>5. rows[k].ts \in Nat /\ rows[k].dur \in Nat
    BY <1>0, <2>4, RowsAre DEF Waits
  <2>6. rows'[k].ts - rows'[k].dur <= LastInput'
    BY <1>0, <1>a, <2>1, <2>3, <2>4, <2>5
  <2>7. QED
    BY <2>1, <2>3, <2>4, <2>6 DEF Waits, Is, Unanswered
<1>3. CASE Timer
  <2>1. pump' = Timed(pump) /\ UNCHANGED <<now, inputs, sess, gate>>
    BY <1>0, <1>3, TimerDoes DEF world
  <2>2. LastInput' = LastInput
    BY <2>1, LastInputSame
  <2>3. Long
    BY <1>0, <2>1 DEF Timed, Typed, Pumps
  <2>4. PICK new : /\ Pumped(new)
                   /\ Lacks(new, "active")
                   /\ ~pump.idle => \E r \in Range(new) : r.kind = "idle" /\ r.dur = now - LastInput
    BY <1>0, <1>3, <2>1, <2>3, TimerDoes DEF Lacks
  <2>5. CASE ~pump.idle
    <3>1. PICK r \in Range(new) : r.kind = "idle" /\ r.dur = now - LastInput
      BY <2>4, <2>5
    <3>2. r.sess = sess /\ r.ts = now /\ new \in Seq(Entries) /\ rows' = rows \o new
      BY <2>4 DEF Pumped
    <3>3. PICK k \in DOMAIN rows' : rows'[k] = r
      BY <1>0, <3>2, Added
    <3>4. \A j \in DOMAIN rows' : rows'[j].ts <= now'
      BY <1>0 DEF Base, Dated
    <3>5. Waits(k, sess, "idle", "active")'
      BY <2>1, <3>1, <3>2, <3>3, <3>4 DEF Waits, Is, Unanswered
    <3>6. rows'[k].ts - rows'[k].dur <= LastInput'
      BY <1>0, <1>a, <2>2, <3>1, <3>2, <3>3
    <3>7. QED
      BY <3>5, <3>6
  <2>6. CASE pump.idle
    BY <1>b, <1>c, <2>1, <2>2, <2>4, <2>6
  <2>7. QED
    BY <2>5, <2>6
<1>4. CASE Reseed
  BY <1>0, <1>4, ReseedDoes
<1>5. CASE Beat \/ UNCHANGED vars
  BY <1>5, StillIdle DEF IdleRow, world, Running, Recorded, Waits, Is, Unanswered
<1>6. CASE Stop \/ Crash
  BY <1>0, <1>6, StopDoes, CrashDoes DEF Running
<1>7. CASE Start
  BY <1>0, <1>7, StartDoes
<1>8. CASE Tick
  <2>1. UNCHANGED <<inputs, pump, sess, dirty, rows, gate>>
    BY <1>0, <1>8, TickDoes
  <2>2. LastInput' = LastInput
    BY <2>1, LastInputSame
  <2>3. QED
    BY <2>1, <2>2 DEF IdleRow, Running, Recorded, Waits, Is, Unanswered
<1>9. QED
  BY <1>1, <1>2, <1>3, <1>4, <1>5, <1>6, <1>7, <1>8, IdleSteps

\* The idle row of this moment was true of it.
IdleFresh == \A k \in DOMAIN rows : rows[k].kind = "idle" /\ rows[k].ts = now => Long

\* IdleFresh is inductive.
LEMMA IdleFreshNext ==
    ASSUME Base, IdleFresh, [Next]_vars
    PROVE  IdleFresh'
<1>0. Typed /\ Dated /\ Alive /\ Reseeding /\ now \in Nat
  BY DEF Base, Typed
<1>a. ASSUME NEW new, Appends(new), \A r \in Range(new) : r.kind = "idle" => Long,
             UNCHANGED now, LastInput' = LastInput
      PROVE  IdleFresh'
  <2>1. ASSUME NEW k \in DOMAIN rows', rows'[k].kind = "idle", rows'[k].ts = now
        PROVE  Long
    <3>1. new \in Seq(Entries) /\ rows' = rows \o new
      BY <1>a DEF Appends
    <3>2. (k \in DOMAIN rows /\ rows'[k] = rows[k]) \/ rows'[k] \in Range(new)
      BY <1>0, <3>1, Added
    <3>3. QED
      BY <1>a, <2>1, <3>2 DEF IdleFresh
  <2>2. QED
    BY <1>a, <2>1 DEF IdleFresh, Long
<1>1. CASE IdleQuiet
  <2>1. PICK new : Pumped(new) /\ Lacks(new, "idle")
    BY <1>1, IdleSame DEF IdleQuiet
  <2>2. Appends(new) /\ UNCHANGED now
    BY <2>1 DEF Pumped, Appends
  <2>3. LastInput' = LastInput
    BY <1>1, IdleSame, LastInputSame DEF IdleQuiet
  <2>4. QED
    BY <1>a, <2>1, <2>2, <2>3 DEF Lacks
<1>2. CASE Input
  <2>1. PICK new : Pumped(new) /\ Only(new, {"active"})
    BY <1>0, <1>2, InputDoes
  <2>2. new \in Seq(Entries) /\ rows' = rows \o new /\ now' = now
    BY <2>1 DEF Pumped
  <2>3. \A k \in DOMAIN rows : rows[k].kind = "idle" => rows[k].ts < now
    BY <1>0, <1>2, InputDoes
  <2>4. \A k \in DOMAIN rows' : rows'[k].kind = "idle" => rows'[k].ts < now
    BY <1>0, <2>1, <2>2, <2>3, Added DEF Only
  <2>5. QED
    BY <1>0, <2>2, <2>4 DEF IdleFresh
<1>3. CASE Timer
  <2>1. LastInput' = LastInput /\ UNCHANGED now
    BY <1>0, <1>3, TimerDoes, LastInputSame DEF world
  <2>2. PICK new : Pumped(new) /\ \A r \in Range(new) : r.kind = "idle" => Long
    BY <1>0, <1>3, TimerDoes
  <2>3. QED
    BY <1>a, <2>1, <2>2 DEF Pumped, Appends
<1>4. CASE Reseed
  <2>1. LastInput' = LastInput /\ UNCHANGED now
    BY <1>0, <1>4, ReseedDoes, LastInputSame DEF world
  <2>2. PICK new : Pumped(new) /\ Only(new, {"focus"})
    BY <1>0, <1>4, ReseedDoes
  <2>3. QED
    BY <1>a, <2>1, <2>2 DEF Pumped, Appends, Only
<1>5. CASE Beat \/ UNCHANGED vars
  BY <1>5, StillIdle DEF IdleFresh, world
<1>6. CASE Stop \/ Crash \/ Start
  <2>1. LastInput' = LastInput /\ UNCHANGED now
    BY <1>0, <1>6, StopDoes, CrashDoes, StartDoes, LastInputSame DEF world
  <2>2. CASE Crash
    BY <1>0, <2>1, <2>2, CrashDoes DEF IdleFresh, Long
  <2>3. CASE Stop
    <3>1. PICK new : Appends(new) /\ \A r \in Range(new) : r.kind = "focus"
      BY <1>0, <2>3, StopDoes DEF Appends
    <3>2. QED
      BY <1>a, <2>1, <3>1
  <2>4. CASE Start
    <3>1. PICK new : Appends(new) /\ \A r \in Range(new) : r.kind = "focus"
      BY <1>0, <2>4, StartDoes DEF Appends
    <3>2. QED
      BY <1>a, <2>1, <3>1
  <2>5. QED
    BY <1>6, <2>2, <2>3, <2>4
<1>7. CASE Tick
  <2>1. now' = now + 1 /\ rows' = rows
    BY <1>0, <1>7, TickDoes
  <2>2. \A k \in DOMAIN rows : rows[k].ts <= now /\ rows[k].ts \in Nat
    BY <1>0, RowsAre DEF Dated
  <2>3. QED
    BY <1>0, <2>1, <2>2 DEF IdleFresh
<1>8. QED
  BY <1>1, <1>2, <1>3, <1>4, <1>5, <1>6, <1>7, IdleSteps

-----------------------------------------------------------------------------
(* The user's absences *)

Back(t) == Min(After(t) \cup {now})
Away0(t) == Before(t) .. Back(t) - 1

\* The inputs before and after a unit, as a fact of a state.
AbsenceFact ==
    \A t \in Nat :
        /\ Before(t) \in inputs /\ Before(t) \in Nat /\ Before(t) <= t
        /\ \A i \in inputs : i <= t => i <= Before(t)
        /\ t < now =>
              /\ Back(t) \in Nat /\ t < Back(t) /\ Back(t) <= now
              /\ Back(t) \in inputs \/ Back(t) = now
              /\ \A i \in inputs : i > t => Back(t) <= i

\* Before and Back enclose a unit.
LEMMA AbsenceIs == Base => AbsenceFact
<1> SUFFICES ASSUME Base, NEW t \in Nat
             PROVE  /\ Before(t) \in inputs /\ Before(t) \in Nat /\ Before(t) <= t
                    /\ \A i \in inputs : i <= t => i <= Before(t)
                    /\ t < now =>
                          /\ Back(t) \in Nat /\ t < Back(t) /\ Back(t) <= now
                          /\ Back(t) \in inputs \/ Back(t) = now
                          /\ \A i \in inputs : i > t => Back(t) <= i
  BY DEF AbsenceFact
<1>1. inputs \in SUBSET Nat /\ 0 \in inputs /\ now \in Nat
  BY DEF Base, Typed, Dated
<1>2. /\ Before(t) \in {i \in inputs : i <= t}
      /\ \A y \in {i \in inputs : i <= t} : y <= Before(t)
  <2> DEFINE S == {i \in inputs : i <= t}
  <2>0. 0 \in S
    BY <1>1
  <2>3. S \in SUBSET Int
    <3>1. \A x \in S : x \in inputs
      OBVIOUS
    <3>2. \A x \in inputs : x \in Int
      BY <1>1
    <3>3. QED
      BY <3>1, <3>2, Zenon
  <2>4. S # {} /\ t \in Int
    BY <2>0
  <2>5. \A x \in S : x <= t
    OBVIOUS
  <2>1. S \in SUBSET Int /\ S # {} /\ t \in Int /\ \A x \in S : x <= t
    BY <2>3, <2>4, <2>5
  <2>2. Max(S) \in S /\ \A y \in S : y <= Max(S)
    <3> HIDE DEF S
    <3>1. QED
      BY <2>1, MaxIs
  <2>6. QED
    BY <2>2 DEF Before
<1>3. ASSUME t < now
      PROVE  /\ Back(t) \in After(t) \cup {now}
             /\ \A y \in After(t) \cup {now} : Back(t) <= y
  <2> DEFINE S == After(t) \cup {now}
  <2>1. S \in SUBSET Nat /\ S # {}
    BY <1>1 DEF After
  <2>2. Min(S) \in S /\ \A y \in S : Min(S) <= y
    <3> HIDE DEF S
    <3>1. QED
      BY <2>1, MinIs
  <2>3. QED
    BY <2>2 DEF Back
<1>4. ASSUME t < now
      PROVE  /\ Back(t) \in Nat /\ t < Back(t) /\ Back(t) <= now
             /\ Back(t) \in inputs \/ Back(t) = now
             /\ \A i \in inputs : i > t => Back(t) <= i
  BY <1>1, <1>3, <1>4 DEF After
<1>5. QED
  BY <1>1, <1>2, <1>4

LEMMA AbsenceNext == Base' => AbsenceFact'
BY AbsenceIs, PTL

\* One session saw the user away for longer than the threshold, on an awake
\* machine, before and after t, and did not crash.
OneRun(s, t) ==
    s \in DOMAIN ended /\ <<s, "crash">> \notin dirty /\ \A u \in Away0(t) : past[u + 1].sess = s
Lazy(t) ==
    /\ Back(t) = now \/ past[Back(t) + 1].awake
    /\ \E s : OneRun(s, t)
    /\ Cardinality({u \in Away0(t) : past[u + 1].awake}) > IdleAfter

\* The pump waits for the user to come back.
Waiting(t) ==
    /\ past[t + 1].sess = sess /\ gate = "open" /\ pump.idle
    /\ \E k : Waits(k, sess, "idle", "active") /\ rows[k].ts - rows[k].dur <= t
    /\ \A i \in inputs : i > t => i = now /\ (due \/ power # "on")

\* The session was stopped at its idle row.
StoppedIdle(s, t) ==
    /\ After(t) = {} /\ ended[s] # None
    /\ \E k \in DOMAIN rows : Is(k, s, "idle") /\ rows[k].ts = now

Idled ==
    \A t \in 0 .. now - 1 : \A s :
        s = past[t + 1].sess /\ ~Recorded(s) /\ past[t + 1].gate # "paused" /\ Lazy(t) =>
            t \in Away(s) \/ Waiting(t) \/ StoppedIdle(s, t)

LEMMA LazyIs ==
    ASSUME Base, NEW t \in 0 .. now - 1, NEW s, s = past[t + 1].sess, Lazy(t)
    PROVE  t \in Away0(t) /\ OneRun(s, t)
<1>1. t \in Nat /\ t < now /\ now \in Nat
  BY DEF Base, Typed
<1>2. Before(t) \in Nat /\ Before(t) <= t /\ Back(t) \in Nat /\ t < Back(t)
  BY <1>1, AbsenceIs DEF AbsenceFact
<1>3. t \in Away0(t)
  BY <1>1, <1>2 DEF Away0
<1>4. QED
  BY <1>3 DEF Lazy, OneRun

\* A finite set of more than n numbers from a on reaches a + n.
LEMMA Reaches ==
    ASSUME NEW a \in Nat, NEW b \in Nat, NEW S \in SUBSET (a .. b), NEW n \in Nat, Cardinality(S) > n
    PROVE  \E u \in S : u >= a + n
<1> SUFFICES ASSUME \A u \in S : ~(u >= a + n)
             PROVE  FALSE
  OBVIOUS
<1>1. S \subseteq a .. (a + n - 1)
  OBVIOUS
<1>2. IsFiniteSet(a .. (a + n - 1)) /\ Cardinality(a .. (a + n - 1)) = n
  <2>1. a \in Int /\ a + n - 1 \in Int
    OBVIOUS
  <2>2. /\ IsFiniteSet(a .. (a + n - 1))
        /\ Cardinality(a .. (a + n - 1)) = IF a > a + n - 1 THEN 0 ELSE (a + n - 1) - a + 1
    BY <2>1, FS_Interval
  <2>3. QED
    BY <2>2
<1>3. IsFiniteSet(S) /\ Cardinality(S) \in Nat /\ Cardinality(S) <= n
  <2> DEFINE T == a .. (a + n - 1)
  <2>1. IsFiniteSet(T) /\ Cardinality(T) = n /\ S \in SUBSET T
    BY <1>1, <1>2
  <2>2. IsFiniteSet(S) /\ Cardinality(S) <= Cardinality(T)
    <3> HIDE DEF T
    <3>1. QED
      BY <2>1, FS_Subset, Zenon
  <2>3. Cardinality(S) \in Nat
    BY <2>2, FS_CardinalityType
  <2>4. QED
    BY <2>1, <2>2, <2>3
<1>4. QED
  BY <1>3

\* What was away, what was stored and what was ended stays so.
LEMMA AwayKept ==
    ASSUME Base, Ticks, [Next]_vars, NEW t \in 0 .. now - 1, NEW s \in DOMAIN ended, t \in Away(s)
    PROVE  t \in Away(s)'
<1>1. (\E new : Carried(new, t)) \/ Beat \/ Stop \/ Crash \/ Start \/ Tick
  BY CarriedPumped, CarriedStutter DEF Next
<1>2. CASE \E new : Carried(new, t)
  BY <1>2, AwayPumped DEF Carried
<1>3. CASE Beat \/ Stop \/ Crash \/ Start \/ Tick
  BY <1>3, AwayStopped
<1>4. QED
  BY <1>1, <1>2, <1>3

\* No step takes back a row or the end of a session.
LEMMA Grown ==
    ASSUME Base, [Next]_vars
    PROVE  /\ \E new \in Seq(Entries) : rows' = rows \o new
           /\ \A k \in DOMAIN rows : k \in DOMAIN rows' /\ rows'[k] = rows[k]
           /\ \A s \in DOMAIN ended : s \in DOMAIN ended' /\ (ended[s] # None => ended'[s] = ended[s])
<1>0. Typed /\ Dated /\ Alive
  BY DEF Base
<1>1. /\ \E new \in Seq(Entries) : rows' = rows \o new
      /\ \A s \in DOMAIN ended : s \in DOMAIN ended' /\ (ended[s] # None => ended'[s] = ended[s])
  <2>1. CASE \E new : Pumped(new)
    BY <2>1 DEF Pumped
  <2>2. CASE Beat \/ Crash \/ Tick
    <3>1. UNCHANGED <<rows, ended>>
      BY <1>0, <2>2, BeatDoes, CrashDoes, TickDoes
    <3>2. rows' = rows \o <<>> /\ <<>> \in Seq(Entries)
      BY <1>0, <3>1, Nothing DEF Typed
    <3>3. QED
      BY <3>1, <3>2
  <2>3. CASE Stop
    <3>1. \E new \in Seq(Entries) : rows' = rows \o new
      BY <1>0, <2>3, StopDoes
    <3>2. QED
      BY <1>0, <2>3, <3>1, StopDoes
  <2>4. CASE Start
    <3>1. \E new \in Seq(Entries) : rows' = rows \o new
      BY <1>0, <2>4, StartDoes
    <3>2. QED
      BY <1>0, <2>4, <3>1, StartDoes
  <2>5. QED
    BY <2>1, <2>2, <2>3, <2>4, PumpedSteps
<1>2. \A k \in DOMAIN rows : k \in DOMAIN rows' /\ rows'[k] = rows[k]
  BY <1>0, <1>1, Added
<1>3. QED
  BY <1>1, <1>2

LEMMA StoppedKept ==
    ASSUME Base, [Next]_vars, UNCHANGED <<now, inputs>>, NEW t, NEW s \in DOMAIN ended, StoppedIdle(s, t)
    PROVE  StoppedIdle(s, t)'
<1>1. PICK k \in DOMAIN rows : Is(k, s, "idle") /\ rows[k].ts = now
  BY DEF StoppedIdle
<1>2. k \in DOMAIN rows' /\ rows'[k] = rows[k] /\ ended'[s] = ended[s] /\ ended[s] # None
  BY Grown DEF StoppedIdle
<1>3. After(t)' = {}
  BY DEF StoppedIdle, After
<1>4. QED
  BY <1>1, <1>2, <1>3 DEF StoppedIdle, Is

LEMMA WaitingCarried ==
    ASSUME Base, NEW new, Pumped(new), Lacks(new, "active"), gate' = "open", pump'.idle,
           UNCHANGED inputs, due \/ power # "on" => due' \/ power' # "on",
           NEW t \in 0 .. now - 1, Waiting(t)
    PROVE  Waiting(t)'
<1>1. UNCHANGED <<now, past, sess>> /\ Appends(new)
  BY DEF Pumped, Appends
<1>2. PICK k : Waits(k, sess, "idle", "active") /\ rows[k].ts - rows[k].dur <= t
  BY DEF Waiting
<1>3. WaitsOn(k, sess, "idle", "active")
  BY <1>1, <1>2, StillUnanswered DEF Base
<1>4. Waits(k, sess, "idle", "active")' /\ rows'[k] = rows[k]
  BY <1>1, <1>3, WaitsNext
<1>5. \A i \in inputs' : i > t => i = now' /\ (due' \/ power' # "on")
  BY <1>1 DEF Waiting
<1>6. past'[t + 1].sess = sess'
  BY <1>1 DEF Waiting
<1>7. QED
  BY <1>2, <1>4, <1>5, <1>6 DEF Waiting

LEMMA LazyStays ==
    ASSUME Base, Sessions, [Next]_vars, UNCHANGED <<now, past, inputs>>, NEW t \in 0 .. now - 1, Lazy(t)'
    PROVE  Lazy(t)
<1>1. Back(t)' = Back(t) /\ Away0(t)' = Away0(t)
  BY DEF Back, Away0, After, Before, Max, Min
<1>2. PICK s : OneRun(s, t)'
  BY DEF Lazy
<1>3. s \in DOMAIN ended' /\ <<s, "crash">> \notin dirty' /\ \A u \in Away0(t) : past[u + 1].sess = s
  BY <1>1, <1>2 DEF OneRun
<1>4. t \in Away0(t)
  <2>1. t \in Nat /\ t < now /\ now \in Nat
    BY DEF Base, Typed
  <2>2. QED
    BY <2>1, AbsenceIs DEF AbsenceFact, Away0
<1>5. past[t + 1].sess = s /\ s \in 0 .. Len(ended)
  BY <1>3, <1>4 DEF Sessions
<1>6. s \in DOMAIN ended
  BY <1>3, <1>5, EndedAre, BaseNext DEF Base, Typed
<1>7. <<s, "crash">> \notin dirty
  BY <1>3, DirtyNext
<1>8. OneRun(s, t)
  BY <1>3, <1>6, <1>7 DEF OneRun
<1>9. Back(t) = now \/ past[Back(t) + 1].awake
  BY <1>1 DEF Lazy
<1>10. Cardinality({u \in Away0(t) : past[u + 1].awake}) > IdleAfter
  BY <1>1 DEF Lazy
<1>11. QED
  BY <1>8, <1>9, <1>10 DEF Lazy

\* A waiting user at a step that takes no input and no time.
LEMMA WaitingSame ==
    ASSUME Base, Sessions, IdleFresh, [Next]_vars, UNCHANGED <<now, inputs>>,
           NEW t \in 0 .. now - 1, Waiting(t), NEW s, s = sess, s \in DOMAIN ended,
           <<s, "recording">> \notin dirty', <<s, "crash">> \notin dirty'
    PROVE  t \in Away(s)' \/ Waiting(t)' \/ StoppedIdle(s, t)'
<1>0. /\ Typed /\ Dated /\ Alive /\ Reseeding /\ Base' /\ now \in Nat
      /\ sess \in DOMAIN ended /\ Running /\ ~Recorded(sess)
  <2>1. Typed /\ Dated /\ Alive /\ Reseeding /\ Base' /\ now \in Nat /\ sess \in DOMAIN ended
    BY BaseNext DEF Base, Typed
  <2>2. Running /\ ~Recorded(sess)
    BY <2>1, EndedAre, DirtyNext DEF Running, Recorded
  <2>3. QED
    BY <2>1, <2>2
<1>t. t \in Nat /\ t < now
  BY <1>0
<1>w. /\ gate = "open" /\ pump.idle /\ past[t + 1].sess = sess
      /\ \A i \in inputs : i > t => i = now /\ (due \/ power # "on")
  BY DEF Waiting
<1>k. PICK k : Waits(k, sess, "idle", "active") /\ rows[k].ts - rows[k].dur <= t
  BY DEF Waiting
<1>r. /\ k \in DOMAIN rows /\ rows[k].kind = "idle" /\ rows[k].sess = sess
      /\ rows[k].ts \in Nat /\ rows[k].ts <= now /\ rows[k].dur \in Nat
  BY <1>0, <1>k, RowsAre DEF Waits, Is, Dated
<1>l. LastInput \in inputs /\ LastInput \in Nat /\ LastInput <= now /\ \A i \in inputs : i <= LastInput
  BY InputsAre DEF InputsFact
<1>g. Long => After(t) = {}
  <2>1. IdleAfter \in Nat /\ IdleAfter # 0
    BY PresenceConstants
  <2>2. Long => LastInput < now
    BY <1>0, <1>l, <2>1 DEF Long
  <2>3. Long => \A i \in inputs : ~(i > t)
    <3>1. SUFFICES ASSUME Long, NEW i \in inputs, i > t
                   PROVE  FALSE
      OBVIOUS
    <3>2. i = now /\ i <= LastInput /\ LastInput < now
      BY <1>w, <1>l, <2>2, <3>1
    <3>3. QED
      BY <1>0, <1>l, <3>2
  <2>4. QED
    BY <2>3 DEF After
<1>1. CASE IdleQuiet
  <2>1. /\ pump'.idle = pump.idle
        /\ due \/ power # "on" => due' \/ power' # "on"
        /\ gate' = gate \/ (Pressed /\ (Pause \/ StartRecording \/ Unpause)) \/ EndRecording
    BY <1>0, <1>1, IdleSame DEF IdleQuiet
  <2>2. PICK new : Pumped(new) /\ Lacks(new, "active")
    BY <1>1, IdleSame DEF IdleQuiet
  <2>3. gate' = "open"
    <3>1. ~Pressed
      BY <1>w DEF Pressed
    <3>2. ~EndRecording
      BY <1>w DEF EndRecording
    <3>3. QED
      BY <1>w, <2>1, <3>1, <3>2
  <2>4. QED
    BY <1>w, <2>1, <2>2, <2>3, WaitingCarried
<1>2. CASE Input
  BY <1>0, <1>2, InputDoes
<1>3. CASE Timer
  <2>1. pump' = Timed(pump) /\ UNCHANGED <<power, gate>> /\ power = "on"
    BY <1>0, <1>3, TimerDoes DEF world
  <2>2. pump'.idle = Long
    BY <1>0, <2>1 DEF Timed, Typed, Pumps
  <2>3. CASE Long
    <3>1. PICK new : Pumped(new) /\ Lacks(new, "active")
      BY <1>0, <1>3, <2>3, TimerDoes DEF Lacks
    <3>2. UNCHANGED <<now, past, sess>> /\ Appends(new)
      BY <3>1 DEF Pumped, Appends
    <3>3. WaitsOn(k, sess, "idle", "active")
      BY <1>0, <1>k, <3>1, <3>2, StillUnanswered
    <3>4. Waits(k, sess, "idle", "active")' /\ rows'[k] = rows[k]
      BY <3>2, <3>3, WaitsNext
    <3>5. \A i \in inputs' : i > t => i = now' /\ (due' \/ power' # "on")
      BY <1>g, <2>3 DEF After
    <3>6. gate' = "open" /\ pump'.idle /\ past'[t + 1].sess = sess'
      BY <1>w, <2>1, <2>2, <2>3, <3>2
    <3>7. QED
      BY <1>k, <3>4, <3>5, <3>6 DEF Waiting
  <2>4. CASE ~Long
    <3>1. PICK new : Pumped(new) /\ \E r \in Range(new) : r.kind = "active"
      BY <1>0, <1>3, <1>w, <2>4, TimerDoes
    <3>2. rows[k].ts < now
      BY <1>0, <1>r, <2>4 DEF IdleFresh
    <3>3. Is(k, sess, "idle") /\ Unanswered(k, sess, "active")
      BY <1>k DEF Waits
    <3>4. t \in Away(sess)'
      BY <1>t, <1>k, <1>r, <3>1, <3>2, <3>3, AnswersNow
    <3>5. sess' = sess
      BY <3>1 DEF Pumped
    <3>6. QED
      BY <3>4, <3>5, AwayOf
  <2>5. QED
    BY <2>3, <2>4
<1>4. CASE Reseed
  BY <1>0, <1>4, <1>w, ReseedDoes DEF Reseeding
<1>5. CASE Beat \/ UNCHANGED vars
  <2>1. UNCHANGED <<world, due, pump, gate, rows, sess>>
    BY <1>5, StillIdle
  <2>2. QED
    BY <2>1 DEF Waiting, Waits, Is, Unanswered, world
<1>6. CASE Stop
  <2>1. PICK new : /\ new \in Seq(Entries) /\ rows' = rows \o new
                   /\ \A r \in Range(new) : r.kind = "focus"
    BY <1>0, <1>6, StopDoes
  <2>2. ended'[s] = now /\ s \in DOMAIN ended'
    BY <1>0, <1>6, StopDoes
  <2>3. k \in DOMAIN rows' /\ rows'[k] = rows[k]
    BY <1>r, Grown
  <2>4. CASE rows[k].ts < now
    <3>1. Lacks(new, "active") /\ Appends(new)
      BY <2>1 DEF Lacks, Appends
    <3>2. WaitsOn(k, s, "idle", "active")
      BY <1>0, <1>k, <3>1, StillUnanswered
    <3>3. Under(k, s, "active", t)'
      <4>1. \A j \in DOMAIN rows' : rows'[j].sess = s /\ rows'[j].kind = "active" => rows'[j].ts <= rows'[k].ts
        BY <3>2 DEF WaitsOn
      <4>2. now \in Nat /\ now # None
        BY <1>0, Absent
      <4>3. ended'[s] # None /\ rows'[k].ts < ended'[s] /\ t < ended'[s] /\ rows'[k].ts - rows'[k].dur <= t
        BY <1>t, <1>k, <2>2, <2>3, <2>4, <4>2
      <4> QED
        BY <1>t, <4>1, <4>3 DEF Under, Unanswered, Is
    <3>4. Rests(k, s, t)'
      BY <1>r, <2>3, <3>3 DEF Rests, Is
    <3>5. QED
      BY <1>0, <2>2, <2>3, <3>4, AwayNext DEF AwayFact, Base
  <2>5. CASE rows[k].ts = now
    <3>1. After(t)' = {}
      BY <1>g, <1>r, <2>5 DEF IdleFresh, After
    <3>2. ended'[s] # None
      BY <1>0, <2>2, Absent
    <3>3. QED
      BY <1>r, <2>3, <2>5, <3>1, <3>2 DEF StoppedIdle, Is
  <2>6. QED
    BY <1>0, <1>r, <2>4, <2>5
<1>7. CASE Crash
  BY <1>0, <1>7, CrashDoes
<1>8. CASE Start
  BY <1>0, <1>8, StartDoes
<1>9. CASE Tick
  BY <1>0, <1>9, TickDoes
<1>10. QED
  BY <1>1, <1>2, <1>3, <1>4, <1>5, <1>6, <1>7, <1>8, <1>9, IdleSteps

LEMMA IdledSame ==
    ASSUME Base, Sessions, Ticks, IdleFresh, Idled, [Next]_vars, UNCHANGED <<now, past, inputs>>,
           NEW t \in 0 .. now - 1, NEW s, s = past[t + 1].sess, past[t + 1].gate # "paused",
           ~Recorded(s)', Lazy(t)'
    PROVE  t \in Away(s)' \/ Waiting(t)' \/ StoppedIdle(s, t)'
<1>1. Lazy(t)
  BY LazyStays
<1>2. t \in Away0(t) /\ OneRun(s, t) /\ s \in DOMAIN ended /\ ~Recorded(s)
  BY <1>1, LazyIs, DirtyNext DEF OneRun, Recorded
<1>3. t \in Away(s) \/ Waiting(t) \/ StoppedIdle(s, t)
  BY <1>1, <1>2 DEF Idled
<1>4. CASE t \in Away(s)
  BY <1>2, <1>4, AwayKept
<1>5. CASE StoppedIdle(s, t)
  BY <1>2, <1>5, StoppedKept
<1>6. CASE Waiting(t)
  <2>1. s = sess
    BY <1>6 DEF Waiting
  <2>2. <<s, "crash">> \notin dirty'
    <3>1. PICK r : OneRun(r, t)'
      BY DEF Lazy
    <3>2. Away0(t)' = Away0(t)
      BY DEF Away0, Back, Before, After, Max, Min
    <3>3. r = s
      BY <1>2, <3>1, <3>2 DEF OneRun
    <3>4. QED
      BY <3>1, <3>3 DEF OneRun
  <2>3. <<s, "recording">> \notin dirty'
    BY DEF Recorded
  <2>4. QED
    BY <1>2, <1>6, <2>1, <2>2, <2>3, WaitingSame
<1>7. QED
  BY <1>3, <1>4, <1>5, <1>6

LEMMA IdledInput ==
    ASSUME Base, Sessions, Ticks, Idled, Input,
           NEW t \in 0 .. now - 1, NEW s, s = past'[t + 1].sess, past'[t + 1].gate # "paused",
           ~Recorded(s)', Lazy(t)'
    PROVE  t \in Away(s)' \/ Waiting(t)' \/ StoppedIdle(s, t)'
<1>0. /\ Typed /\ Dated /\ [Next]_vars /\ Base' /\ now \in Nat
  BY BaseNext DEF Base, Typed, Next
<1>t. t \in Nat /\ t < now
  BY <1>0
<1>i. /\ inputs' = inputs \cup {now} /\ (Running => due)
      /\ UNCHANGED <<now, power, past, due, gate, sess, ended, dirty>>
      /\ \A k \in DOMAIN rows : rows[k].kind = "idle" => rows[k].ts < now
  BY <1>0, InputDoes
<1>1. Back(t)' = Back(t) /\ Before(t)' = Before(t)
  <2>1. {i \in inputs' : i <= t} = {i \in inputs : i <= t}
    BY <1>t, <1>i, <1>0
  <2>2. After(t)' \cup {now} = After(t) \cup {now}
    BY <1>t, <1>i DEF After
  <2>3. QED
    BY <1>i, <2>1, <2>2 DEF Back, Before, Max, Min
<1>2. Away0(t)' = Away0(t)
  BY <1>1 DEF Away0
<1>3. Lazy(t)
  BY <1>1, <1>2, <1>i DEF Lazy, OneRun
<1>4. s = past[t + 1].sess /\ past[t + 1].gate # "paused" /\ ~Recorded(s)
  BY <1>i DEF Recorded
<1>5. t \in Away(s) \/ Waiting(t) \/ StoppedIdle(s, t)
  BY <1>3, <1>4 DEF Idled
<1>6. OneRun(s, t) /\ s \in DOMAIN ended
  BY <1>3, <1>4, LazyIs DEF OneRun
<1>7. CASE t \in Away(s)
  BY <1>0, <1>6, <1>7, AwayKept
<1>8. CASE StoppedIdle(s, t)
  BY <1>0, <1>i, <1>8 DEF StoppedIdle, Is
<1>9. CASE Waiting(t)
  <2>1. s = sess /\ Running
    <3>1. s = sess
      BY <1>4, <1>9 DEF Waiting
    <3>2. QED
      BY <1>0, <1>6, <3>1, EndedAre DEF Running
  <2>2. gate = "open" /\ pump.idle
    BY <1>9 DEF Waiting
  <2>3. PICK k : Waits(k, sess, "idle", "active") /\ rows[k].ts - rows[k].dur <= t
    BY <1>9 DEF Waiting
  <2>4. k \in DOMAIN rows /\ rows[k].ts < now /\ Is(k, sess, "idle") /\ Unanswered(k, sess, "active")
    BY <1>i, <2>3 DEF Waits, Is
  <2>5. CASE front # None
    <3>1. PICK new : Pumped(new) /\ \E r \in Range(new) : r.kind = "active"
      BY <1>0, <2>1, <2>2, <2>5, InputDoes DEF Sends
    <3>2. t \in Away(sess)'
      BY <1>0, <1>t, <2>3, <2>4, <3>1, AnswersNow
    <3>3. QED
      BY <1>i, <2>1, <3>2, AwayOf
  <2>6. CASE front = None
    <3>1. UNCHANGED <<pump, rows, open>>
      BY <2>6, InputQuiet
    <3>2. Waits(k, sess, "idle", "active")' /\ rows'[k] = rows[k]
      BY <1>i, <2>3, <3>1 DEF Waits, Is, Unanswered
    <3>3. \A i \in inputs' : i > t => i = now' /\ (due' \/ power' # "on")
      BY <1>i, <1>9, <2>1 DEF Waiting
    <3>4. past'[t + 1].sess = sess' /\ gate' = "open" /\ pump'.idle
      BY <1>i, <1>4, <2>1, <2>2, <3>1
    <3>5. QED
      BY <2>3, <3>2, <3>3, <3>4 DEF Waiting
  <2>7. QED
    BY <2>5, <2>6
<1>10. QED
  BY <1>5, <1>7, <1>8, <1>9

\* Time passes, and the user was seen again after t.
LEMMA IdledTickSeen ==
    ASSUME Base, Sessions, Ticks, Idled, Tick,
           NEW t \in 0 .. now - 1, After(t) # {},
           NEW s, s = past'[t + 1].sess, past'[t + 1].gate # "paused", ~Recorded(s)', Lazy(t)'
    PROVE  t \in Away(s)' \/ Waiting(t)' \/ StoppedIdle(s, t)'
<1>0. /\ Typed /\ Dated /\ [Next]_vars /\ Base' /\ now \in Nat
  BY BaseNext DEF Base, Typed, Next
<1>t. t \in Nat /\ t < now /\ inputs \in SUBSET Nat /\ inputs \subseteq 0 .. now
  BY <1>0 DEF Typed, Dated
<1>d. /\ now' = now + 1 /\ (Settled \/ power = "asleep")
      /\ UNCHANGED <<power, inputs, sess, ended, dirty>>
      /\ \A u \in 0 .. now - 1 : past'[u + 1] = past[u + 1]
      /\ past'[now + 1].awake <=> power = "on"
  BY <1>0, TickDoes
<1>b. PICK i \in inputs : i > t
  BY DEF After
<1>f. /\ Before(t) \in Nat /\ Before(t) <= t
      /\ Back(t) \in Nat /\ t < Back(t) /\ Back(t) <= now
      /\ \A j \in inputs : j > t => Back(t) <= j
      /\ Back(t) \in inputs \/ Back(t) = now
  BY <1>0, <1>t, AbsenceIs DEF AbsenceFact
<1>g. /\ Back(t)' \in Nat /\ t < Back(t)' /\ Back(t)' <= now + 1
      /\ \A j \in inputs : j > t => Back(t)' <= j
      /\ Back(t)' \in inputs \/ Back(t)' = now + 1
  BY <1>0, <1>t, <1>d, AbsenceNext DEF AbsenceFact
<1>1. Back(t) \in inputs
  <2>1. Back(t) = now => i = now
    BY <1>b, <1>t, <1>f
  <2>2. QED
    BY <1>f, <1>b, <2>1
<1>2. Back(t)' = Back(t)
  <2>1. Back(t)' <= Back(t)
    BY <1>f, <1>g, <1>1
  <2>2. Back(t)' \in inputs
    BY <1>g, <1>f, <2>1, <1>0
  <2>3. Back(t) <= Back(t)'
    BY <1>f, <1>g, <2>2
  <2>4. QED
    BY <1>f, <1>g, <2>1, <2>3
<1>3. Before(t)' = Before(t)
  BY <1>d DEF Before, Max
<1>4. Away0(t)' = Away0(t) /\ \A u \in Away0(t) : past'[u + 1] = past[u + 1]
  <2>1. Away0(t)' = Away0(t)
    BY <1>2, <1>3 DEF Away0
  <2>2. \A u \in Away0(t) : u \in 0 .. now - 1
    BY <1>f, <1>0 DEF Away0
  <2>3. QED
    BY <1>d, <2>1, <2>2
<1>5. past'[Back(t) + 1].awake
  <2>1. Back(t) # now'
    BY <1>0, <1>d, <1>f
  <2>2. QED
    BY <1>2, <2>1 DEF Lazy
<1>6. Lazy(t)
  <2>1. Back(t) = now \/ past[Back(t) + 1].awake
    BY <1>0, <1>d, <1>f, <1>5
  <2>2. \E r : OneRun(r, t)
    BY <1>d, <1>4 DEF Lazy, OneRun
  <2>3. {u \in Away0(t) : past[u + 1].awake} = {u \in Away0(t) : past'[u + 1].awake}
    BY <1>4
  <2>4. Cardinality({u \in Away0(t)' : past'[u + 1].awake}) > IdleAfter
    BY DEF Lazy
  <2>5. QED
    BY <1>4, <2>1, <2>2, <2>3, <2>4 DEF Lazy
<1>7. s = past[t + 1].sess /\ past[t + 1].gate # "paused" /\ ~Recorded(s)
  BY <1>d DEF Recorded
<1>8. t \in Away(s) \/ Waiting(t) \/ StoppedIdle(s, t)
  BY <1>6, <1>7 DEF Idled
<1>9. s \in DOMAIN ended
  BY <1>6, <1>7, LazyIs DEF OneRun
<1>10. ~StoppedIdle(s, t)
  BY DEF StoppedIdle
<1>11. ~Waiting(t)
  <2>1. SUFFICES ASSUME Waiting(t)
                 PROVE  FALSE
    OBVIOUS
  <2>2. \A j \in inputs : j > t => j = now /\ (due \/ power # "on")
    BY <2>1 DEF Waiting
  <2>3. Back(t) = now /\ (due \/ power # "on")
    BY <1>1, <1>f, <2>2
  <2>4. power = "asleep"
    BY <1>d, <2>3 DEF Settled
  <2>5. QED
    BY <1>d, <1>5, <2>3, <2>4
<1>12. QED
  BY <1>0, <1>8, <1>9, <1>10, <1>11, AwayKept

\* Time passes, and the user was not seen since t: the pump, which had time to
\* notice, waits.
LEMMA IdledTickUnseen ==
    ASSUME Base, Sessions, Paused, Flag, Overdue, IdleRow, Tick,
           NEW t \in Nat, t <= now, After(t) = {},
           NEW s, s = past'[t + 1].sess, past'[t + 1].gate # "paused", ~Recorded(s)', Lazy(t)'
    PROVE  Waiting(t)'
<1>0. /\ Typed /\ Dated /\ Alive /\ [Next]_vars /\ Base' /\ now \in Nat /\ Overdue'
      /\ IdleAfter \in Nat /\ inputs \in SUBSET Nat /\ inputs \subseteq 0 .. now
  BY BaseNext, OverdueNext, PresenceConstants DEF Base, Typed, Dated, Next
<1>d. /\ now' = now + 1
      /\ UNCHANGED <<inputs, pump, gate, rows, sess, ended, dirty>>
      /\ \A u \in 0 .. now - 1 : past'[u + 1] = past[u + 1]
      /\ past'[now + 1].sess = sess /\ past'[now + 1].gate = gate
  BY <1>0, TickDoes
<1>l. LastInput \in inputs /\ LastInput \in Nat /\ LastInput <= t /\ \A i \in inputs : i <= LastInput /\ i <= t
  BY <1>0, InputsAre DEF InputsFact, After
<1>k. LastInput' = LastInput
  BY <1>d, LastInputSame
<1>g. /\ Before(t)' \in inputs /\ \A i \in inputs : i <= t => i <= Before(t)'
      /\ Back(t)' \in Nat /\ t < Back(t)' /\ Back(t)' <= now + 1
      /\ Back(t)' \in inputs \/ Back(t)' = now + 1
  BY <1>0, <1>d, AbsenceNext DEF AbsenceFact
<1>1. Back(t)' = now + 1 /\ Before(t)' = LastInput
  <2>1. Back(t)' = now + 1
    BY <1>0, <1>l, <1>g
  <2>2. Before(t)' = LastInput
    <3>1. Before(t)' \in Nat /\ Before(t)' <= LastInput
      BY <1>0, <1>l, <1>g
    <3>2. LastInput <= Before(t)'
      BY <1>l, <1>g
    <3>3. QED
      BY <1>l, <3>1, <3>2
  <2>3. QED
    BY <2>1, <2>2
<1>2. Away0(t)' = LastInput .. now
  BY <1>0, <1>1 DEF Away0
<1>3. now \in LastInput .. now /\ t \in LastInput .. now
  BY <1>0, <1>l
<1>4. PICK r : OneRun(r, t)'
  BY DEF Lazy
<1>5. r \in DOMAIN ended /\ \A u \in LastInput .. now : past'[u + 1].sess = r
  BY <1>2, <1>4, <1>d DEF OneRun
<1>6. r = s /\ s = sess /\ Running
  <2>1. r = s /\ s = sess
    BY <1>3, <1>5, <1>d
  <2>2. QED
    BY <1>0, <1>5, <2>1, EndedAre DEF Running
<1>7. ~Recorded(sess)
  BY <1>d, <1>6 DEF Recorded
<1>8. gate = "open"
  <2>1. gate # "recording"
    BY <1>0, <1>7 DEF Alive
  <2>2. gate # "paused"
    <3>1. SUFFICES ASSUME gate = "paused"
                   PROVE  FALSE
      OBVIOUS
    <3>2. PICK k : /\ rows[k].ts \in inputs
                   /\ \A u \in rows[k].ts .. now - 1 : past[u + 1].gate = "paused"
      BY <3>1 DEF Paused
    <3>3. t # now
      BY <1>d, <3>1
    <3>6. rows[k].ts \in Nat /\ rows[k].ts <= t
      BY <1>0, <1>l, <3>2
    <3>4. t \in rows[k].ts .. now - 1 /\ t \in 0 .. now - 1
      BY <1>0, <3>6, <3>3
    <3>5. QED
      BY <1>d, <3>2, <3>4
  <2>3. QED
    BY <1>0, <2>1, <2>2 DEF Typed
<1>9. pump.idle
  <2> DEFINE S == {u \in LastInput .. now : past'[u + 1].awake}
  <2>1. Cardinality(S) > IdleAfter
    BY <1>2 DEF Lazy
  <2>2. PICK u \in S : u >= LastInput + IdleAfter
    <3>1. S \in SUBSET (LastInput .. now) /\ LastInput \in Nat
      BY <1>l
    <3>2. QED
      <4> HIDE DEF S
      <4>1. QED
        BY <1>0, <2>1, <3>1, Reaches
  <2>3. u \in LastInput .. now /\ past'[u + 1].awake /\ past'[u + 1].sess = sess
    BY <1>5, <1>6, <2>2
  <2>4. u \in Nat /\ u <= now /\ u \in LastInput' + IdleAfter .. now' - 1
    <3>1. u \in Nat /\ u <= now /\ LastInput + IdleAfter <= u
      BY <1>0, <1>l, <2>2, <2>3
    <3>2. u \in LastInput + IdleAfter .. (now + 1) - 1
      BY <1>0, <1>l, <3>1
    <3>3. QED
      BY <1>d, <1>k, <3>1, <3>2
  <2>5. Lonely(u)'
    BY <1>d, <2>3, <2>4 DEF Lonely
  <2>6. Running' /\ ~Recorded(sess)'
    BY <1>d, <1>6, <1>7 DEF Running, Recorded
  <2>7. QED
    BY <1>0, <1>d, <2>5, <2>6 DEF Overdue
<1>10. PICK k : Waits(k, sess, "idle", "active") /\ rows[k].ts - rows[k].dur <= LastInput
  BY <1>6, <1>7, <1>8, <1>9 DEF IdleRow
<1>11. rows[k].ts - rows[k].dur <= t
  <2>1. rows[k].ts \in Nat /\ rows[k].dur \in Nat
    BY <1>0, <1>10, RowsAre DEF Waits
  <2>2. QED
    BY <1>l, <1>10, <2>1
<1>12. Waits(k, sess, "idle", "active")' /\ rows' = rows
  BY <1>d, <1>10 DEF Waits, Is, Unanswered
<1>13. \A i \in inputs' : ~(i > t)
  BY <1>d DEF After
<1>14. past'[t + 1].sess = sess' /\ gate' = "open" /\ pump'.idle
  BY <1>d, <1>6, <1>8, <1>9
<1>15. QED
  BY <1>11, <1>12, <1>13, <1>14 DEF Waiting

\* Idled is inductive.
LEMMA IdledNext ==
    ASSUME Base, Sessions, Ticks, Paused, Flag, Overdue, IdleRow, IdleFresh, Idled, [Next]_vars
    PROVE  Idled'
<1>0. Typed /\ Dated /\ now \in Nat /\ inputs \subseteq 0 .. now
  BY DEF Base, Typed, Dated
<1>1. UNCHANGED <<now, past, inputs>> \/ Input \/ Tick
  <2>1. IdleQuiet => UNCHANGED <<now, past, inputs>>
    <3>1. ASSUME IdleQuiet
          PROVE  UNCHANGED <<now, past, inputs>>
      <4>1. inputs' = inputs /\ \E new : Pumped(new)
        BY <3>1, IdleSame DEF IdleQuiet
      <4>2. QED
        BY <4>1 DEF Pumped
    <3>2. QED
      BY <3>1
  <2>2. Timer \/ Reseed \/ Beat \/ Stop \/ Crash \/ Start \/ UNCHANGED vars => UNCHANGED <<now, past, inputs>>
    BY DEF Timer, Reseed, Beat, Stop, Crash, Start, vars, world
  <2>3. QED
    BY <2>1, <2>2, IdleSteps
<1> SUFFICES ASSUME NEW t \in 0 .. now' - 1, NEW s, s = past'[t + 1].sess, ~Recorded(s)',
                    past'[t + 1].gate # "paused", Lazy(t)'
             PROVE  t \in Away(s)' \/ Waiting(t)' \/ StoppedIdle(s, t)'
  BY DEF Idled
<1>2. CASE UNCHANGED <<now, past, inputs>>
  BY <1>2, IdledSame
<1>3. CASE Input
  <2>1. now' = now
    BY <1>0, <1>3, InputDoes
  <2>2. QED
    BY <1>3, <2>1, IdledInput
<1>4. CASE Tick
  <2>1. now' = now + 1
    BY <1>0, <1>4, TickDoes
  <2>2. t \in Nat /\ t <= now
    BY <1>0, <2>1
  <2>3. CASE After(t) = {}
    BY <1>4, <2>2, <2>3, IdledTickUnseen
  <2>4. CASE After(t) # {}
    <3>1. t # now
      <4>1. PICK i \in inputs : i > t
        BY <2>4 DEF After
      <4>2. i \in Nat /\ i <= now
        BY <1>0, <4>1
      <4>3. QED
        BY <1>0, <2>2, <4>1, <4>2
    <3>2. t \in 0 .. now - 1
      BY <1>0, <2>2, <3>1
    <3>3. QED
      BY <1>4, <2>4, <3>2, IdledTickSeen
  <2>5. QED
    BY <2>3, <2>4
<1>5. QED
  BY <1>1, <1>2, <1>3, <1>4

-----------------------------------------------------------------------------
(* The invariant, and what is counted *)

PresenceInv ==
    /\ Base /\ Sessions /\ Facing /\ Current /\ Stored /\ Ticks /\ Paused /\ Covered
    /\ Flag /\ Overdue /\ IdleRow /\ IdleFresh /\ Idled

\* The invariant holds before the first start.
LEMMA PresenceInit == Init => PresenceInv
<1> SUFFICES ASSUME Init
             PROVE  PresenceInv
  OBVIOUS
<1>0. Base /\ Closed.seg = None /\ Closed.row = None
  BY BaseInit, ClosedIs
<1>f. Fresh0.cur = None /\ Fresh0.resumed = None /\ ~Fresh0.idle
  BY FreshIs
<1>1. /\ now = 0 /\ power = "on" /\ ~due /\ gate = "open" /\ sess = 0 /\ dirty = {}
      /\ pump.cur = None /\ pump.resumed = None /\ ~pump.idle /\ open.seg = None /\ open.row = None
  BY <1>0, <1>f DEF Init
<1>2. DOMAIN rows = {} /\ DOMAIN ended = {} /\ 0 .. now - 1 = {}
  BY <1>1, Nothing DEF Init
<1>3. Sessions
  BY <1>1, <1>2 DEF Sessions, Running
<1>4. Facing /\ Current /\ Stored /\ Paused /\ Covered
  BY <1>1, <1>2 DEF Facing, Current, Stored, Paused, Covered
<1>5. Ticks
  BY <1>1 DEF Ticks, Running
<1>6. Flag /\ Overdue /\ IdleRow /\ IdleFresh /\ Idled
  BY <1>1, <1>2 DEF Flag, Overdue, IdleRow, IdleFresh, Idled, Running
<1>7. QED
  BY <1>0, <1>3, <1>4, <1>5, <1>6 DEF PresenceInv

\* Every step keeps the invariant.
LEMMA PresenceStep == PresenceInv /\ [Next]_vars => PresenceInv'
<1> SUFFICES ASSUME PresenceInv, [Next]_vars
             PROVE  PresenceInv'
  OBVIOUS
<1>0. /\ Base /\ Sessions /\ Facing /\ Current /\ Stored /\ Ticks /\ Paused /\ Covered
      /\ Flag /\ Overdue /\ IdleRow /\ IdleFresh /\ Idled
  BY DEF PresenceInv
<1>1. Base' /\ Sessions' /\ Facing' /\ Current' /\ Stored'
  BY <1>0, BaseNext, SessionsNext, FacingNext, CurrentNext, StoredNext
<1>2. Ticks' /\ Paused' /\ Covered'
  BY <1>0, TicksNext, PausedNext, CoveredNext
<1>3. Flag' /\ Overdue' /\ IdleRow' /\ IdleFresh'
  BY <1>0, FlagNext, OverdueNext, IdleRowNext, IdleFreshNext
<1>4. Idled'
  BY <1>0, IdledNext
<1>5. QED
  BY <1>1, <1>2, <1>3, <1>4 DEF PresenceInv

\* Through every order of switches, ticks, broadcasts, sleeps, pauses, stops
\* and crashes, the pump, the rows and the spans of the read layer agree on who
\* was in front, asleep, paused or gone.
THEOREM PresenceInvariant == Spec => []PresenceInv
BY PresenceInit, PresenceStep, PTL DEF Spec

\* A credit of t is a dwell or the open row, t lies in it, and not away.
CreditOf(c, t) ==
    \/ \E i \in DOMAIN rows :
          /\ Dwelt(rows[i]) /\ t \in rows[i].ts - rows[i].dur .. rows[i].ts - 1
          /\ t \notin Away(rows[i].sess)
          /\ c = [row |-> i, app |-> rows[i].prev, units |-> DwellSpan(i) \ Away(rows[i].sess)]
    \/ /\ open.row # None /\ t \in open.row.start .. open.row.high - 1
       /\ t \notin Away(open.row.sess)
       /\ c = [row |-> 0, app |-> open.row.app, units |-> LiveSpan]

\* What counts a unit is a dwell or the open row.
LEMMA CreditsAre ==
    ASSUME NEW c \in Credits, NEW t \in c.units
    PROVE  CreditOf(c, t)
<1>1. CASE \E i \in Dwells :
               c = [row |-> i, app |-> rows[i].prev, units |-> DwellSpan(i) \ Away(rows[i].sess)]
  <2>1. PICK i \in Dwells :
             c = [row |-> i, app |-> rows[i].prev, units |-> DwellSpan(i) \ Away(rows[i].sess)]
    BY <1>1
  <2>2. i \in DOMAIN rows /\ Dwelt(rows[i])
    BY DEF Dwells, Dwelt
  <2>3. t \in DwellSpan(i) /\ t \notin Away(rows[i].sess)
    BY <2>1
  <2>4. t \in rows[i].ts - rows[i].dur .. rows[i].ts - 1
    BY <2>3 DEF DwellSpan, Span
  <2>5. QED
    BY <2>1, <2>2, <2>3, <2>4 DEF CreditOf
<1>2. CASE open.row # None /\ c = [row |-> 0, app |-> open.row.app, units |-> LiveSpan]
  <2>1. t \in LiveSpan
    BY <1>2
  <2>2. t \in Span(open.row.start, open.row.high) /\ t \notin Away(open.row.sess)
    BY <2>1 DEF LiveSpan
  <2>3. QED
    BY <1>2, <2>2 DEF CreditOf, Span
<1>3. QED
  BY <1>1, <1>2 DEF Credits

\* What a credit of t says of t.
LEMMA CreditSays ==
    ASSUME Base, Current, Stored, NEW c, NEW t, CreditOf(c, t)
    PROVE  /\ Shown(t) /\ t \notin Away(past[t + 1].sess)
           /\ ~Recorded(past[t + 1].sess) => c.app = past[t + 1].app
<1>1. CASE \E i \in DOMAIN rows :
          /\ Dwelt(rows[i]) /\ t \in rows[i].ts - rows[i].dur .. rows[i].ts - 1
          /\ t \notin Away(rows[i].sess) /\ c.app = rows[i].prev
  <2>1. PICK i \in DOMAIN rows :
          /\ Dwelt(rows[i]) /\ t \in rows[i].ts - rows[i].dur .. rows[i].ts - 1
          /\ t \notin Away(rows[i].sess) /\ c.app = rows[i].prev
    BY <1>1
  <2>2. past[t + 1].sess = rows[i].sess /\ (~Recorded(rows[i].sess) => past[t + 1].app = rows[i].prev)
    BY <2>1 DEF Stored
  <2>3. Shown(t)
    BY <2>1 DEF Shown
  <2>4. QED
    BY <2>1, <2>2, <2>3
<1>2. CASE /\ open.row # None /\ t \in open.row.start .. open.row.high - 1
           /\ t \notin Away(open.row.sess) /\ c.app = open.row.app
  <2>1. past[t + 1].sess = open.row.sess /\ (~Recorded(open.row.sess) => past[t + 1].app = open.row.app)
    BY <1>2 DEF Current
  <2>2. Shown(t)
    BY <1>2 DEF Shown
  <2>3. QED
    BY <1>2, <2>1, <2>2
<1>3. QED
  BY <1>1, <1>2 DEF CreditOf

\* Two credits of one unit are one.
LEMMA CreditsMeet ==
    ASSUME Base, Current, Stored, NEW c, NEW d, NEW t \in Nat, CreditOf(c, t), CreditOf(d, t),
           ~Recorded(past[t + 1].sess)
    PROVE  c = d
<1>0. Typed /\ Dated
  BY DEF Base
<1>1. ASSUME NEW i \in DOMAIN rows, Dwelt(rows[i]), t \in rows[i].ts - rows[i].dur .. rows[i].ts - 1
      PROVE  /\ rows[i].ts \in Nat /\ rows[i].dur \in Nat /\ ~Recorded(rows[i].sess)
             /\ rows[i].ts - rows[i].dur <= t /\ t < rows[i].ts
  <2>1. rows[i].ts \in Nat /\ rows[i].dur \in Nat
    BY <1>0, <1>1, RowsAre
  <2>2. past[t + 1].sess = rows[i].sess
    BY <1>1 DEF Stored
  <2>3. QED
    BY <1>1, <2>1, <2>2
<1>2. ASSUME open.row # None, t \in open.row.start .. open.row.high - 1
      PROVE  /\ open.row.start \in Nat /\ open.row.high \in Nat /\ ~Recorded(open.row.sess)
             /\ open.row.start <= t
  <2>1. open.row.start \in Nat /\ open.row.high \in Nat
    BY <1>0, <1>2, OpensAre DEF Typed
  <2>2. past[t + 1].sess = open.row.sess
    BY <1>2 DEF Current
  <2>3. QED
    BY <1>2, <2>1, <2>2
<1>3. ASSUME NEW i \in DOMAIN rows, Dwelt(rows[i]), t \in rows[i].ts - rows[i].dur .. rows[i].ts - 1,
             NEW j \in DOMAIN rows, Dwelt(rows[j]), t \in rows[j].ts - rows[j].dur .. rows[j].ts - 1
      PROVE  ~(i < j)
  <2>1. SUFFICES ASSUME i < j
                 PROVE  FALSE
    OBVIOUS
  <2>2. /\ rows[i].ts \in Nat /\ rows[j].ts \in Nat /\ rows[j].dur \in Nat
        /\ t < rows[i].ts /\ rows[j].ts - rows[j].dur <= t /\ ~Recorded(rows[j].sess)
    BY <1>1, <1>3
  <2>3. rows[i].ts <= rows[j].ts - rows[j].dur
    BY <1>3, <2>1, <2>2 DEF Stored
  <2>4. QED
    BY <2>2, <2>3
<1>4. ASSUME NEW i \in DOMAIN rows, Dwelt(rows[i]), t \in rows[i].ts - rows[i].dur .. rows[i].ts - 1,
             open.row # None, t \in open.row.start .. open.row.high - 1
      PROVE  FALSE
  <2>1. rows[i].ts \in Nat /\ t < rows[i].ts
    BY <1>1, <1>4
  <2>2. open.row.start \in Nat /\ open.row.start <= t /\ ~Recorded(open.row.sess)
    BY <1>2, <1>4
  <2>3. rows[i].ts <= open.row.start
    BY <1>4, <2>2 DEF Current
  <2>4. QED
    BY <2>1, <2>2, <2>3
<1>5. ASSUME NEW i \in DOMAIN rows, Dwelt(rows[i]), t \in rows[i].ts - rows[i].dur .. rows[i].ts - 1,
             NEW j \in DOMAIN rows, Dwelt(rows[j]), t \in rows[j].ts - rows[j].dur .. rows[j].ts - 1
      PROVE  i = j
  <2>1. i \in Nat /\ j \in Nat
    BY <1>0, <1>5, RowsAre
  <2>2. ~(i < j) /\ ~(j < i)
    BY <1>3, <1>5
  <2>3. QED
    BY <2>1, <2>2
<1>6. CASE \E i \in DOMAIN rows :
            /\ Dwelt(rows[i]) /\ t \in rows[i].ts - rows[i].dur .. rows[i].ts - 1
            /\ c = [row |-> i, app |-> rows[i].prev, units |-> DwellSpan(i) \ Away(rows[i].sess)]
  <2>1. PICK i \in DOMAIN rows :
            /\ Dwelt(rows[i]) /\ t \in rows[i].ts - rows[i].dur .. rows[i].ts - 1
            /\ c = [row |-> i, app |-> rows[i].prev, units |-> DwellSpan(i) \ Away(rows[i].sess)]
    BY <1>6
  <2>2. ~(open.row # None /\ t \in open.row.start .. open.row.high - 1)
    BY <1>4, <2>1
  <2>3. PICK j \in DOMAIN rows :
            /\ Dwelt(rows[j]) /\ t \in rows[j].ts - rows[j].dur .. rows[j].ts - 1
            /\ d = [row |-> j, app |-> rows[j].prev, units |-> DwellSpan(j) \ Away(rows[j].sess)]
    BY <2>2 DEF CreditOf
  <2>4. i = j
    BY <1>5, <2>1, <2>3
  <2>5. QED
    BY <2>1, <2>3, <2>4
<1>7. CASE /\ open.row # None /\ t \in open.row.start .. open.row.high - 1
           /\ c = [row |-> 0, app |-> open.row.app, units |-> LiveSpan]
  <2>1. d = [row |-> 0, app |-> open.row.app, units |-> LiveSpan]
    BY <1>4, <1>7 DEF CreditOf
  <2>2. QED
    BY <1>7, <2>1
<1>8. QED
  BY <1>6, <1>7 DEF CreditOf

\* What is idle for certain is Lazy.
LEMMA SurelyLazy ==
    ASSUME Base, NEW t \in 0 .. now - 1, SurelyIdle(t)
    PROVE  Lazy(t) /\ After(t) # {}
<1>0. t \in Nat /\ t < now /\ now \in Nat /\ inputs \in SUBSET Nat /\ inputs \subseteq 0 .. now
  BY DEF Base, Typed, Dated
<1>1. After(t) # {}
  BY DEF SurelyIdle
<1>2. Min(After(t)) \in After(t) /\ \A y \in After(t) : Min(After(t)) <= y
  <2> DEFINE S == After(t)
  <2>1. S \in SUBSET Nat /\ S # {}
    BY <1>0, <1>1 DEF After
  <2>2. Min(S) \in S /\ \A y \in S : Min(S) <= y
    <3> HIDE DEF S
    <3>1. QED
      BY <2>1, MinIs
  <2>3. QED
    BY <2>2
<1>3. /\ Back(t) \in Nat /\ Back(t) <= now /\ t < Back(t)
      /\ Back(t) \in inputs \/ Back(t) = now
      /\ \A i \in inputs : i > t => Back(t) <= i
  BY <1>0, AbsenceIs DEF AbsenceFact
<1>4. Min(After(t)) \in inputs /\ Min(After(t)) > t /\ Min(After(t)) \in Nat /\ Min(After(t)) <= now
  <2>1. \A i \in After(t) : i \in inputs /\ i > t
    BY DEF After
  <2>2. \A i \in inputs : i \in Nat /\ i <= now
    BY <1>0
  <2>3. QED
    BY <1>2, <2>1, <2>2, Zenon
<1>5. Back(t) <= Min(After(t))
  BY <1>3, <1>4
<1>6. Min(After(t)) <= Back(t)
  <2>1. CASE Back(t) = now
    BY <1>4, <2>1
  <2>2. CASE Back(t) \in inputs
    BY <1>2, <1>3, <2>2 DEF After
  <2>3. QED
    BY <1>3, <2>1, <2>2
<1>7. Min(After(t)) = Back(t)
  BY <1>3, <1>4, <1>5, <1>6
<1>8. Span(Before(t), Back(t)) = Away0(t)
  BY DEF Span, Away0
<1>9. QED
  BY <1>1, <1>7, <1>8 DEF SurelyIdle, Lazy, OneRun

\* A counted minute is one the user spent in the window it is counted for: at
\* most one credit of it, on an awake machine, of a user who was there, with
\* capture not paused (the readers' completed dwells and open-focus row minus the
\* merged away spans, after any order of switches, samples, broadcasts, sleeps,
\* pauses, stops and crashes).
LEMMA CreditedInv == PresenceInv => CreditedOnce
<1> SUFFICES ASSUME PresenceInv, Settled,
                    NEW t \in 0 .. now - 1, <<past[t + 1].sess, "recording">> \notin dirty
             PROVE  LET credited == {c \in Credits : t \in c.units}
                    IN /\ Cardinality(credited) <= 1
                       /\ \A c \in credited : /\ c.app = past[t + 1].app
                                              /\ past[t + 1].awake /\ past[t + 1].gate # "paused"
                                              /\ ~SurelyIdle(t)
  BY DEF CreditedOnce
<1> DEFINE credited == {c \in Credits : t \in c.units}
           s == past[t + 1].sess
<1>0. /\ Base /\ Current /\ Stored /\ Covered /\ Idled /\ ~Recorded(s) /\ t \in Nat
      /\ past[t + 1].awake \in BOOLEAN
  <2>1. Base /\ Current /\ Stored /\ Covered /\ Idled /\ ~Recorded(s)
    BY DEF PresenceInv, Recorded
  <2>2. t \in Nat /\ past[t + 1].awake \in BOOLEAN
    BY <2>1, UnitsAre DEF Base
  <2>3. QED
    BY <2>1, <2>2
<1>1. \A c \in credited : CreditOf(c, t)
  BY CreditsAre
<1>2. \A c, d \in credited : c = d
  BY <1>0, <1>1, CreditsMeet
<1>3. Cardinality(credited) <= 1
  <2>1. CASE credited = {}
    <3>1. Cardinality({}) = 0
      BY FS_EmptySet
    <3> HIDE DEF credited
    <3>2. QED
      BY <2>1, <3>1
  <2>2. CASE credited # {}
    <3>1. PICK c : c \in credited
      BY <2>2
    <3>2. credited = {c}
      BY <1>2, <3>1
    <3>3. Cardinality({c}) = 1
      BY FS_Singleton
    <3> HIDE DEF credited
    <3>4. QED
      BY <3>2, <3>3
  <2>3. QED
    BY <2>1, <2>2
<1>4. ASSUME NEW c \in credited
      PROVE  /\ c.app = past[t + 1].app
             /\ past[t + 1].awake /\ past[t + 1].gate # "paused"
             /\ ~SurelyIdle(t)
  <2>1. CreditOf(c, t)
    BY <1>1, <1>4
  <2>2. Shown(t) /\ t \notin Away(s) /\ c.app = past[t + 1].app
    BY <1>0, <2>1, CreditSays
  <2>3. ~Sleeping(t)
    BY DEF Sleeping, Settled
  <2>4. ~Absence(t)
    BY <1>0, <2>2, <2>3 DEF Covered
  <2>5. ~SurelyIdle(t)
    <3>1. SUFFICES ASSUME SurelyIdle(t)
                   PROVE  FALSE
      OBVIOUS
    <3>2. Lazy(t) /\ After(t) # {}
      BY <1>0, <3>1, SurelyLazy
    <3>3. past[t + 1].gate # "paused"
      BY <2>4 DEF Absence
    <3>4. Waiting(t) \/ StoppedIdle(s, t)
      BY <1>0, <2>2, <3>2, <3>3 DEF Idled
    <3>5. ~Waiting(t)
      BY <3>2 DEF Waiting, After, Settled
    <3>6. QED
      BY <3>2, <3>4, <3>5 DEF StoppedIdle
  <2>6. QED
    BY <2>2, <2>4, <2>5 DEF Absence
<1>5. QED
  BY <1>3, <1>4

\* CreditedOnce, of add_active_foreground_ms over what capture and writer left:
\* a unit is counted once at most, for who was in front, and not while away.
THEOREM CreditedCorrect == Spec => []CreditedOnce
BY PresenceInvariant, CreditedInv, PTL

-----------------------------------------------------------------------------
(* Sessions of plain use *)

\* No pause, recording, crash or unannounced sleep fell in the session.
Plain(s) == \A d \in dirty : d[1] # s

\* A session of plain use was one before.
LEMMA PlainNext ==
    ASSUME Base, [Next]_vars, NEW s, Plain(s)'
    PROVE  Plain(s) /\ ~Recorded(s) /\ ~Recorded(s)'
BY DirtyNext DEF Plain, Recorded

\* The steps that touch no segment.
Aside ==
    \/ Input \/ Sleep \/ Wake \/ Pause \/ Unpause \/ StartRecording \/ EndRecording
    \/ Beat \/ UNCHANGED vars

LEMMA AsideDoes ==
    ASSUME Base, Aside
    PROVE  /\ pump'.cur = pump.cur /\ pump'.suspended = pump.suspended
           /\ pump'.tick = pump.tick /\ pump'.resumed = pump.resumed
           /\ UNCHANGED <<now, past, front, sess, ended>>
<1>0. Typed /\ Dated /\ Alive
  BY DEF Base
<1>1. CASE Input
  BY <1>0, <1>1, InputDoes DEF Typed, Pumps
<1>2. CASE Sleep \/ Wake
  BY <1>0, <1>2, SleepDoes, WakeDoes
<1>3. CASE Pause \/ Unpause \/ StartRecording \/ EndRecording
  BY <1>0, <1>3, PauseDoes, UnpauseDoes, StartRecordingDoes, EndRecordingDoes DEF world
<1>4. CASE Beat \/ UNCHANGED vars
  BY <1>0, <1>4, BeatDoes DEF vars, world
<1>5. QED
  BY <1>1, <1>2, <1>3, <1>4 DEF Aside

LEMMA AsideSteps ==
    ASSUME [Next]_vars
    PROVE  Aside \/ Focus \/ Timer \/ Suspend \/ ResumeNotice \/ Lock \/ Unlock \/ Reseed
              \/ Stop \/ Crash \/ Start \/ Tick
BY DEF Next, Aside

\* Whoever is in front has a segment; one that outlasts a suspend was seeded
\* after it.
Following ==
    /\ Running /\ front # None /\ ~pump.suspended => pump.cur # None
    /\ Running /\ pump.suspended /\ pump.cur # None =>
          \A u \in pump.cur.at .. now - 1 : ~past[u + 1].awake

LEMMA InFrontIs ==
    ASSUME Typed, front # None
    PROVE  InFront # None /\ InFront.at = now /\ InFront.app = front
<1>1. [app |-> front, at |-> now] \in Segments
  BY DEF Typed, Windows, Segments
<1>2. QED
  BY <1>1, Absent DEF InFront

\* Following is inductive.
LEMMA FollowingNext ==
    ASSUME Base, Ticks, Following, [Next]_vars
    PROVE  Following'
<1>0. Typed /\ Dated /\ Alive /\ Reseeding /\ now \in Nat /\ pump \in Pumps
  BY DEF Base, Typed
<1>n. \A x : x \in now .. now - 1 => FALSE
  BY <1>0
<1>1. CASE Aside
  BY <1>1, AsideDoes DEF Following, Running
<1>2. CASE Focus
  <2>1. /\ UNCHANGED <<now, past, sess>>
        /\ pump' = [pump EXCEPT !.cur = pump'.cur] /\ pump'.cur # None
    BY <1>0, <1>2, FocusDoes
  <2>2. PICK new : Pumped(new)
    BY <1>0, <1>2, FocusDoes
  <2>3. pump'.suspended = pump.suspended
    BY <1>0, <2>1 DEF Pumps
  <2>4. pump'.cur = pump.cur \/ pump'.cur = [app |-> front', at |-> now]
    BY <2>1, <2>2 DEF Pumped
  <2>5. CASE pump'.cur = pump.cur
    BY <2>1, <2>3, <2>5 DEF Following, Running
  <2>6. CASE pump'.cur = [app |-> front', at |-> now]
    <3>1. pump'.cur.at = now
      BY <2>6
    <3>2. QED
      BY <1>n, <2>1, <3>1 DEF Following
  <2>7. QED
    BY <2>4, <2>5, <2>6
<1>3. CASE Timer
  <2>1. pump' = Timed(pump) /\ UNCHANGED <<now, front, sess>>
    BY <1>0, <1>3, TimerDoes DEF world
  <2>2. /\ ~pump'.suspended
        /\ pump'.cur = IF Missing(pump) \/ (pump.suspended /\ front # None) THEN InFront ELSE pump.cur
    BY <1>0, <2>1 DEF Timed, Pumps
  <2>3. Running /\ front # None => pump'.cur # None
    BY <1>0, <2>2, InFrontIs DEF Following
  <2>4. QED
    BY <2>1, <2>2, <2>3 DEF Following, Running
<1>4. CASE Suspend
  <2>1. pump' = [pump EXCEPT !.cur = None, !.suspended = TRUE, !.resumed = None, !.tick = now]
    BY <1>0, <1>4, SuspendDoes
  <2>2. pump'.cur = None /\ pump'.suspended
    BY <1>0, <2>1 DEF Pumps
  <2>3. QED
    BY <2>2 DEF Following
<1>5. CASE ResumeNotice
  <2>1. /\ UNCHANGED <<now, front, past, sess>>
        /\ pump' = IF ~Running THEN pump
                   ELSE IF Anew(pump) THEN Woken(pump) ELSE [pump EXCEPT !.tick = now]
    BY <1>0, <1>5, ResumeNoticeDoes DEF world
  <2>2. CASE Running /\ Anew(pump)
    <3>1. ~pump'.suspended /\ (front # None => pump'.cur = InFront)
      BY <1>0, <2>1, <2>2 DEF Pumps, Woken
    <3>2. QED
      BY <1>0, <2>1, <3>1, InFrontIs DEF Following
  <2>3. CASE ~(Running /\ Anew(pump))
    <3>1. Running => pump'.cur = pump.cur /\ pump'.suspended = pump.suspended
      BY <1>0, <2>1, <2>3 DEF Pumps
    <3>2. QED
      BY <2>1, <3>1 DEF Following, Running
  <2>4. QED
    BY <2>2, <2>3
<1>6. CASE Lock
  <2>1. front' = None /\ pump' = [pump EXCEPT !.cur = None]
    BY <1>0, <1>6, LockDoes
  <2>2. pump'.cur = None
    BY <1>0, <2>1 DEF Pumps
  <2>3. QED
    BY <2>1, <2>2 DEF Following
<1>7. CASE Unlock
  <2>1. /\ UNCHANGED <<now, past, sess>> /\ front' \in App
        /\ pump' = IF ~Running THEN pump ELSE [pump EXCEPT !.cur = [app |-> front', at |-> now]]
    BY <1>0, <1>7, UnlockDoes
  <2>2. Running => pump'.cur = [app |-> front', at |-> now] /\ pump'.cur # None /\ pump'.cur.at = now
    <3>1. Running => pump'.cur = [app |-> front', at |-> now]
      BY <1>0, <2>1 DEF Pumps
    <3>2. [app |-> front', at |-> now] \in Segments
      BY <1>0, <2>1 DEF Segments
    <3>3. QED
      BY <3>1, <3>2, Absent
  <2>3. QED
    BY <1>n, <2>1, <2>2 DEF Following, Running
<1>8. CASE Reseed
  <2>1. UNCHANGED <<now, front, sess>> /\ pump'.cur = InFront /\ ~pump'.suspended
    BY <1>0, <1>8, ReseedDoes DEF world
  <2>2. QED
    BY <1>0, <2>1, InFrontIs DEF Following
<1>9. CASE Stop \/ Crash
  BY <1>0, <1>9, StopDoes, CrashDoes DEF Following, Running
<1>10. CASE Start
  <2>1. UNCHANGED <<now, front>> /\ pump'.cur = InFront /\ ~pump'.suspended
    BY <1>0, <1>10, StartDoes DEF world
  <2>2. QED
    BY <1>0, <2>1, InFrontIs DEF Following
<1>11. CASE Tick
  <2>1. /\ now' = now + 1 /\ (Settled \/ power = "asleep")
        /\ UNCHANGED <<front, pump, sess>>
        /\ \A u \in 0 .. now - 1 : past'[u + 1] = past[u + 1]
        /\ past'[now + 1].awake <=> power = "on"
    BY <1>0, <1>11, TickDoes
  <2>2. Running /\ front # None /\ ~pump.suspended => pump'.cur # None
    BY <2>1 DEF Following
  <2>3. ASSUME Running, pump.suspended, pump.cur # None, NEW u \in pump.cur.at .. now
        PROVE  ~past'[u + 1].awake
    <3>1. pump.cur.at \in Nat
      BY <1>0, <2>3, PumpsAre
    <3>2. CASE u = now
      BY <2>1, <2>3, <3>2 DEF Ticks, Settled
    <3>3. CASE u # now
      <4>1. u \in pump.cur.at .. now - 1 /\ u \in 0 .. now - 1
        BY <1>0, <3>1, <3>3
      <4>2. QED
        BY <2>1, <2>3, <4>1 DEF Following
    <3>4. QED
      BY <3>2, <3>3
  <2>4. now' - 1 = now
    BY <1>0, <2>1
  <2>5. QED
    BY <2>1, <2>2, <2>3, <2>4 DEF Following, Running
<1>12. QED
  BY <1>1, <1>2, <1>3, <1>4, <1>5, <1>6, <1>7, <1>8, <1>9, <1>10, <1>11, AsideSteps

\* Nothing closes capture, no boundary of the power is missed, and no resume is
\* reported that the segment does not know of.
Undisturbed ==
    Running /\ Plain(sess) =>
        /\ gate = "open" /\ ~reseed
        /\ power # "on" => pump.suspended
        /\ power = "on" /\ ~pump.suspended => now - pump.tick <= Gap
        /\ power = "on" /\ ~pump.suspended /\ notice =>
              pump.resumed = now \/ pump.cur = None \/ pump.cur.at = now

LEMMA PlainHere ==
    ASSUME Base, [Next]_vars, sess' = sess, Plain(sess)'
    PROVE  Plain(sess) /\ ~Recorded(sess)
BY DirtyNext DEF Plain, Recorded

LEMMA UndisturbedSame ==
    ASSUME Base, Undisturbed, [Next]_vars, UNCHANGED <<now, power, gate, reseed, sess>>,
           notice' => notice,
           pump'.suspended = pump.suspended, pump'.tick = pump.tick, pump'.resumed = pump.resumed,
           pump'.cur = pump.cur \/ pump'.cur = None \/ pump'.cur.at = now
    PROVE  Undisturbed'
BY PlainHere DEF Undisturbed, Running

LEMMA UndisturbedFresh ==
    ASSUME Base, Undisturbed, [Next]_vars, UNCHANGED <<now, power, gate, reseed, sess>>,
           ~pump'.suspended, pump'.tick = now, power = "on",
           notice' => pump'.resumed = now \/ pump'.cur = None \/ pump'.cur.at = now
    PROVE  Undisturbed'
<1>1. now \in Nat
  BY DEF Base, Typed
<1>2. now - pump'.tick <= Gap
  BY <1>1 DEF Gap
<1>3. QED
  BY <1>2, PlainHere DEF Undisturbed, Running

\* Undisturbed is inductive.
LEMMA UndisturbedNext ==
    ASSUME Base, Ticks, Undisturbed, [Next]_vars
    PROVE  Undisturbed'
<1>0. Typed /\ Dated /\ Alive /\ Reseeding /\ now \in Nat /\ pump \in Pumps
  BY DEF Base, Typed
<1>1. CASE Input \/ Beat \/ UNCHANGED vars
  <2>1. UNCHANGED <<now, power, notice, gate, reseed, sess>>
    BY <1>0, <1>1, InputDoes, BeatDoes DEF vars, world
  <2>2. /\ pump'.cur = pump.cur /\ pump'.suspended = pump.suspended
        /\ pump'.tick = pump.tick /\ pump'.resumed = pump.resumed
    BY <1>1, AsideDoes DEF Aside
  <2>3. QED
    BY <2>1, <2>2, UndisturbedSame
<1>2. CASE Sleep
  <2>1. /\ UNCHANGED <<now, pump, gate, reseed, sess>> /\ power' = "asleep"
        /\ \/ power = "suspending"
           \/ <<sess, "missed">> \in dirty'
    BY <1>0, <1>2, SleepDoes
  <2>2. QED
    BY <2>1, PlainHere DEF Undisturbed, Running, Plain
<1>3. CASE Wake
  <2>1. UNCHANGED <<now, pump, gate, reseed, sess>> /\ power = "asleep" /\ power' = "on"
    BY <1>0, <1>3, WakeDoes
  <2>2. QED
    BY <2>1, PlainHere DEF Undisturbed, Running
<1>4. CASE Pause \/ StartRecording
  <2>1. sess' = sess /\ (<<sess, "pause">> \in dirty' \/ <<sess, "recording">> \in dirty')
    BY <1>0, <1>4, PauseDoes, StartRecordingDoes
  <2>2. QED
    BY <2>1 DEF Undisturbed, Running, Plain
<1>5. CASE Unpause \/ EndRecording
  <2>1. sess' = sess /\ gate # "open"
    BY <1>0, <1>5, UnpauseDoes, EndRecordingDoes
  <2>2. QED
    BY <2>1, PlainHere DEF Undisturbed, Running
<1>6. CASE Focus
  <2>1. /\ UNCHANGED <<now, power, notice, gate, reseed, sess>>
        /\ pump' = [pump EXCEPT !.cur = pump'.cur] /\ pump'.cur # None
    BY <1>0, <1>6, FocusDoes
  <2>2. PICK new : Pumped(new)
    BY <1>0, <1>6, FocusDoes
  <2>3. pump'.suspended = pump.suspended /\ pump'.tick = pump.tick /\ pump'.resumed = pump.resumed
    BY <1>0, <2>1 DEF Pumps
  <2>4. pump'.cur = pump.cur \/ pump'.cur.at = now
    BY <2>1, <2>2 DEF Pumped
  <2>5. QED
    BY <2>1, <2>3, <2>4, UndisturbedSame
<1>7. CASE Timer
  <2>1. /\ pump' = Timed(pump) /\ power = "on" /\ Running
        /\ UNCHANGED <<now, power, notice, gate, reseed, sess>>
    BY <1>0, <1>7, TimerDoes DEF world
  <2>2. /\ ~pump'.suspended /\ pump'.tick = now
        /\ pump'.resumed = IF Late(pump) THEN now ELSE pump.resumed
        /\ pump'.cur = IF Missing(pump) \/ (pump.suspended /\ front # None) THEN InFront ELSE pump.cur
    BY <1>0, <2>1 DEF Timed, Pumps
  <2>3. CASE Late(pump)
    BY <2>1, <2>2, <2>3, UndisturbedFresh
  <2>4. CASE ~Late(pump)
    <3>1. pump'.cur = pump.cur /\ pump'.resumed = pump.resumed /\ ~pump.suspended
      BY <2>2, <2>4 DEF Late
    <3>2. now - pump'.tick <= Gap
      BY <1>0, <2>2 DEF Gap
    <3>3. QED
      BY <2>1, <2>2, <3>1, <3>2, PlainHere DEF Undisturbed, Running
  <2>5. QED
    BY <2>3, <2>4
<1>8. CASE Suspend
  <2>1. /\ Running /\ UNCHANGED <<now, gate, reseed, sess>> /\ power' = "suspending"
        /\ pump' = [pump EXCEPT !.cur = None, !.suspended = TRUE, !.resumed = None, !.tick = now]
    BY <1>0, <1>8, SuspendDoes DEF Free
  <2>2. pump'.suspended
    BY <1>0, <2>1 DEF Pumps
  <2>3. QED
    BY <2>1, <2>2, PlainHere DEF Undisturbed, Running
<1>9. CASE ResumeNotice
  <2>1. /\ UNCHANGED <<now, power, gate, reseed, sess>> /\ power = "on" /\ notice' = FALSE
        /\ pump' = IF ~Running THEN pump
                   ELSE IF Anew(pump) THEN Woken(pump) ELSE [pump EXCEPT !.tick = now]
    BY <1>0, <1>9, ResumeNoticeDoes DEF world
  <2>2. Running => ~pump'.suspended /\ pump'.tick = now
    BY <1>0, <2>1 DEF Pumps, Woken, Anew
  <2>3. QED
    BY <2>1, <2>2, UndisturbedFresh DEF Undisturbed, Running
<1>10. CASE Lock
  <2>1. /\ UNCHANGED <<now, power, notice, gate, reseed, sess>> /\ pump' = [pump EXCEPT !.cur = None]
    BY <1>0, <1>10, LockDoes
  <2>2. /\ pump'.suspended = pump.suspended /\ pump'.tick = pump.tick /\ pump'.resumed = pump.resumed
        /\ pump'.cur = None
    BY <1>0, <2>1 DEF Pumps
  <2>3. QED
    BY <2>1, <2>2, UndisturbedSame
<1>11. CASE Unlock
  <2>1. /\ UNCHANGED <<now, power, notice, gate, reseed, sess>>
        /\ pump' = IF ~Running THEN pump ELSE [pump EXCEPT !.cur = [app |-> front', at |-> now]]
    BY <1>0, <1>11, UnlockDoes
  <2>2. /\ pump'.suspended = pump.suspended /\ pump'.tick = pump.tick /\ pump'.resumed = pump.resumed
        /\ pump'.cur = pump.cur \/ pump'.cur.at = now
    BY <1>0, <2>1 DEF Pumps
  <2>3. QED
    BY <2>1, <2>2, UndisturbedSame
<1>12. CASE Reseed
  <2>1. Running /\ reseed /\ sess' = sess
    BY <1>0, <1>12, ReseedDoes
  <2>2. QED
    BY <2>1, PlainHere DEF Undisturbed
<1>13. CASE Stop \/ Crash
  BY <1>0, <1>13, StopDoes, CrashDoes DEF Undisturbed, Running
<1>14. CASE Start
  <2>1. /\ UNCHANGED <<now, front, power, gate, reseed, notice>> /\ ~Running /\ power = "on"
        /\ pump'.cur = InFront /\ ~pump'.suspended /\ pump'.tick = now
    BY <1>0, <1>14, StartDoes DEF world
  <2>2. gate = "open" /\ ~reseed
    BY <1>0, <2>1 DEF Alive
  <2>3. now - pump'.tick <= Gap
    BY <1>0, <2>1 DEF Gap
  <2>4. pump'.cur = None \/ pump'.cur.at = now
    BY <2>1 DEF InFront
  <2>5. QED
    BY <2>1, <2>2, <2>3, <2>4 DEF Undisturbed
<1>15. CASE Tick
  <2>1. /\ now' = now + 1 /\ (Settled \/ power = "asleep")
        /\ UNCHANGED <<power, notice, pump, gate, reseed, sess>>
    BY <1>0, <1>15, TickDoes
  <2>2. power = "on" => ~notice /\ ~due
    BY <2>1 DEF Settled
  <2>3. Running /\ power = "on" => now' - pump'.tick <= Gap
    BY <1>0, <2>1, <2>2 DEF Ticks, Gap
  <2>4. QED
    BY <2>1, <2>2, <2>3, PlainHere DEF Undisturbed, Running
<1>16. QED
  BY <1>1, <1>2, <1>3, <1>4, <1>5, <1>6, <1>7, <1>8, <1>9, <1>10, <1>11, <1>12, <1>13,
     <1>14, <1>15, AsideSteps DEF Aside

\* An event that may lose time marks its session.
LEMMA Soiled ==
    ASSUME NEW s, NEW op, <<s, op>> \in dirty'
    PROVE  ~Plain(s)'
<1>1. <<s, op>>[1] = s
  OBVIOUS
<1>2. QED
  BY <1>1 DEF Plain

\* Whose the new rows are: of the session that runs, of one that starts, or the
\* repaired one of a session that crashed.
LEMMA NewRows ==
    ASSUME Base, Sessions, [Next]_vars, NEW j \in DOMAIN rows', j \notin DOMAIN rows
    PROVE  \/ Running /\ rows'[j].sess = sess /\ rows'[j].ts = now /\ now' = now
           \/ Start /\ rows'[j].kind = "focus"
              /\ (rows'[j].sess \in DOMAIN ended => ended[rows'[j].sess] = None)
<1>0. Typed /\ Dated /\ Alive
  BY DEF Base
<1>1. CASE \E new : Pumped(new)
  <2>1. PICK new : Pumped(new)
    BY <1>1
  <2>2. new \in Seq(Entries) /\ rows' = rows \o new /\ now' = now
        /\ \A r \in Range(new) : Running /\ r.sess = sess /\ r.ts = now
    BY <2>1 DEF Pumped
  <2>3. rows'[j] \in Range(new)
    BY <1>0, <2>2, Added
  <2>4. QED
    BY <2>2, <2>3
<1>2. CASE Beat \/ Crash \/ Tick
  BY <1>0, <1>2, BeatDoes, CrashDoes, TickDoes
<1>3. CASE Stop
  <2>1. PICK new : /\ new \in Seq(Entries) /\ rows' = rows \o new
                   /\ \A r \in Range(new) : r.sess = sess /\ r.ts = now
    BY <1>0, <1>3, StopDoes
  <2>2. rows'[j] \in Range(new)
    BY <1>0, <2>1, Added
  <2>3. now' = now /\ Running
    BY <1>0, <1>3, StopDoes DEF world, Free
  <2>4. QED
    BY <2>1, <2>2, <2>3
<1>4. CASE Start
  <2>1. sess' \notin DOMAIN ended
    BY <1>0, <1>4, StartDoes
  <2>2. PICK new :
           /\ new \in Seq(Entries) /\ rows' = rows \o new
           /\ \A r \in Range(new) : /\ r.kind = "focus"
                                    /\ Dwelt(r) => Left /\ r.sess = open.row.sess
                                    /\ ~Dwelt(r) => r.sess = sess'
    BY <1>0, <1>4, StartDoes
  <2>3. rows'[j] \in Range(new)
    BY <1>0, <2>2, Added
  <2>4. QED
    BY <1>4, <2>1, <2>2, <2>3 DEF Left
<1>5. QED
  BY <1>1, <1>2, <1>3, <1>4, PumpedSteps

\* A session ends when the program stops, or with what is recovered of it.
LEMMA EndsNow ==
    ASSUME Base, [Next]_vars, NEW s \in DOMAIN ended, ended[s] = None, ended'[s] # None
    PROVE  \/ Stop /\ s = sess /\ ended'[s] = now /\ now' = now /\ Running
           \/ Start /\ ~Running
<1>0. Typed /\ Dated /\ Alive
  BY DEF Base
<1>1. CASE \E new : Pumped(new)
  BY <1>1 DEF Pumped
<1>2. CASE Beat \/ Crash \/ Tick
  BY <1>0, <1>2, BeatDoes, CrashDoes, TickDoes
<1>3. CASE Stop
  BY <1>0, <1>3, StopDoes DEF world, Free
<1>4. CASE Start
  BY <1>0, <1>4, StartDoes
<1>5. QED
  BY <1>1, <1>2, <1>3, <1>4, PumpedSteps

\* A session of plain use is not paused and misses no boundary of the power, ends
\* after its last row, and runs until it ends.
Unspoiled ==
    /\ \A k \in DOMAIN rows : rows[k].kind \in {"paused", "recovered"} => ~Plain(rows[k].sess)
    /\ \A k \in DOMAIN rows : ended[rows[k].sess] # None => rows[k].ts <= ended[rows[k].sess]
    /\ \A s \in DOMAIN ended : ended[s] = None /\ Plain(s) => Running /\ s = sess

LEMMA SpoiledRows ==
    ASSUME Base, Sessions, Ticks, Undisturbed, [Next]_vars, NEW j \in DOMAIN rows', j \notin DOMAIN rows,
           rows'[j].kind \in {"paused", "recovered"}, NEW s, s = rows'[j].sess
    PROVE  ~Plain(s)'
<1>0. Typed /\ Dated /\ Alive /\ Reseeding /\ now \in Nat
  BY DEF Base, Typed
<1>1. SUFFICES ASSUME Plain(s)'
               PROVE  FALSE
  OBVIOUS
<1>2. Running /\ s = sess
  BY NewRows
<1>3. Plain(sess)
  BY <1>1, <1>2, PlainNext
<1>a. ASSUME NEW new, Pumped(new)
      PROVE  rows'[j] \in Range(new)
  <2>1. new \in Seq(Entries) /\ rows' = rows \o new
    BY <1>a DEF Pumped
  <2>2. QED
    BY <1>0, <2>1, Added
<1>b. power = "on" => ~Missing(pump)
  <2>1. power = "on" /\ ~pump.suspended => now - pump.tick <= Gap
    BY <1>2, <1>3 DEF Undisturbed
  <2>2. pump.tick = None \/ pump.tick \in Nat
    BY <1>0, PumpsAre DEF Typed
  <2>3. QED
    BY <1>0, <2>1, <2>2 DEF Missing, Gap
<1>4. CASE Focus \/ Suspend \/ Lock \/ Unlock \/ Unpause \/ Reseed \/ Input
  <2>1. PICK new : Pumped(new) /\ Only(new, {"focus", "suspend", "lock", "resumed", "active"})
    BY <1>0, <1>4, FocusDoes, SuspendDoes, LockDoes, UnlockDoes, UnpauseDoes, ReseedDoes, InputDoes
       DEF Only
  <2>2. QED
    BY <1>a, <2>1 DEF Only
<1>5. CASE Timer
  <2>1. PICK new : Pumped(new) /\ \A r \in Range(new) : r.kind = "paused" => FALSE
    BY <1>0, <1>5, TimerDoes
  <2>2. \E n : Pumped(n) /\ \A r \in Range(n) : r.kind \in {"paused", "recovered"} => Missing(pump)
    BY <1>0, <1>5, TimerDoes
  <2>3. power = "on"
    BY <1>0, <1>5, TimerDoes
  <2>4. QED
    BY <1>a, <1>b, <2>2, <2>3
<1>6. CASE ResumeNotice
  <2>1. \E n : Pumped(n) /\ \A r \in Range(n) : r.kind \in {"paused", "recovered"} => Missing(pump)
    BY <1>0, <1>6, ResumeNoticeDoes
  <2>2. power = "on"
    BY <1>0, <1>6, ResumeNoticeDoes
  <2>3. QED
    BY <1>a, <1>b, <2>1, <2>2
<1>7. CASE Pause
  <2>1. <<sess, "pause">> \in dirty'
    BY <1>0, <1>7, PauseDoes
  <2>2. QED
    BY <1>1, <1>2, <2>1, Soiled
<1>8. CASE Sleep \/ Wake \/ StartRecording \/ EndRecording
  <2>1. Pumped(<<>>)
    BY <1>0, <1>8, SleepDoes, WakeDoes, StartRecordingDoes, EndRecordingDoes
  <2>2. Range(<<>>) = {}
    BY Nothing
  <2>3. QED
    BY <1>a, <2>1, <2>2
<1>9. CASE Beat \/ Crash \/ Tick \/ UNCHANGED vars
  BY <1>0, <1>9, BeatDoes, CrashDoes, TickDoes DEF vars
<1>10. CASE Stop
  <2>1. PICK new : new \in Seq(Entries) /\ rows' = rows \o new /\ \A r \in Range(new) : r.kind = "focus"
    BY <1>0, <1>10, StopDoes
  <2>2. rows'[j] \in Range(new)
    BY <1>0, <2>1, Added
  <2>3. QED
    BY <2>1, <2>2
<1>11. CASE Start
  BY <1>0, <1>2, <1>11, StartDoes
<1>12. QED
  BY <1>4, <1>5, <1>6, <1>7, <1>8, <1>9, <1>10, <1>11, AsideSteps DEF Aside

\* Unspoiled is inductive.
LEMMA UnspoiledNext ==
    ASSUME Base, Sessions, Ticks, Undisturbed, Unspoiled, [Next]_vars
    PROVE  Unspoiled'
<1>0. Typed /\ Dated /\ Alive /\ Base' /\ Sessions' /\ now \in Nat
  BY BaseNext, SessionsNext DEF Base, Typed
<1>g. \A k \in DOMAIN rows : /\ k \in DOMAIN rows' /\ rows'[k] = rows[k] /\ rows[k].sess \in DOMAIN ended
                             /\ rows[k].ts <= now /\ rows[k].ts \in Nat
  BY <1>0, Grown, RowsAre DEF Sessions, Dated
<1>1. ASSUME NEW k \in DOMAIN rows', rows'[k].kind \in {"paused", "recovered"}, NEW s, s = rows'[k].sess
      PROVE  ~Plain(s)'
  <2>1. CASE k \in DOMAIN rows
    BY <1>1, <1>g, <2>1, PlainNext DEF Unspoiled
  <2>2. CASE k \notin DOMAIN rows
    BY <1>1, <2>2, SpoiledRows
  <2>3. QED
    BY <2>1, <2>2
<1>2. ASSUME NEW k \in DOMAIN rows', NEW s, s = rows'[k].sess, ended'[s] # None
      PROVE  rows'[k].ts <= ended'[s]
  <2>1. CASE s \in DOMAIN ended /\ ended[s] # None
    <3>1. ended'[s] = ended[s]
      BY <2>1, Grown
    <3>2. k \in DOMAIN rows
      <4>1. SUFFICES ASSUME k \notin DOMAIN rows
                     PROVE  FALSE
        OBVIOUS
      <4>2. Running /\ s = sess
        BY <1>2, <2>1, <4>1, NewRows
      <4>3. QED
        BY <1>0, <2>1, <4>2 DEF Alive
    <3>3. QED
      BY <1>2, <1>g, <2>1, <3>1, <3>2 DEF Unspoiled
  <2>2. CASE s \in DOMAIN ended /\ ended[s] = None
    <3>1. CASE Stop /\ s = sess /\ ended'[s] = now /\ now' = now
      BY <1>0, <1>2, <3>1 DEF Base, Dated
    <3>2. CASE Start
      BY <1>0, <1>2, <2>2, <3>2, StartDoes
    <3>3. QED
      BY <1>2, <2>2, <3>1, <3>2, EndsNow
  <2>3. CASE s \notin DOMAIN ended
    <3>1. k \notin DOMAIN rows
      BY <1>2, <1>g, <2>3
    <3>2. Start
      BY <1>0, <1>2, <2>3, <3>1, NewRows DEF Alive, Typed, Running
    <3>3. s \in DOMAIN ended'
      BY <1>0, <1>2 DEF Sessions
    <3>4. s = sess' /\ ended'[s] = None
      BY <1>0, <2>3, <3>2, <3>3, StartDoes
    <3>5. QED
      BY <1>2, <3>4
  <2>4. QED
    BY <2>1, <2>2, <2>3
<1>3. ASSUME NEW s \in DOMAIN ended', ended'[s] = None, Plain(s)'
      PROVE  Running' /\ s = sess'
  <2>1. CASE s \in DOMAIN ended
    <3>1. ended[s] = None /\ Plain(s) /\ Running /\ s = sess
      BY <1>3, <2>1, Grown, PlainNext DEF Unspoiled
    <3>2. CASE \E new : Pumped(new)
      BY <3>1, <3>2 DEF Pumped, Running
    <3>3. CASE Beat \/ Tick
      BY <1>0, <3>1, <3>3, BeatDoes, TickDoes DEF Running
    <3>4. CASE Stop
      <4>1. ended'[s] = now
        BY <1>0, <3>1, <3>4, StopDoes
      <4>2. QED
        BY <1>0, <1>3, <4>1, Absent
    <3>5. CASE Crash
      <4>1. <<sess, "crash">> \in dirty'
        BY <1>0, <3>5, CrashDoes
      <4>2. QED
        BY <1>3, <3>1, <4>1, Soiled
    <3>6. CASE Start
      BY <1>0, <3>1, <3>6, StartDoes
    <3>7. QED
      BY <3>2, <3>3, <3>4, <3>5, <3>6, PumpedSteps
  <2>2. CASE s \notin DOMAIN ended
    <3>1. CASE \E new : Pumped(new)
      BY <1>3, <2>2, <3>1 DEF Pumped
    <3>2. CASE Beat \/ Tick \/ Crash \/ Stop
      BY <1>0, <1>3, <2>2, <3>2, BeatDoes, TickDoes, CrashDoes, StopDoes
    <3>3. CASE Start
      BY <1>0, <1>3, <2>2, <3>3, StartDoes DEF Running
    <3>4. QED
      BY <3>1, <3>2, <3>3, PumpedSteps
  <2>3. QED
    BY <2>1, <2>2
<1>4. QED
  BY <1>1, <1>2, <1>3 DEF Unspoiled

\* The time an application was in front, of a session of plain use, is in a
\* completed dwell or in the segment that is going on.
Counted(t) ==
    \E i \in DOMAIN rows : Dwelt(rows[i]) /\ t \in rows[i].ts - rows[i].dur .. rows[i].ts - 1
Complete ==
    \A t \in 0 .. now - 1 : \A s :
        /\ s = past[t + 1].sess /\ s # 0 /\ Plain(s)
        /\ past[t + 1].awake /\ past[t + 1].app # None
        => Counted(t) \/ (s = sess /\ Going(t))

LEMMA CountedKept ==
    ASSUME Base, [Next]_vars, NEW t, Counted(t)
    PROVE  Counted(t)'
<1>1. PICK i \in DOMAIN rows : Dwelt(rows[i]) /\ t \in rows[i].ts - rows[i].dur .. rows[i].ts - 1
  BY DEF Counted
<1>2. i \in DOMAIN rows' /\ rows'[i] = rows[i]
  BY Grown
<1>3. QED
  BY <1>1, <1>2 DEF Counted

\* The segment that is replaced leaves its dwell.
LEMMA CountedNow ==
    ASSUME Base, NEW new, new \in Seq(Entries), rows' = rows \o new, NEW t \in 0 .. now - 1, Going(t),
           \E r \in Range(new) : Dwelt(r) /\ r.ts = now /\ r.dur = now - pump.cur.at
    PROVE  Counted(t)'
<1>0. Typed /\ Dated /\ now \in Nat
  BY DEF Base, Typed
<1>1. PICK r \in Range(new) : Dwelt(r) /\ r.ts = now /\ r.dur = now - pump.cur.at
  OBVIOUS
<1>2. PICK k \in DOMAIN rows' : rows'[k] = r
  BY <1>0, Added
<1>3. pump.cur.at \in Nat /\ pump.cur.at <= t
  BY <1>0, PumpsAre DEF Going, Typed
<1>4. t \in now - (now - pump.cur.at) .. now - 1
  BY <1>0, <1>3
<1>5. t \in rows'[k].ts - rows'[k].dur .. rows'[k].ts - 1
  BY <1>1, <1>2, <1>4
<1>6. Dwelt(rows'[k])
  BY <1>1, <1>2
<1>7. QED
  BY <1>2, <1>5, <1>6 DEF Counted

\* What becomes of the segment that is going on.
LEMMA GoingNext ==
    ASSUME Base, Facing, Ticks, Following, Undisturbed, [Next]_vars, Running,
           NEW s, s = sess, Plain(s)',
           NEW t \in 0 .. now - 1, Going(t), past[t + 1].awake, ~Tick, ~Crash
    PROVE  Counted(t)' \/ (sess' = s /\ Going(t)')
<1>0. Typed /\ Dated /\ Alive /\ Reseeding /\ now \in Nat /\ pump \in Pumps
  BY DEF Base, Typed
<1>1. Plain(sess) /\ gate = "open" /\ ~reseed /\ pump.cur # None
  BY PlainNext DEF Undisturbed, Going
<1>2. pump.cur.at \in Nat /\ pump.cur.at <= t /\ pump.cur.at <= now /\ pump.cur.app \in App
      /\ pump.cur.app = front
  BY <1>0, <1>1, PumpsAre DEF Going, Facing
<1>3. ~pump.suspended
  BY <1>0, <1>1, <1>2 DEF Following
<1>a. ASSUME NEW new, Pumped(new), \E r \in Range(new) : Dwelt(r) /\ r.prev = pump.cur.app /\ r.dur = now - pump.cur.at
      PROVE  Counted(t)'
  <2>1. new \in Seq(Entries) /\ rows' = rows \o new /\ \A r \in Range(new) : r.ts = now
    BY <1>a DEF Pumped
  <2>2. QED
    BY <1>a, <2>1, CountedNow
<1>4. CASE Aside
  BY <1>4, AsideDoes DEF Going
<1>5. CASE Focus
  <2>1. front' # front
    BY <1>5 DEF Focus
  <2>2. QED
    BY <1>0, <1>1, <1>2, <1>5, <1>a, <2>1, FocusDoes
<1>6. CASE Timer
  <2>1. /\ pump' = Timed(pump) /\ power = "on" /\ sess' = sess
    BY <1>0, <1>6, TimerDoes
  <2>2. ~Missing(pump)
    BY <1>0, <1>1, <1>3, <2>1, PumpsAre DEF Undisturbed, Missing, Gap
  <2>3. pump'.cur = pump.cur
    BY <1>0, <1>3, <2>1, <2>2 DEF Timed, Pumps
  <2>4. QED
    BY <2>1, <2>3 DEF Going
<1>7. CASE Suspend \/ Lock
  BY <1>0, <1>1, <1>7, <1>a, SuspendDoes, LockDoes
<1>8. CASE ResumeNotice
  <2>1. /\ power = "on" /\ notice /\ sess' = sess
        /\ pump' = IF Anew(pump) THEN Woken(pump) ELSE [pump EXCEPT !.tick = now]
    BY <1>0, <1>8, ResumeNoticeDoes
  <2>2. pump.resumed = now
    BY <1>0, <1>1, <1>2, <1>3, <2>1 DEF Undisturbed
  <2>3. pump'.cur = pump.cur
    BY <1>0, <1>3, <2>1, <2>2 DEF Anew, Pumps
  <2>4. QED
    BY <2>1, <2>3 DEF Going
<1>9. CASE Unlock
  BY <1>0, <1>2, <1>9, UnlockDoes, Absent
<1>10. CASE Reseed
  BY <1>0, <1>1, <1>10, ReseedDoes
<1>11. CASE Stop
  <2>1. PICK new :
                /\ new \in Seq(Entries) /\ rows' = rows \o new
                /\ \A r \in Range(new) : r.ts = now
                /\ gate = "open" /\ pump.cur # None => \E r \in Range(new) :
                      Dwelt(r) /\ r.prev = pump.cur.app /\ r.dur = now - pump.cur.at
    BY <1>0, <1>11, StopDoes
  <2>2. QED
    BY <1>1, <2>1, CountedNow
<1>12. CASE Start
  BY <1>0, <1>12, StartDoes
<1>13. QED
  BY <1>4, <1>5, <1>6, <1>7, <1>8, <1>9, <1>10, <1>11, <1>12, AsideSteps

\* Complete is inductive: no step drops a segment of plain use.
LEMMA CompleteNext ==
    ASSUME Base, Facing, Ticks, Following, Undisturbed, Complete, [Next]_vars
    PROVE  Complete'
<1>0. Typed /\ Dated /\ Alive /\ now \in Nat /\ pump \in Pumps /\ sess \in Nat
  BY DEF Base, Typed
<1>1. SUFFICES ASSUME NEW t \in 0 .. now' - 1, NEW s, s = past'[t + 1].sess, s # 0, Plain(s)',
                      past'[t + 1].awake, past'[t + 1].app # None
               PROVE  Counted(t)' \/ (s = sess' /\ Going(t)')
  BY DEF Complete
<1>2. CASE Tick
  <2>1. /\ now' = now + 1 /\ (Settled \/ power = "asleep")
        /\ UNCHANGED <<front, pump, sess, rows>>
        /\ \A u \in 0 .. now - 1 : past'[u + 1] = past[u + 1]
        /\ past'[now + 1].awake <=> power = "on"
        /\ past'[now + 1].app = front /\ past'[now + 1].sess = sess
    BY <1>0, <1>2, TickDoes
  <2>2. CASE t = now
    <3>1. Running /\ power = "on" /\ front # None /\ s = sess /\ ~due
      BY <1>1, <2>1, <2>2 DEF Settled, Running
    <3>2. pump.cur # None
      BY <3>1 DEF Ticks, Following
    <3>3. pump.cur.at <= now
      BY <1>0, <3>2 DEF Dated
    <3>4. QED
      BY <2>1, <2>2, <3>1, <3>2, <3>3 DEF Going
  <2>3. CASE t # now
    <3>1. t \in 0 .. now - 1
      BY <1>0, <2>1, <2>3
    <3>2. past'[t + 1] = past[t + 1]
      BY <2>1, <3>1
    <3>3. Counted(t) \/ (s = sess /\ Going(t))
      BY <1>1, <3>1, <3>2, PlainNext DEF Complete
    <3>4. QED
      BY <2>1, <3>3, CountedKept DEF Going
  <2>4. QED
    BY <2>2, <2>3
<1>3. CASE ~Tick
  <2>1. UNCHANGED <<now, past>>
    <3>1. CASE \E new : Pumped(new)
      BY <3>1 DEF Pumped
    <3>2. CASE Beat \/ Stop \/ Crash \/ Start
      BY <1>0, <3>2, BeatDoes, StopDoes, CrashDoes, StartDoes DEF world
    <3>3. QED
      BY <1>3, <3>1, <3>2, PumpedSteps
  <2>2. t \in 0 .. now - 1 /\ past'[t + 1] = past[t + 1]
    BY <2>1
  <2>3. Counted(t) \/ (s = sess /\ Going(t))
    BY <1>1, <2>2, PlainNext DEF Complete
  <2>4. CASE Counted(t)
    BY <2>4, CountedKept
  <2>5. CASE s = sess /\ Going(t)
    <3>1. Running
      BY <1>1, <2>5 DEF Running
    <3>2. ~Crash
      <4>1. Crash => <<sess, "crash">> \in dirty'
        BY <1>0, CrashDoes
      <4>2. QED
        BY <1>1, <2>5, <4>1, Soiled
    <3>3. Counted(t)' \/ (sess' = s /\ Going(t)')
      BY <1>1, <1>3, <2>2, <2>5, <3>1, <3>2, GoingNext
    <3>4. QED
      BY <3>3
  <2>6. QED
    BY <2>3, <2>4, <2>5
<1>4. QED
  BY <1>2, <1>3

\* A span that reaches a unit only now is one that ends now: its row had waited.
LEMMA UnderNext ==
    ASSUME Base, Sessions, Unspoiled, [Next]_vars, NEW k \in DOMAIN rows, NEW s, s = rows[k].sess,
           Plain(s)', NEW to, NEW t, Under(k, s, to, t)'
    PROVE  \/ Under(k, s, to, t)
           \/ /\ Running /\ s = sess /\ Unanswered(k, s, to) /\ now' = now
              /\ t \in Nat /\ t < now /\ rows[k].ts - rows[k].dur <= t
<1>0. Typed /\ Dated /\ Alive /\ Base' /\ now \in Nat /\ s \in DOMAIN ended /\ Plain(s)
  BY BaseNext, PlainNext DEF Base, Typed, Sessions
<1>1. rows'[k] = rows[k] /\ \A j \in DOMAIN rows : j \in DOMAIN rows' /\ rows'[j] = rows[j]
  BY Grown
<1>2. t \in Nat /\ rows[k].ts - rows[k].dur <= t
  BY <1>1 DEF Under
<1>3. CASE Answered(k, s, to, t)'
  <2>1. CASE \E j \in DOMAIN rows : Is(j, s, to) /\ rows[j].ts > rows[k].ts
    <3>1. Answered(k, s, to, t)
      BY <1>1, <1>3, <2>1 DEF Answered, Is
    <3>2. QED
      BY <1>2, <3>1 DEF Under
  <2>2. CASE ~\E j \in DOMAIN rows : Is(j, s, to) /\ rows[j].ts > rows[k].ts
    <3>1. PICK j \in DOMAIN rows' : rows'[j].sess = s /\ rows'[j].kind = to /\ rows'[j].ts > rows[k].ts
                                    /\ t < rows'[j].ts
      BY <1>1, <1>3 DEF Answered, Is
    <3>2. j \notin DOMAIN rows
      BY <1>1, <2>2, <3>1 DEF Is
    <3>3. Running /\ s = sess /\ rows'[j].ts = now /\ now' = now
      BY <1>0, <3>1, <3>2, NewRows, StartDoes DEF Unspoiled
    <3>4. Unanswered(k, s, to)
      BY <1>0, <2>2, RowsAre DEF Unanswered, Is
    <3>5. QED
      BY <1>2, <3>1, <3>3, <3>4
  <2>3. QED
    BY <2>1, <2>2
<1>4. CASE ~Answered(k, s, to, t)'
  <2>1. /\ \A j \in DOMAIN rows' : rows'[j].sess = s /\ rows'[j].kind = to => rows'[j].ts <= rows'[k].ts
        /\ ended'[s] # None /\ rows[k].ts < ended'[s] /\ t < ended'[s]
    BY <1>1, <1>4 DEF Under, Unanswered, Is
  <2>2. Unanswered(k, s, to)
    BY <1>1, <2>1 DEF Unanswered, Is
  <2>3. CASE ended[s] # None
    <3>1. ended'[s] = ended[s]
      BY <1>0, <2>3, Grown
    <3>2. QED
      BY <1>2, <2>1, <2>2, <2>3, <3>1 DEF Under
  <2>4. CASE ended[s] = None
    <3>1. Running /\ s = sess
      BY <1>0, <2>4 DEF Unspoiled
    <3>2. ended'[s] = now /\ now' = now
      BY <1>0, <2>1, <2>4, <3>1, EndsNow
    <3>3. QED
      BY <1>2, <2>1, <2>2, <3>1, <3>2
  <2>5. QED
    BY <2>3, <2>4
<1>5. QED
  BY <1>3, <1>4

\* A row written now has no span yet.
LEMMA UnderNew ==
    ASSUME Base, Sessions, [Next]_vars, NEW k \in DOMAIN rows', k \notin DOMAIN rows,
           rows'[k].kind # "focus", NEW s, s = rows'[k].sess, NEW to, NEW t, Under(k, s, to, t)'
    PROVE  FALSE
<1>0. Typed /\ Dated /\ Alive /\ Base' /\ now \in Nat
  BY BaseNext DEF Base, Typed
<1>1. Running /\ s = sess /\ rows'[k].ts = now /\ now' = now
  BY NewRows
<1>2. sess \in DOMAIN ended /\ ended[sess] = None
  BY <1>0, <1>1, EndedAre DEF Alive, Running, Typed
<1>3. \A j \in DOMAIN rows' : rows'[j].ts <= now
  BY <1>0, <1>1 DEF Base, Dated
<1>4. CASE Answered(k, s, to, t)'
  <2>1. PICK j \in DOMAIN rows' : rows'[j].ts > rows'[k].ts
    BY <1>4 DEF Answered, Is
  <2>2. rows'[j].ts \in Nat
    <3>1. Typed'
      BY <1>0 DEF Base
    <3>2. rows' \in Seq(Entries) /\ j \in DOMAIN rows'
      BY <3>1 DEF Typed
    <3>3. rows'[j] \in Entries
      BY <3>2, RangeIn
    <3>4. QED
      BY <3>3 DEF Entries
  <2>3. QED
    BY <1>0, <1>1, <1>3, <2>1, <2>2
<1>5. CASE ~Answered(k, s, to, t)'
  <2>1. ended'[s] # None /\ rows'[k].ts < ended'[s]
    BY <1>5 DEF Under
  <2>2. ended'[s] = now
    BY <1>1, <1>2, <2>1, EndsNow
  <2>3. QED
    BY <1>0, <1>1, <2>1, <2>2
<1>6. QED
  BY <1>4, <1>5

-----------------------------------------------------------------------------
(* Sleeps the pump was told of *)

\* A suspend is before the sleep it announces, and the machine wakes later.
SleepTimes ==
    /\ \A k \in DOMAIN rows : rows[k].kind = "suspend" => rows[k].dur = 0
    /\ power = "asleep" => \A k \in DOMAIN rows : rows[k].kind = "suspend" => rows[k].ts <= slept
    /\ Running /\ power = "on" /\ pump.suspended =>
          \A k \in DOMAIN rows : rows[k].kind = "suspend" => rows[k].ts < now

\* Suspend rows are written by Suspend only.
LEMMA LacksSuspend ==
    ASSUME Base, [Next]_vars, ~Suspend, NEW k \in DOMAIN rows', rows'[k].kind = "suspend"
    PROVE  k \in DOMAIN rows /\ rows'[k] = rows[k]
<1>0. Typed /\ Dated /\ Alive /\ Reseeding
  BY DEF Base
<1>a. ASSUME NEW new \in Seq(Entries), rows' = rows \o new, \A r \in Range(new) : r.kind # "suspend"
      PROVE  k \in DOMAIN rows /\ rows'[k] = rows[k]
  BY <1>0, <1>a, Added
<1>1. CASE Focus \/ Input \/ Lock \/ Unlock \/ Pause \/ Unpause \/ Reseed
  <2>1. PICK new : Pumped(new) /\ Only(new, {"focus", "active", "lock", "paused", "resumed"})
    BY <1>0, <1>1, FocusDoes, InputDoes, LockDoes, UnlockDoes, PauseDoes, UnpauseDoes, ReseedDoes
       DEF Only
  <2>2. QED
    BY <1>a, <2>1 DEF Pumped, Only
<1>2. CASE Timer \/ ResumeNotice
  <2>1. PICK new : Pumped(new) /\ \A r \in Range(new) : r.kind # "suspend"
    BY <1>0, <1>2, TimerDoes, ResumeNoticeDoes
  <2>2. QED
    BY <1>a, <2>1 DEF Pumped
<1>3. CASE Sleep \/ Wake \/ StartRecording \/ EndRecording \/ Beat \/ Crash \/ Tick \/ UNCHANGED vars
  <2>1. rows' = rows
    BY <1>3 DEF Sleep, Wake, StartRecording, EndRecording, Beat, Crash, Tick, vars
  <2>2. QED
    BY <2>1
<1>4. CASE Stop
  <2>1. PICK new : new \in Seq(Entries) /\ rows' = rows \o new /\ \A r \in Range(new) : r.kind = "focus"
    BY <1>0, <1>4, StopDoes
  <2>2. QED
    BY <1>a, <2>1
<1>5. CASE Start
  <2>1. PICK new : new \in Seq(Entries) /\ rows' = rows \o new /\ \A r \in Range(new) : r.kind = "focus"
    BY <1>0, <1>5, StartDoes
  <2>2. QED
    BY <1>a, <2>1
<1>6. QED
  BY <1>1, <1>2, <1>3, <1>4, <1>5, AsideSteps DEF Aside

\* SleepTimes is inductive.
LEMMA SleepTimesNext ==
    ASSUME Base, Ticks, SleepTimes, [Next]_vars
    PROVE  SleepTimes'
<1>0. Typed /\ Dated /\ Alive /\ now \in Nat /\ slept \in Nat /\ pump \in Pumps
  BY DEF Base, Typed
<1>1. CASE Suspend
  <2>1. power' = "suspending"
    BY <1>0, <1>1, SuspendDoes
  <2>2. PICK new : Pumped(new) /\ \A r \in Range(new) : r.kind = "suspend" => r.dur = 0
    BY <1>0, <1>1, SuspendDoes
  <2>3. new \in Seq(Entries) /\ rows' = rows \o new
    BY <2>2 DEF Pumped
  <2>4. \A k \in DOMAIN rows' : rows'[k].kind = "suspend" => rows'[k].dur = 0
    <3>1. ASSUME NEW k \in DOMAIN rows', rows'[k].kind = "suspend"
          PROVE  rows'[k].dur = 0
      <4>1. (k \in DOMAIN rows /\ rows'[k] = rows[k]) \/ rows'[k] \in Range(new)
        BY <1>0, <2>3, Added
      <4>2. QED
        BY <2>2, <3>1, <4>1 DEF SleepTimes
    <3>2. QED
      BY <3>1
  <2>5. QED
    BY <2>1, <2>4 DEF SleepTimes
<1>2. CASE ~Suspend
  <2>1. \A k \in DOMAIN rows' : rows'[k].kind = "suspend" => k \in DOMAIN rows /\ rows'[k] = rows[k]
    BY <1>2, LacksSuspend
  <2>2. \A k \in DOMAIN rows : rows[k].ts <= now /\ rows[k].ts \in Nat
    BY <1>0, RowsAre DEF Dated
  <2>3. power' = "asleep" => \A k \in DOMAIN rows : rows[k].kind = "suspend" => rows[k].ts <= slept'
    <3>1. CASE Sleep
      BY <1>0, <2>2, <3>1, SleepDoes
    <3>2. CASE ~Sleep
      <4>1. power' = "asleep" => power = "asleep" /\ slept' = slept
        BY <1>2, <3>2 DEF Next, Focus, Input, Timer, Beat, Wake, ResumeNotice, Lock, Unlock, Pause,
           Unpause, StartRecording, EndRecording, Reseed, Stop, Crash, Start, Tick, vars, world
      <4>2. QED
        BY <4>1 DEF SleepTimes
    <3>3. QED
      BY <3>1, <3>2
  <2>4. Running' /\ power' = "on" /\ pump'.suspended =>
           \A k \in DOMAIN rows : rows[k].kind = "suspend" => rows[k].ts < now'
    <3>1. CASE Wake
      <4>1. power = "asleep" /\ now > slept /\ now' = now
        BY <1>0, <3>1, WakeDoes
      <4>2. QED
        BY <1>0, <2>2, <4>1 DEF SleepTimes
    <3>2. CASE Sleep
      BY <1>0, <3>2, SleepDoes
    <3>3. CASE Input \/ Pause \/ Unpause \/ StartRecording \/ EndRecording \/ Beat \/ UNCHANGED vars
      <4>1. UNCHANGED <<now, sess>> /\ pump'.suspended = pump.suspended
        BY <3>3, AsideDoes DEF Aside
      <4>2. power' = power
        BY <3>3 DEF Input, Pause, Unpause, StartRecording, EndRecording, Beat, vars, world
      <4>3. QED
        BY <4>1, <4>2 DEF SleepTimes, Running
    <3>4. CASE Focus \/ Lock \/ Unlock
      <4>1. UNCHANGED <<now, sess, power>>
        BY <3>4 DEF Focus, Lock, Unlock
      <4>2. pump'.suspended = pump.suspended
        BY <1>0, <3>4, FocusDoes, LockDoes, UnlockDoes DEF Pumps
      <4>3. QED
        BY <4>1, <4>2 DEF SleepTimes, Running
    <3>5. CASE Timer
      <4>1. pump' = Timed(pump)
        BY <1>0, <3>5, TimerDoes
      <4>2. ~pump'.suspended
        BY <1>0, <4>1 DEF Timed, Pumps
      <4>3. QED
        BY <4>2
    <3>6. CASE ResumeNotice
      <4>1. /\ UNCHANGED <<now, sess>>
            /\ pump' = IF ~Running THEN pump
                       ELSE IF Anew(pump) THEN Woken(pump) ELSE [pump EXCEPT !.tick = now]
        BY <1>0, <3>6, ResumeNoticeDoes DEF world
      <4>2. Running => ~pump'.suspended
        BY <1>0, <4>1 DEF Woken, Anew, Pumps
      <4>3. QED
        BY <4>1, <4>2 DEF Running
    <3>7. CASE Reseed
      BY <1>0, <3>7, ReseedDoes DEF Base
    <3>8. CASE Stop \/ Crash
      BY <1>0, <3>8, StopDoes, CrashDoes DEF Running
    <3>9. CASE Start
      BY <1>0, <3>9, StartDoes
    <3>10. CASE Tick
      BY <1>0, <2>2, <3>10, TickDoes
    <3>11. QED
      BY <1>2, <3>1, <3>2, <3>3, <3>4, <3>5, <3>6, <3>7, <3>8, <3>9, <3>10, AsideSteps DEF Aside
  <2>5. \A k \in DOMAIN rows' : rows'[k].kind = "suspend" => rows'[k].dur = 0
    BY <2>1 DEF SleepTimes
  <2>6. QED
    BY <2>1, <2>3, <2>4, <2>5 DEF SleepTimes
<1>3. QED
  BY <1>1, <1>2

\* A span lies in the past.
LEMMA UnderPast ==
    ASSUME Base, NEW k \in DOMAIN rows, NEW s \in DOMAIN ended, NEW to, NEW t, Under(k, s, to, t)
    PROVE  t \in 0 .. now - 1
<1>0. Typed /\ Dated /\ now \in Nat
  BY DEF Base, Typed
<1>1. t \in Nat
  BY DEF Under
<1>2. CASE Answered(k, s, to, t)
  <2>1. PICK j \in DOMAIN rows : t < rows[j].ts
    BY <1>2 DEF Answered
  <2>2. rows[j].ts <= now /\ rows[j].ts \in Nat
    BY <1>0, RowsAre DEF Dated
  <2>3. QED
    BY <1>0, <1>1, <2>1, <2>2
<1>3. CASE ~Answered(k, s, to, t)
  <2>1. ended[s] # None /\ t < ended[s]
    BY <1>3 DEF Under
  <2>2. ended[s] \in Nat /\ ended[s] <= now
    BY <1>0, <2>1, EndedAre DEF Dated
  <2>3. QED
    BY <1>0, <1>1, <2>1, <2>2
<1>4. QED
  BY <1>2, <1>3

LEMMA PastNext ==
    ASSUME Base, [Next]_vars
    PROVE  /\ \A t \in 0 .. now - 1 : past'[t + 1] = past[t + 1]
           /\ (Tick /\ now' = now + 1) \/ (~Tick /\ UNCHANGED <<now, past>>)
<1>0. Typed /\ Dated /\ Alive /\ now \in Nat
  BY DEF Base, Typed
<1>1. CASE \E new : Pumped(new)
  BY <1>0, <1>1, TickDoes DEF Pumped
<1>2. CASE Beat \/ Stop \/ Crash \/ Start
  <2>1. UNCHANGED <<now, past>>
    BY <1>0, <1>2, BeatDoes, StopDoes, CrashDoes, StartDoes DEF world
  <2>2. QED
    BY <1>0, <2>1, TickDoes
<1>3. CASE Tick
  BY <1>0, <1>3, TickDoes
<1>4. QED
  BY <1>1, <1>2, <1>3, PumpedSteps

\* A row that still waits waited before, unless it is new.
LEMMA WaitsBefore ==
    ASSUME Base, Sessions, [Next]_vars, NEW s, s = sess', Running', NEW k, NEW from, NEW to, from # "focus",
           Waits(k, s, from, to)'
    PROVE  /\ Running /\ s = sess
           /\ \/ k \in DOMAIN rows /\ rows'[k] = rows[k] /\ Waits(k, s, from, to)
              \/ k \in DOMAIN rows' /\ k \notin DOMAIN rows /\ rows'[k].ts = now /\ now' = now
                 /\ rows'[k].kind = from
<1>0. Typed /\ Dated /\ Alive
  BY DEF Base
<1>1. k \in DOMAIN rows' /\ rows'[k].sess = s /\ rows'[k].kind = from
  BY DEF Waits, Is
<1>2. CASE k \in DOMAIN rows
  <2>1. rows'[k] = rows[k] /\ Waits(k, s, from, to)
    BY <1>2, Grown DEF Waits, Is, Unanswered
  <2>2. s \in DOMAIN ended
    BY <1>1, <1>2, <2>1 DEF Sessions
  <2>3. ~Start
    BY <1>0, <2>2, StartDoes
  <2>4. CASE \E new : Pumped(new)
    BY <1>2, <2>1, <2>4 DEF Pumped, Running
  <2>5. CASE Beat \/ Tick
    BY <1>0, <1>2, <2>1, <2>5, BeatDoes, TickDoes DEF Running
  <2>6. CASE Stop \/ Crash
    BY <1>0, <2>6, StopDoes, CrashDoes DEF Running
  <2>7. QED
    BY <2>3, <2>4, <2>5, <2>6, PumpedSteps
<1>3. CASE k \notin DOMAIN rows
  <2>1. Running /\ rows'[k].sess = sess /\ rows'[k].ts = now /\ now' = now
    BY <1>1, <1>3, NewRows
  <2>2. QED
    BY <1>1, <1>3, <2>1
<1>4. QED
  BY <1>2, <1>3

\* From a suspend to its resume, the machine was asleep.
Slept ==
    /\ \A k \in DOMAIN rows : \A s, t :
          Is(k, s, "suspend") /\ Plain(s) /\ Under(k, s, "resume", t) => ~past[t + 1].awake
    /\ \A s : s = sess /\ Running /\ Plain(s) =>
          \A k : Waits(k, s, "suspend", "resume") =>
              pump.suspended /\ \A t \in rows[k].ts .. now - 1 : ~past[t + 1].awake

LEMMA SleptPast ==
    ASSUME Base, Sessions, Unspoiled, SleepTimes, Slept, [Next]_vars,
           NEW k \in DOMAIN rows', NEW s, NEW t, Is(k, s, "suspend")', Plain(s)', Under(k, s, "resume", t)'
    PROVE  ~past'[t + 1].awake
<1>0. Typed /\ Dated /\ now \in Nat
  BY DEF Base, Typed
<1>1. rows'[k].sess = s /\ rows'[k].kind = "suspend"
  BY DEF Is
<1>2. k \in DOMAIN rows
  BY <1>1, UnderNew
<1>3. rows'[k] = rows[k] /\ Is(k, s, "suspend") /\ s \in DOMAIN ended /\ Plain(s)
  BY <1>1, <1>2, Grown, PlainNext DEF Is, Sessions
<1>4. CASE Under(k, s, "resume", t)
  <2>1. ~past[t + 1].awake
    BY <1>2, <1>3, <1>4 DEF Slept
  <2>2. t \in 0 .. now - 1
    BY <1>2, <1>3, <1>4, UnderPast
  <2>3. QED
    BY <2>1, <2>2, PastNext
<1>5. CASE Running /\ s = sess /\ Unanswered(k, s, "resume") /\ t \in Nat /\ t < now
           /\ rows[k].ts - rows[k].dur <= t
  <2>1. Waits(k, s, "suspend", "resume")
    BY <1>2, <1>3, <1>5 DEF Waits
  <2>2. rows[k].dur = 0 /\ rows[k].ts \in Nat
    BY <1>0, <1>2, <1>3, RowsAre DEF SleepTimes, Is
  <2>3. t \in rows[k].ts .. now - 1 /\ t \in 0 .. now - 1
    BY <1>0, <1>5, <2>2
  <2>4. ~past[t + 1].awake
    BY <1>3, <1>5, <2>1, <2>3 DEF Slept
  <2>5. QED
    BY <2>3, <2>4, PastNext
<1>6. QED
  BY <1>1, <1>2, <1>3, <1>4, <1>5, UnderNext

\* Slept is inductive.
LEMMA SleptNext ==
    ASSUME Base, Sessions, Ticks, Undisturbed, Unspoiled, SleepTimes, Slept, [Next]_vars
    PROVE  Slept'
<1>0. Typed /\ Dated /\ Alive /\ Reseeding /\ now \in Nat /\ pump \in Pumps
  BY DEF Base, Typed
<1>1. ASSUME NEW s, s = sess', Running', Plain(s)', NEW k, Waits(k, s, "suspend", "resume")'
      PROVE  pump'.suspended /\ \A t \in rows'[k].ts .. now' - 1 : ~past'[t + 1].awake
  <2>0. Running /\ s = sess /\ Plain(s)
    BY <1>1, WaitsBefore, PlainNext
  <2>1. CASE Suspend
    <3>1. pump'.suspended /\ UNCHANGED <<now, past>>
      <4>1. pump' = [pump EXCEPT !.cur = None, !.suspended = TRUE, !.resumed = None, !.tick = now]
        BY <1>0, <2>1, SuspendDoes
      <4>2. QED
        BY <1>0, <2>1, <4>1, SuspendDoes DEF Pumps
    <3>2. CASE k \in DOMAIN rows
      <4>1. rows'[k] = rows[k] /\ Waits(k, s, "suspend", "resume")
        BY <1>1, <3>2, WaitsBefore
      <4>2. QED
        BY <2>0, <3>1, <4>1 DEF Slept
    <3>3. CASE k \notin DOMAIN rows
      <4>1. rows'[k].ts = now
        BY <1>1, <3>3, WaitsBefore
      <4>2. QED
        BY <1>0, <3>1, <4>1
    <3>4. QED
      BY <3>2, <3>3
  <2>2. CASE ~Suspend
    <3>1. k \in DOMAIN rows /\ rows'[k] = rows[k] /\ Waits(k, s, "suspend", "resume")
      <4>1. k \in DOMAIN rows
        BY <1>1, <2>2, WaitsBefore, LacksSuspend
      <4>2. QED
        BY <1>1, <4>1, WaitsBefore
    <3>2. pump.suspended /\ \A t \in rows[k].ts .. now - 1 : ~past[t + 1].awake
      BY <2>0, <3>1 DEF Slept
    <3>3. rows[k].ts \in Nat /\ rows[k].ts <= now /\ rows[k].sess = s /\ rows[k].kind = "suspend"
      BY <1>0, <3>1, RowsAre DEF Dated, Waits, Is
    <3>a. ASSUME NEW new, Pumped(new), \E r \in Range(new) : r.kind = "resume", power = "on"
          PROVE  FALSE
      <4>1. new \in Seq(Entries) /\ rows' = rows \o new /\ \A r \in Range(new) : r.sess = sess /\ r.ts = now
        BY <3>a DEF Pumped
      <4>2. PICK j \in DOMAIN rows' : rows'[j] \in Range(new) /\ rows'[j].kind = "resume"
        <5>1. PICK r \in Range(new) : r.kind = "resume"
          BY <3>a
        <5>2. PICK j \in DOMAIN rows' : rows'[j] = r
          BY <1>0, <4>1, Added
        <5>3. QED
          BY <5>1, <5>2
      <4>3. now <= rows[k].ts
        BY <1>1, <2>0, <3>1, <4>1, <4>2 DEF Waits, Unanswered, Is
      <4>4. rows[k].ts < now
        BY <2>0, <3>1, <3>2, <3>3, <3>a DEF SleepTimes
      <4>5. QED
        BY <1>0, <3>3, <4>3, <4>4
    <3>b. gate = "open" /\ ~reseed
      BY <2>0 DEF Undisturbed
    <3>4. pump'.suspended
      <4>1. CASE Aside
        BY <3>2, <4>1, AsideDoes
      <4>2. CASE Focus \/ Lock \/ Unlock
        BY <1>0, <2>0, <3>2, <4>2, FocusDoes, LockDoes, UnlockDoes DEF Pumps
      <4>3. CASE Timer
        BY <1>0, <3>2, <3>a, <3>b, <4>3, TimerDoes
      <4>4. CASE ResumeNotice
        BY <1>0, <2>0, <3>2, <3>a, <3>b, <4>4, ResumeNoticeDoes DEF Anew
      <4>5. CASE Reseed
        BY <1>0, <3>b, <4>5, ReseedDoes
      <4>6. CASE Stop \/ Crash
        BY <1>0, <1>1, <4>6, StopDoes, CrashDoes DEF Running
      <4>7. CASE Start
        BY <1>0, <2>0, <4>7, StartDoes
      <4>8. CASE Tick
        BY <1>0, <3>2, <4>8, TickDoes
      <4>9. QED
        BY <2>2, <4>1, <4>2, <4>3, <4>4, <4>5, <4>6, <4>7, <4>8, AsideSteps
    <3>5. ASSUME NEW t \in rows'[k].ts .. now' - 1
          PROVE  ~past'[t + 1].awake
      <4>1. CASE t \in 0 .. now - 1
        <5>1. t \in rows[k].ts .. now - 1
          BY <3>1, <3>3, <3>5, <4>1
        <5>2. QED
          BY <3>2, <4>1, <5>1, PastNext
      <4>2. CASE t \notin 0 .. now - 1
        <5>1. Tick /\ t = now
          BY <1>0, <3>1, <3>3, <3>5, <4>2, PastNext
        <5>2. (Settled \/ power = "asleep") /\ (past'[now + 1].awake <=> power = "on")
          BY <1>0, <5>1, TickDoes
        <5>3. power # "on"
          BY <2>0, <3>2, <5>2 DEF Ticks, Settled
        <5>4. QED
          BY <5>1, <5>2, <5>3
      <4>3. QED
        BY <4>1, <4>2
    <3>6. QED
      BY <3>4, <3>5
  <2>3. QED
    BY <2>1, <2>2
<1>2. QED
  BY <1>1, SleptPast DEF Slept

-----------------------------------------------------------------------------
(* Idle spans of a session of plain use *)

\* An idle row reaches back to the last input before it, for the threshold.
IdleTimes ==
    \A k \in DOMAIN rows : rows[k].kind = "idle" =>
        /\ rows[k].dur >= IdleAfter /\ rows[k].ts - rows[k].dur \in inputs
        /\ \A i \in inputs : i <= rows[k].ts - rows[k].dur \/ i > rows[k].ts

\* Idle rows are written by the timer only.
LEMMA LacksIdle ==
    ASSUME Base, [Next]_vars, ~Timer, NEW k \in DOMAIN rows', rows'[k].kind = "idle"
    PROVE  k \in DOMAIN rows /\ rows'[k] = rows[k]
<1>0. Typed /\ Dated /\ Alive /\ Reseeding
  BY DEF Base
<1>a. ASSUME NEW new \in Seq(Entries), rows' = rows \o new, \A r \in Range(new) : r.kind # "idle"
      PROVE  k \in DOMAIN rows /\ rows'[k] = rows[k]
  BY <1>0, <1>a, Added
<1>1. CASE IdleQuiet
  <2>1. PICK new : Pumped(new) /\ Lacks(new, "idle")
    BY <1>1, IdleSame DEF IdleQuiet
  <2>2. QED
    BY <1>a, <2>1 DEF Pumped, Lacks
<1>2. CASE Input \/ Reseed
  <2>1. PICK new : Pumped(new) /\ Only(new, {"active", "focus"})
    BY <1>0, <1>2, InputDoes, ReseedDoes DEF Only
  <2>2. QED
    BY <1>a, <2>1 DEF Pumped, Only
<1>3. CASE Beat \/ Crash \/ Tick \/ UNCHANGED vars
  <2>1. rows' = rows
    BY <1>3 DEF Beat, Crash, Tick, vars
  <2>2. QED
    BY <2>1
<1>4. CASE Stop
  <2>1. PICK new : new \in Seq(Entries) /\ rows' = rows \o new /\ \A r \in Range(new) : r.kind = "focus"
    BY <1>0, <1>4, StopDoes
  <2>2. QED
    BY <1>a, <2>1
<1>5. CASE Start
  <2>1. PICK new : new \in Seq(Entries) /\ rows' = rows \o new /\ \A r \in Range(new) : r.kind = "focus"
    BY <1>0, <1>5, StartDoes
  <2>2. QED
    BY <1>a, <2>1
<1>6. QED
  BY <1>1, <1>2, <1>3, <1>4, <1>5, IdleSteps

LEMMA InputsGrow ==
    ASSUME Base, [Next]_vars
    PROVE  \/ inputs' = inputs
           \/ Input /\ inputs' = inputs \cup {now} /\ now' = now /\ now \in Nat
              /\ \A k \in DOMAIN rows : rows[k].kind = "idle" => rows[k].ts < now
<1>0. Typed /\ Dated /\ Alive /\ Reseeding /\ now \in Nat
  BY DEF Base, Typed
<1>1. CASE IdleQuiet
  BY <1>1, IdleSame DEF IdleQuiet
<1>2. CASE Input
  BY <1>0, <1>2, InputDoes
<1>3. CASE Timer \/ Reseed \/ Beat \/ Stop \/ Crash \/ Start \/ Tick \/ UNCHANGED vars
  BY <1>3 DEF Timer, Reseed, Beat, Stop, Crash, Start, Tick, vars, world
<1>4. QED
  BY <1>1, <1>2, <1>3, IdleSteps

\* IdleTimes is inductive.
LEMMA IdleTimesNext ==
    ASSUME Base, IdleTimes, [Next]_vars
    PROVE  IdleTimes'
<1>0. Typed /\ Dated /\ Alive /\ now \in Nat
  BY DEF Base, Typed
<1>1. ASSUME NEW k \in DOMAIN rows', rows'[k].kind = "idle"
      PROVE  /\ rows'[k].dur >= IdleAfter /\ rows'[k].ts - rows'[k].dur \in inputs'
             /\ \A i \in inputs' : i <= rows'[k].ts - rows'[k].dur \/ i > rows'[k].ts
  <2>1. CASE k \in DOMAIN rows /\ rows'[k] = rows[k]
    BY <1>1, <2>1, InputsGrow DEF IdleTimes
  <2>2. CASE Timer /\ ~(k \in DOMAIN rows /\ rows'[k] = rows[k])
    <3>1. PICK new : Pumped(new) /\ \A r \in Range(new) : r.kind = "idle" => r.dur = now - LastInput /\ Long
      BY <1>0, <2>2, TimerDoes
    <3>2. new \in Seq(Entries) /\ rows' = rows \o new /\ \A r \in Range(new) : r.ts = now
      BY <3>1 DEF Pumped
    <3>3. rows'[k] \in Range(new)
      BY <1>0, <2>2, <3>2, Added
    <3>4. rows'[k].ts = now /\ rows'[k].dur = now - LastInput /\ Long
      BY <1>1, <3>1, <3>2, <3>3
    <3>5. inputs' = inputs
      BY <2>2 DEF Timer, world
    <3>6. LastInput \in inputs /\ LastInput \in Nat /\ \A i \in inputs : i <= LastInput
      BY InputsAre DEF InputsFact
    <3>7. now - (now - LastInput) = LastInput
      BY <1>0, <3>6
    <3>8. now - LastInput >= IdleAfter
      BY <3>4 DEF Long
    <3>9. QED
      BY <3>4, <3>5, <3>6, <3>7, <3>8
  <2>3. QED
    BY <1>1, <2>1, <2>2, LacksIdle
<1>2. QED
  BY <1>1 DEF IdleTimes

\* In unit t, on an awake machine, the threshold had passed without input.
Stayed(t) == past[t + 1].awake => t - Before(t) >= IdleAfter

LEMMA StayedNext ==
    ASSUME Base, [Next]_vars, NEW t \in 0 .. now - 1, Stayed(t)
    PROVE  Stayed(t)'
<1>1. {i \in inputs' : i <= t} = {i \in inputs : i <= t}
  <2>1. CASE inputs' = inputs
    BY <2>1
  <2>2. CASE inputs' = inputs \cup {now} /\ now \in Nat
    <3>1. ~(now <= t)
      BY <2>2
    <3>2. QED
      BY <2>2, <3>1
  <2>3. QED
    BY <2>1, <2>2, InputsGrow
<1>2. Before(t)' = Before(t)
  BY <1>1 DEF Before
<1>3. past'[t + 1] = past[t + 1]
  BY PastNext
<1>4. QED
  BY <1>2, <1>3 DEF Stayed

\* From an idle row to the input that ends it, nobody was there.
Vacant ==
    /\ \A k \in DOMAIN rows : \A s, t :
          Is(k, s, "idle") /\ Plain(s) /\ Under(k, s, "active", t) /\ rows[k].ts <= t => Stayed(t)
    /\ \A s : s = sess /\ Running /\ Plain(s) =>
          \A k : Waits(k, s, "idle", "active") =>
              pump.idle /\ \A t \in rows[k].ts .. now - 1 : Stayed(t)

LEMMA VacantPast ==
    ASSUME Base, Sessions, Unspoiled, Vacant, [Next]_vars,
           NEW k \in DOMAIN rows', NEW s, NEW t, Is(k, s, "idle")', Plain(s)', Under(k, s, "active", t)',
           rows'[k].ts <= t
    PROVE  Stayed(t)'
<1>0. Typed /\ Dated /\ now \in Nat
  BY DEF Base, Typed
<1>1. rows'[k].sess = s /\ rows'[k].kind = "idle"
  BY DEF Is
<1>2. k \in DOMAIN rows
  BY <1>1, UnderNew
<1>3. rows'[k] = rows[k] /\ Is(k, s, "idle") /\ s \in DOMAIN ended /\ Plain(s)
  BY <1>1, <1>2, Grown, PlainNext DEF Is, Sessions
<1>4. CASE Under(k, s, "active", t)
  <2>1. Stayed(t)
    BY <1>2, <1>3, <1>4 DEF Vacant
  <2>2. t \in 0 .. now - 1
    BY <1>2, <1>3, <1>4, UnderPast
  <2>3. QED
    BY <2>1, <2>2, StayedNext
<1>5. CASE Running /\ s = sess /\ Unanswered(k, s, "active") /\ t \in Nat /\ t < now
  <2>1. Waits(k, s, "idle", "active")
    BY <1>2, <1>3, <1>5 DEF Waits
  <2>2. rows[k].ts \in Nat
    BY <1>0, <1>2, RowsAre
  <2>3. t \in rows[k].ts .. now - 1 /\ t \in 0 .. now - 1
    BY <1>0, <1>3, <1>5, <2>2
  <2>4. Stayed(t)
    BY <1>3, <1>5, <2>1, <2>3 DEF Vacant
  <2>5. QED
    BY <2>3, <2>4, StayedNext
<1>6. QED
  BY <1>1, <1>2, <1>3, <1>4, <1>5, UnderNext

\* Vacant is inductive.
LEMMA VacantNext ==
    ASSUME Base, Sessions, Flag, IdleFresh, Undisturbed, Unspoiled, Vacant, [Next]_vars
    PROVE  Vacant'
<1>0. Typed /\ Dated /\ Alive /\ Reseeding /\ now \in Nat /\ pump \in Pumps
  BY DEF Base, Typed
<1>1. ASSUME NEW s, s = sess', Running', Plain(s)', NEW k, Waits(k, s, "idle", "active")'
      PROVE  pump'.idle /\ \A t \in rows'[k].ts .. now' - 1 : Stayed(t)'
  <2>0. Running /\ s = sess /\ Plain(s) /\ ~Recorded(sess)
    BY <1>1, WaitsBefore, PlainNext
  <2>1. CASE k \notin DOMAIN rows
    <3>1. rows'[k].ts = now /\ now' = now /\ k \in DOMAIN rows' /\ rows'[k].kind = "idle"
      BY <1>1, <2>1, WaitsBefore
    <3>2. Timer
      BY <2>1, <3>1, LacksIdle
    <3>3. PICK new : Pumped(new) /\ \A r \in Range(new) : r.kind = "idle" => Long
      BY <1>0, <3>2, TimerDoes
    <3>4. new \in Seq(Entries) /\ rows' = rows \o new
      BY <3>3 DEF Pumped
    <3>5. rows'[k] \in Range(new)
      BY <1>0, <2>1, <3>1, <3>4, Added
    <3>6. pump' = Timed(pump) /\ Long
      BY <1>0, <3>1, <3>2, <3>3, <3>5, TimerDoes
    <3>7. pump'.idle
      BY <1>0, <3>6 DEF Timed, Pumps
    <3>8. QED
      BY <1>0, <3>1, <3>7
  <2>2. CASE k \in DOMAIN rows
    <3>1. rows'[k] = rows[k] /\ Waits(k, s, "idle", "active")
      BY <1>1, <2>2, WaitsBefore
    <3>2. pump.idle /\ \A t \in rows[k].ts .. now - 1 : Stayed(t)
      BY <2>0, <3>1 DEF Vacant
    <3>3. rows[k].ts \in Nat /\ rows[k].ts <= now /\ rows[k].sess = s /\ rows[k].kind = "idle"
      BY <1>0, <2>2, <3>1, RowsAre DEF Dated, Waits, Is
    <3>a. ASSUME NEW new, Pumped(new), \E r \in Range(new) : r.kind = "active", rows[k].ts < now
          PROVE  FALSE
      <4>1. new \in Seq(Entries) /\ rows' = rows \o new /\ \A r \in Range(new) : r.sess = sess /\ r.ts = now
        BY <3>a DEF Pumped
      <4>2. PICK r \in Range(new) : r.kind = "active"
        BY <3>a
      <4>3. PICK j \in DOMAIN rows' : rows'[j] = r
        BY <1>0, <4>1, Added
      <4>4. now <= rows[k].ts
        BY <1>1, <2>0, <3>1, <4>1, <4>2, <4>3 DEF Waits, Unanswered, Is
      <4>5. QED
        BY <1>0, <3>3, <3>a, <4>4
    <3>b. gate = "open" /\ ~reseed
      BY <2>0 DEF Undisturbed
    <3>4. pump'.idle
      <4>1. CASE IdleQuiet
        BY <3>2, <4>1, IdleSame DEF IdleQuiet
      <4>2. CASE Input
        <5>1. rows[k].ts < now
          BY <1>0, <2>2, <3>3, <4>2, InputDoes
        <5>2. CASE front # None
          BY <1>0, <2>0, <3>2, <3>a, <3>b, <4>2, <5>1, <5>2, InputDoes DEF Sends
        <5>3. CASE front = None
          BY <1>0, <3>2, <4>2, <5>3, InputDoes DEF Pumps
        <5>4. QED
          BY <5>2, <5>3
      <4>3. CASE Timer
        <5>1. pump' = Timed(pump)
          BY <1>0, <4>3, TimerDoes
        <5>2. pump'.idle = Long
          BY <1>0, <5>1 DEF Timed, Pumps
        <5>3. CASE ~Long
          <6>1. rows[k].ts < now
            BY <1>0, <2>2, <3>3, <5>3 DEF IdleFresh
          <6>2. QED
            BY <1>0, <3>2, <3>a, <3>b, <4>3, <5>3, <6>1, TimerDoes
        <5>4. QED
          BY <5>2, <5>3
      <4>4. CASE Reseed
        BY <1>0, <3>b, <4>4, ReseedDoes
      <4>5. CASE Beat \/ UNCHANGED vars
        BY <3>2, <4>5, StillIdle
      <4>6. CASE Stop \/ Crash
        BY <1>0, <1>1, <4>6, StopDoes, CrashDoes DEF Running
      <4>7. CASE Start
        BY <1>0, <2>0, <4>7, StartDoes
      <4>8. CASE Tick
        BY <1>0, <3>2, <4>8, TickDoes
      <4>9. QED
        BY <4>1, <4>2, <4>3, <4>4, <4>5, <4>6, <4>7, <4>8, IdleSteps
    <3>5. ASSUME NEW t \in rows'[k].ts .. now' - 1
          PROVE  Stayed(t)'
      <4>1. CASE t \in 0 .. now - 1
        <5>1. t \in rows[k].ts .. now - 1
          BY <3>1, <3>3, <3>5, <4>1
        <5>2. QED
          BY <3>2, <4>1, <5>1, StayedNext
      <4>2. CASE t \notin 0 .. now - 1
        <5>1. Tick /\ t = now
          BY <1>0, <3>1, <3>3, <3>5, <4>2, PastNext
        <5>2. (Settled \/ power = "asleep") /\ (past'[now + 1].awake <=> power = "on") /\ inputs' = inputs
          BY <1>0, <5>1, TickDoes
        <5>3. CASE power = "on"
          <6>1. Long
            BY <2>0, <3>2, <5>2, <5>3 DEF Flag, Settled
          <6>2. {i \in inputs' : i <= t} = inputs
            <7>1. \A i \in inputs : i <= now
              BY <1>0 DEF Dated, Typed
            <7>2. QED
              BY <5>1, <5>2, <7>1
          <6>3. Before(t)' = LastInput
            BY <6>2 DEF Before, LastInput
          <6>4. t - Before(t)' >= IdleAfter
            BY <5>1, <6>1, <6>3 DEF Long
          <6>5. QED
            BY <6>4 DEF Stayed
        <5>4. CASE power # "on"
          BY <5>1, <5>2, <5>4 DEF Stayed
        <5>5. QED
          BY <5>3, <5>4
      <4>3. QED
        BY <4>1, <4>2
    <3>6. QED
      BY <3>4, <3>5
  <2>3. QED
    BY <2>1, <2>2
<1>2. QED
  BY <1>1, VacantPast DEF Vacant

-----------------------------------------------------------------------------
(* Every minute of a session of plain use is counted *)

PlainInv ==
    /\ PresenceInv
    /\ Following /\ Undisturbed /\ Unspoiled /\ Complete
    /\ SleepTimes /\ Slept /\ IdleTimes /\ Vacant

\* The invariant of plain use holds before the first start.
LEMMA PlainInit == Init => PlainInv
<1> SUFFICES ASSUME Init
             PROVE  PlainInv
  OBVIOUS
<1>1. PresenceInv
  BY PresenceInit
<1>2. /\ now = 0 /\ sess = 0 /\ rows = <<>> /\ ended = <<>> /\ past = <<>> /\ power = "on"
      /\ DOMAIN rows = {} /\ DOMAIN ended = {}
  BY DEF Init
<1>3. Following /\ Undisturbed /\ SleepTimes /\ Slept /\ Vacant /\ IdleTimes
  BY <1>2 DEF Following, Undisturbed, SleepTimes, Slept, Vacant, IdleTimes, Running
<1>4. Unspoiled
  BY <1>2 DEF Unspoiled
<1>5. Complete
  <2>1. \A t : t \notin 0 .. now - 1
    BY <1>2
  <2>2. QED
    BY <2>1 DEF Complete
<1>6. QED
  BY <1>1, <1>3, <1>4, <1>5 DEF PlainInv

\* Every step keeps the invariant of plain use.
LEMMA PlainStep == PlainInv /\ [Next]_vars => PlainInv'
<1> SUFFICES ASSUME PlainInv, [Next]_vars
             PROVE  PlainInv'
  OBVIOUS
<1>1. PresenceInv'
  BY PresenceStep DEF PlainInv
<1>2. Base /\ Sessions /\ Facing /\ Ticks /\ Flag /\ IdleFresh
  BY DEF PlainInv, PresenceInv
<1>3. Following' /\ Undisturbed'
  BY <1>2, FollowingNext, UndisturbedNext DEF PlainInv
<1>4. Unspoiled' /\ Complete'
  BY <1>2, UnspoiledNext, CompleteNext DEF PlainInv
<1>5. SleepTimes' /\ Slept'
  BY <1>2, SleepTimesNext, SleptNext DEF PlainInv
<1>6. IdleTimes' /\ Vacant'
  BY <1>2, IdleTimesNext, VacantNext DEF PlainInv
<1>7. QED
  BY <1>1, <1>3, <1>4, <1>5, <1>6 DEF PlainInv

\* In a session of plain use no segment is dropped, and every span that takes
\* time away ends where the user or the machine came back.
THEOREM PlainInvariant == Spec => []PlainInv
<1>1. PlainInv /\ UNCHANGED vars => PlainInv'
  BY PlainStep
<1>2. QED
  BY PlainInit, PlainStep, <1>1, PTL DEF Spec

\* An idle span covers no unit near which there was input.
LEMMA NearInput ==
    ASSUME PlainInv, NEW k \in DOMAIN rows, NEW s \in DOMAIN ended, Is(k, s, "idle"), Plain(s),
           ended[s] # None, NEW t, Under(k, s, "active", t), past[t + 1].awake,
           NEW near \in After(t) \cup {ended[s]}
    PROVE  near - Before(t) >= IdleAfter
<1>0. /\ Base /\ Typed /\ Dated /\ Unspoiled /\ IdleTimes /\ Vacant /\ now \in Nat /\ IdleAfter \in Nat
      /\ inputs \in SUBSET Nat
  BY PresenceConstants DEF PlainInv, PresenceInv, Base, Typed
<1>1. t \in 0 .. now - 1
  BY <1>0, UnderPast
<1>2. /\ Before(t) \in inputs /\ Before(t) \in Nat /\ Before(t) <= t
      /\ \A i \in inputs : i <= t => i <= Before(t)
  BY <1>0, <1>1, AbsenceIs DEF AbsenceFact
<1>3. /\ rows[k].ts \in Nat /\ rows[k].dur \in Nat /\ ended[s] \in Nat
      /\ rows[k].ts <= ended[s] /\ rows[k].kind = "idle"
  BY <1>0, RowsAre DEF Is, Unspoiled
<1>4. t < ended[s]
  <2>1. CASE Answered(k, s, "active", t)
    <3>1. PICK j \in DOMAIN rows : Is(j, s, "active") /\ t < rows[j].ts
      BY <2>1 DEF Answered
    <3>2. rows[j].ts \in Nat /\ rows[j].ts <= ended[s]
      BY <1>0, <3>1, RowsAre DEF Is, Unspoiled
    <3>3. QED
      BY <1>1, <1>3, <3>1, <3>2
  <2>2. CASE ~Answered(k, s, "active", t)
    BY <2>2 DEF Under
  <2>3. QED
    BY <2>1, <2>2
<1>5. near \in Nat /\ near > t /\ (near \in inputs \/ near = ended[s])
  BY <1>0, <1>1, <1>3, <1>4 DEF After
<1>6. CASE rows[k].ts <= t
  <2>1. t - Before(t) >= IdleAfter
    BY <1>0, <1>6 DEF Vacant, Stayed
  <2>2. QED
    BY <1>0, <1>1, <1>2, <1>5, <2>1
<1>7. CASE t < rows[k].ts
  <2>1. /\ rows[k].dur >= IdleAfter /\ rows[k].ts - rows[k].dur \in inputs
        /\ \A i \in inputs : i <= rows[k].ts - rows[k].dur \/ i > rows[k].ts
    BY <1>0, <1>3 DEF IdleTimes
  <2>2. rows[k].ts - rows[k].dur <= t
    BY DEF Under
  <2>3. Before(t) <= rows[k].ts - rows[k].dur
    BY <1>1, <1>2, <1>3, <1>7, <2>1
  <2>4. near >= rows[k].ts
    <3>1. CASE near = ended[s]
      BY <1>3, <3>1
    <3>2. CASE near \in inputs
      BY <1>1, <1>3, <1>5, <2>1, <2>2, <3>2
    <3>3. QED
      BY <1>5, <3>1, <3>2
  <2>5. QED
    BY <1>0, <1>2, <1>3, <1>5, <2>1, <2>3, <2>4
<1>8. QED
  BY <1>1, <1>3, <1>6, <1>7

LEMMA EveryMinuteInv == PlainInv => EveryMinuteCounted
<1>1. SUFFICES ASSUME PlainInv, NEW t \in 0 .. now - 1, NEW s, s = past[t + 1].sess,
                      s \in DOMAIN ended, ended[s] # None, s \notin {d[1] : d \in dirty},
                      past[t + 1].awake, past[t + 1].app # None,
                      Min(After(t) \cup {ended[s]}) - Before(t) < IdleAfter
               PROVE  \E c \in Credits : t \in c.units /\ c.app = past[t + 1].app
  BY DEF EveryMinuteCounted
<1>0. /\ Base /\ Typed /\ Dated /\ Alive /\ Sessions /\ Stored /\ Complete /\ Unspoiled /\ Slept
      /\ now \in Nat /\ IdleAfter \in Nat
  BY <1>1, PresenceConstants DEF PlainInv, PresenceInv, Base, Typed
<1>2. Plain(s) /\ ~Recorded(s)
  BY <1>1 DEF Plain, Recorded
<1>3. s # 0 /\ s # sess
  BY <1>0, <1>1, EndedAre DEF Alive, Running, Typed
<1>4. Counted(t)
  BY <1>0, <1>1, <1>2, <1>3 DEF Complete
<1>5. PICK i \in DOMAIN rows : Dwelt(rows[i]) /\ t \in rows[i].ts - rows[i].dur .. rows[i].ts - 1
  BY <1>4 DEF Counted
<1>6. rows[i].sess = s /\ rows[i].prev = past[t + 1].app
  <2>1. past[t + 1].sess = rows[i].sess /\ (~Recorded(rows[i].sess) => past[t + 1].app = rows[i].prev)
    BY <1>0, <1>5 DEF Stored
  <2>2. QED
    BY <1>1, <1>2, <2>1
<1>7. t \notin Away(s)
  <2>1. SUFFICES ASSUME NEW k \in DOMAIN rows, Rests(k, s, t)
                 PROVE  FALSE
    BY <1>0, <1>1, AwayIs DEF AwayFact
  <2>2. CASE Is(k, s, "suspend") /\ Under(k, s, "resume", t)
    BY <1>0, <1>1, <1>2, <2>2 DEF Slept
  <2>3. CASE Is(k, s, "paused") \/ Is(k, s, "recovered")
    BY <1>0, <1>2, <2>3 DEF Unspoiled, Is
  <2>4. CASE Is(k, s, "idle") /\ Under(k, s, "active", t)
    <3> DEFINE S == After(t) \cup {ended[s]}
    <3>1. S \in SUBSET Nat /\ S # {}
      BY <1>0, <1>1, EndedAre DEF After, Typed
    <3>2. Min(S) \in S
      <4> HIDE DEF S
      <4>1. QED
        BY <3>1, MinIs
    <3>3. Min(S) - Before(t) >= IdleAfter
      <4> DEFINE near == Min(S)
      <4>1. near \in After(t) \cup {ended[s]}
        BY <3>2
      <4> HIDE DEF near
      <4>2. near - Before(t) >= IdleAfter
        BY <1>1, <1>2, <2>4, <4>1, NearInput
      <4>3. QED
        BY <4>2 DEF near
    <3>4. Min(S) - Before(t) < IdleAfter
      BY <1>1
    <3>5. Min(S) \in Nat /\ Before(t) \in Nat
      BY <1>0, <1>1, <3>1, <3>2, AbsenceIs DEF AbsenceFact
    <3> HIDE DEF S
    <3>6. QED
      BY <1>0, <3>3, <3>4, <3>5
  <2>5. QED
    BY <2>1, <2>2, <2>3, <2>4 DEF Rests
<1>8. DEFINE c == [row |-> i, app |-> rows[i].prev, units |-> DwellSpan(i) \ Away(rows[i].sess)]
<1>9. c \in Credits
  BY <1>5 DEF Credits, Dwells, Dwelt
<1>10. t \in c.units /\ c.app = past[t + 1].app
  BY <1>5, <1>6, <1>7 DEF DwellSpan, Span
<1>11. QED
  BY <1>9, <1>10

\* EveryMinuteCounted: what add_active_foreground_ms counts of a session without
\* pause, recording, crash or missed boundary is every unit the user was there.
THEOREM EveryMinuteCorrect == Spec => []EveryMinuteCounted
BY PlainInvariant, EveryMinuteInv, PTL

-----------------------------------------------------------------------------
(* The sweep over the merged spans.                                         *)

\* What is away lies in the past.
LEMMA AwayPast ==
    ASSUME Base, NEW s \in DOMAIN ended
    PROVE  Away(s) \subseteq 0 .. now - 1
<1>0. Typed /\ Dated /\ now \in Nat
  BY DEF Base, Typed
<1> SUFFICES ASSUME NEW t \in Away(s)
             PROVE  t \in 0 .. now - 1
  OBVIOUS
<1>1. PICK k \in DOMAIN rows : Rests(k, s, t)
  BY <1>0, AwayIs DEF AwayFact
<1>2. CASE Recovering(k, s, t)
  <2>1. rows[k].ts \in Nat /\ rows[k].ts <= now /\ t \in Nat /\ t < rows[k].ts
    BY <1>0, <1>2, RowsAre DEF Dated, Recovering
  <2>2. QED
    BY <1>0, <2>1
<1>3. QED
  BY <1>1, <1>2, UnderPast DEF Rests

(* Spans that are apart, and the units in them.                             *)
Within(t, x) == x.from <= t /\ t < x.to
Apart(spans) ==
    /\ \A x \in spans : x.from \in Nat /\ x.to \in Nat /\ x.from < x.to
    /\ \A x, y \in spans : x = y \/ x.to <= y.from \/ y.to <= x.from

\* From the first unit of a run of them to the first that is none.
RunEnd(U, n, t) == Min({u \in t + 1 .. n + 1 : u \notin U})

LEMMA RunOf ==
    ASSUME NEW n \in Nat, NEW U \in SUBSET (0 .. n - 1), NEW t \in U
    PROVE  /\ RunEnd(U, n, t) \in Nat /\ t < RunEnd(U, n, t) /\ RunEnd(U, n, t) <= n
           /\ RunEnd(U, n, t) \notin U
           /\ \A u \in t .. RunEnd(U, n, t) - 1 : u \in U
<1> DEFINE to == RunEnd(U, n, t)
           E == {u \in t + 1 .. n + 1 : u \notin U}
<1>1. t \in Nat /\ t <= n - 1 /\ E \in SUBSET Nat /\ n \in E
  OBVIOUS
<1>2. to \in E /\ \A u \in E : to <= u
  <2> HIDE DEF E
  <2>1. Min(E) \in E /\ \A u \in E : Min(E) <= u
    BY <1>1, MinIs
  <2>2. QED
    BY <2>1 DEF E, RunEnd
<1> HIDE DEF to
<1>3. to \in Nat /\ t < to /\ to <= n /\ to \notin U
  BY <1>1, <1>2
<1>4. ASSUME NEW u \in t .. to - 1 PROVE u \in U
  <2>1. u = t \/ u \in t + 1 .. n + 1
    BY <1>1, <1>3
  <2>2. ~(to <= u)
    BY <1>1, <1>3
  <2>3. QED
    BY <1>2, <2>1, <2>2
<1>5. QED
  BY <1>3, <1>4 DEF to

\* The merged spans are apart, and hold what is away.
LEMMA MergedIs ==
    ASSUME Base, NEW s \in DOMAIN ended
    PROVE  /\ Apart(Merged(s)) /\ IsFiniteSet(Merged(s))
           /\ \A t \in Int : t \in Away(s) <=> \E x \in Merged(s) : Within(t, x)
<1> DEFINE U == Away(s)
           S == {u \in U : u - 1 \notin U}
           Ends(t) == RunEnd(U, now, t)
<1>0. now \in Nat /\ U \in SUBSET (0 .. now - 1)
  BY AwayPast DEF Base, Typed
<1>1. Merged(s) = {[from |-> t, to |-> Ends(t)] : t \in S}
  BY DEF Merged, RunEnd
<1>2. ASSUME NEW t \in U
      PROVE  /\ Ends(t) \in Nat /\ t < Ends(t) /\ Ends(t) <= now /\ Ends(t) \notin U
             /\ \A u \in t .. Ends(t) - 1 : u \in U
  <2> HIDE DEF U
  <2>1. QED
    BY <1>0, RunOf
<1> HIDE DEF U, Ends
<1>3. \A x \in Merged(s) : x = [from |-> x.from, to |-> Ends(x.from)] /\ x.from \in S
  BY <1>1
<1>4. ASSUME NEW x \in Merged(s)
      PROVE  /\ x.from \in Nat /\ x.to \in Nat /\ x.from < x.to /\ x.from <= now
             /\ x.from - 1 \notin U /\ \A u \in x.from .. x.to - 1 : u \in U
  <2>1. x.to = Ends(x.from) /\ x.from \in U /\ x.from - 1 \notin U
    BY <1>3
  <2>2. x.from \in Nat /\ x.from <= now
    <3>1. x.from \in 0 .. now - 1
      BY <1>0, <2>1
    <3>2. QED
      BY <1>0, <3>1
  <2>3. QED
    BY <1>2, <2>1, <2>2
<1>5. ASSUME NEW x \in Merged(s), NEW y \in Merged(s), x.from < y.from
      PROVE  x.to <= y.from
  <2>1. y.from - 1 \in x.from .. x.to - 1 => FALSE
    BY <1>4
  <2>2. QED
    BY <1>4, <1>5, <2>1
<1>6. ASSUME NEW x \in Merged(s), NEW y \in Merged(s), x.from = y.from
      PROVE  x = y
  BY <1>3, <1>6
<1>7. Apart(Merged(s))
  <2>1. ASSUME NEW x \in Merged(s), NEW y \in Merged(s)
        PROVE  x = y \/ x.to <= y.from \/ y.to <= x.from
    <3>1. x.from < y.from \/ y.from < x.from \/ x.from = y.from
      BY <1>4
    <3>2. QED
      BY <3>1, <1>5, <1>6
  <2>2. QED
    BY <1>4, <2>1 DEF Apart
<1>8. IsFiniteSet(Merged(s))
  <2> DEFINE f == [x \in Merged(s) |-> x.from]
  <2>1. f \in Injection(Merged(s), 0 .. now)
    <3>1. f \in [Merged(s) -> 0 .. now]
      BY <1>0, <1>4
    <3>2. ASSUME NEW x \in Merged(s), NEW y \in Merged(s), f[x] = f[y]
          PROVE  x = y
      BY <1>6, <3>2
    <3>3. QED
      BY <3>1, <3>2 DEF Injection, IsInjective
  <2>2. IsFiniteSet(0 .. now)
    BY <1>0, FS_Interval
  <2> HIDE DEF f
  <2>3. QED
    BY <2>1, <2>2, FS_Injection
<1>9. ASSUME NEW t \in U PROVE \E x \in Merged(s) : Within(t, x)
  <2> DEFINE F == {f \in 0 .. t : \A u \in f .. t : u \in U}
  <2>1. t \in Nat /\ F \in SUBSET Nat /\ t \in F
    BY <1>0
  <2>2. PICK f \in F : \A g \in F : f <= g
    <3> HIDE DEF F
    <3>1. QED
      BY <2>1, LeastOf
  <2>3. f \in Nat /\ f <= t /\ f \in U /\ \A u \in f .. t : u \in U
    BY <2>1, <2>2
  <2>4. f - 1 \notin U
    <3>1. SUFFICES ASSUME f - 1 \in U PROVE FALSE
      OBVIOUS
    <3>2. f - 1 \in 0 .. t /\ ~(f <= f - 1)
      BY <1>0, <2>1, <2>3, <3>1
    <3>3. ASSUME NEW u \in f - 1 .. t PROVE u \in U
      <4>1. u = f - 1 \/ u \in f .. t
        BY <2>1, <2>3
      <4>2. QED
        BY <2>3, <3>1, <4>1
    <3>4. QED
      BY <2>2, <3>2, <3>3
  <2>5. Ends(f) \in Nat /\ Ends(f) \notin U /\ f < Ends(f)
    BY <1>2, <2>3
  <2>6. t < Ends(f)
    <3>1. Ends(f) \in f .. t => FALSE
      BY <2>3, <2>5
    <3>2. QED
      BY <2>1, <2>3, <2>5, <3>1
  <2>7. [from |-> f, to |-> Ends(f)] \in Merged(s)
    BY <1>1, <2>3, <2>4
  <2>8. Within(t, [from |-> f, to |-> Ends(f)])
    BY <2>3, <2>6 DEF Within
  <2>9. QED
    BY <2>7, <2>8
<1>10. ASSUME NEW t \in Int, NEW x \in Merged(s), Within(t, x) PROVE t \in U
  <2>1. t \in x.from .. x.to - 1
    BY <1>4, <1>10 DEF Within
  <2>2. QED
    BY <1>4, <2>1
<1>11. QED
  BY <1>7, <1>8, <1>9, <1>10 DEF U

\* The units a dwell and some spans have in common.
Hits(i, spans) == {t \in DwellSpan(i) : \E x \in spans : Within(t, x)}

LEMMA OverlapIs ==
    ASSUME NEW i, rows[i].ts \in Int, Began(i) \in Int,
           NEW x, x.from \in Nat, x.to \in Nat, x.from < x.to
    PROVE  Overlap(i, x) = Cardinality(Hits(i, {x})) /\ IsFiniteSet(Hits(i, {x})) /\ Overlap(i, x) \in Nat
<1> DEFINE a == IF Began(i) < x.from THEN x.from ELSE Began(i)
           b == Least(rows[i].ts, x.to)
<1>1. a \in Int /\ b \in Int /\ b - 1 \in Int
  BY DEF Least
<1>2. DwellSpan(i) = Began(i) .. rows[i].ts - 1
  BY DEF DwellSpan, Span, Began
<1>3. Hits(i, {x}) = a .. b - 1
  <2>1. \A t \in Int : t \in Hits(i, {x}) <=> Began(i) <= t /\ t <= rows[i].ts - 1 /\ x.from <= t /\ t < x.to
    BY <1>2 DEF Hits, Within
  <2>2. \A t \in Int : t \in a .. b - 1 <=> Began(i) <= t /\ t <= rows[i].ts - 1 /\ x.from <= t /\ t < x.to
    BY <1>1 DEF Least
  <2>3. Hits(i, {x}) \subseteq Int /\ a .. b - 1 \subseteq Int
    BY <1>1, <1>2 DEF Hits
  <2>4. QED
    BY <2>1, <2>2, <2>3
<1>4. Overlap(i, x) = Positive(b - a)
  BY DEF Overlap
<1> HIDE DEF a, b
<1>5. IsFiniteSet(a .. b - 1) /\ Cardinality(a .. b - 1) = IF a > b - 1 THEN 0 ELSE b - 1 - a + 1
  BY <1>1, FS_Interval
<1>6. QED
  BY <1>1, <1>3, <1>4, <1>5 DEF Positive

\* Spans that are apart are hit one by one.
LEMMA HitOneMore ==
    ASSUME NEW i, rows[i].ts \in Int, Began(i) \in Int, NEW S, Apart(S), NEW x \in S
    PROVE  /\ Overlap(i, x) \in Nat /\ IsFiniteSet(Hits(i, S))
           /\ Cardinality(Hits(i, S)) = Overlap(i, x) + Cardinality(Hits(i, S \ {x}))
<1> DEFINE A == Hits(i, {x})
           B == Hits(i, S \ {x})
<1>1. x.from \in Nat /\ x.to \in Nat /\ x.from < x.to
  BY DEF Apart
<1>2. IsFiniteSet(A) /\ Overlap(i, x) = Cardinality(A) /\ Overlap(i, x) \in Nat
  BY <1>1, OverlapIs
<1>3. IsFiniteSet(DwellSpan(i)) /\ \A t \in DwellSpan(i) : t \in Int
  <2>1. rows[i].ts - 1 \in Int /\ DwellSpan(i) = Began(i) .. rows[i].ts - 1
    BY DEF DwellSpan, Span, Began
  <2>2. IsFiniteSet(Began(i) .. rows[i].ts - 1)
    BY <2>1, FS_Interval
  <2>3. QED
    BY <2>1, <2>2
<1>4. B \in SUBSET DwellSpan(i) /\ Hits(i, S) = A \cup B
  BY DEF Hits
<1>5. IsFiniteSet(B)
  BY <1>3, <1>4, FS_Subset
<1>6. A \cap B = {}
  <2>1. ASSUME NEW t \in A, t \in B PROVE FALSE
    <3>1. t \in Int /\ Within(t, x) /\ \E y \in S \ {x} : Within(t, y)
      BY <1>3, <2>1 DEF Hits
    <3>2. QED
      BY <3>1 DEF Within, Apart
  <2>2. QED
    BY <2>1
<1> HIDE DEF A, B
<1>7. IsFiniteSet(A \cup B) /\ Cardinality(A \cup B) = Cardinality(A) + Cardinality(B) - Cardinality(A \cap B)
  BY <1>2, <1>5, FS_Union
<1>8. Cardinality(A) \in Nat /\ Cardinality(B) \in Nat /\ Cardinality(A \cap B) = 0
  BY <1>2, <1>5, <1>6, FS_CardinalityType, FS_EmptySet
<1>9. Cardinality(A \cup B) = Cardinality(A) + Cardinality(B)
  BY <1>7, <1>8
<1>10. QED
  BY <1>2, <1>4, <1>7, <1>9 DEF B

(* What the sum over spans is the fold of.                                  *)
Sums(f, i, S) ==
    f = [s \in SUBSET S |-> IF s = {} THEN 0
                            ELSE LET x == CHOOSE x \in s : TRUE
                                 IN  Overlap(i, x) + f[s \ {x}]]

\* The overlaps of a dwell add up to the units it has in the spans.
LEMMA OverlapsAdd ==
    ASSUME NEW i, rows[i].ts \in Int, Began(i) \in Int, NEW S, IsFiniteSet(S), Apart(S)
    PROVE  IdleOverlap(i, S) = Cardinality(Hits(i, S))
<1> DEFINE h == [s \in SUBSET S |-> Cardinality(Hits(i, s))]
           g == CHOOSE f : Sums(f, i, S)
<1>1. ASSUME NEW s \in SUBSET S
      PROVE  Cardinality(Hits(i, s)) =
                IF s = {} THEN 0
                ELSE LET x == CHOOSE x \in s : TRUE
                     IN  Overlap(i, x) + Cardinality(Hits(i, s \ {x}))
  <2>1. CASE s = {}
    <3>1. Hits(i, s) = {}
      BY <2>1 DEF Hits
    <3>2. QED
      BY <2>1, <3>1, FS_EmptySet
  <2>2. CASE s # {}
    <3>1. Apart(s)
      BY DEF Apart
    <3>2. \A x \in s : Cardinality(Hits(i, s)) = Overlap(i, x) + Cardinality(Hits(i, s \ {x}))
      BY <3>1, HitOneMore
    <3>3. QED
      BY <2>2, <3>2
  <2>3. QED
    BY <2>1, <2>2
<1>2. Sums(h, i, S)
  <2>1. ASSUME NEW s \in SUBSET S
        PROVE  h[s] = IF s = {} THEN 0 ELSE LET x == CHOOSE x \in s : TRUE IN Overlap(i, x) + h[s \ {x}]
    BY <1>1
  <2>2. QED
    BY <2>1 DEF Sums
<1>3. Sums(g, i, S)
  BY <1>2
<1>4. IdleOverlap(i, S) = g[S]
  BY DEF IdleOverlap, MapThenSumSet, MapThenFoldSet, Sums
<1> HIDE DEF g
<1>5. \A s \in SUBSET S : g[s] = IF s = {} THEN 0 ELSE LET x == CHOOSE x \in s : TRUE IN Overlap(i, x) + g[s \ {x}]
  BY <1>3 DEF Sums
<1>6. \A s \in SUBSET S : g[s] = Cardinality(Hits(i, s))
  <2> DEFINE B == {s \in SUBSET S : g[s] # Cardinality(Hits(i, s))}
  <2>1. SUFFICES ASSUME B # {} PROVE FALSE
    OBVIOUS
  <2>2. B \in SUBSET SUBSET S
    OBVIOUS
  <2>3. PICK s \in B : \A t \in B : t \subseteq s => t = s
    <3> HIDE DEF B
    <3>1. QED
      BY <2>1, <2>2, LeastPart
  <2>4. s # {}
    BY <1>1, <1>5, <2>3
  <2> DEFINE x == CHOOSE x \in s : TRUE
  <2>5. x \in s /\ s \ {x} \in SUBSET S /\ s \ {x} \subseteq s /\ s \ {x} # s
    BY <2>4
  <2>6. g[s] = Overlap(i, x) + g[s \ {x}] /\ Cardinality(Hits(i, s)) = Overlap(i, x) + Cardinality(Hits(i, s \ {x}))
    BY <1>1, <1>5, <2>4
  <2>7. g[s \ {x}] = Cardinality(Hits(i, s \ {x}))
    BY <2>3, <2>5
  <2>8. QED
    BY <2>3, <2>6, <2>7
<1>7. QED
  BY <1>4, <1>6

\* The last of some dwells is one of them.
LEMMA LastIs ==
    ASSUME Base, NEW d \in SUBSET DOMAIN rows, d # {}
    PROVE  LastByStart(d) \in d /\ \A j \in d : Began(j) <= Began(LastByStart(d))
<1> DEFINE T == {Began(j) : j \in d}
           E == {j \in d : Began(j) = Max(T)}
<1>0. /\ now \in Nat /\ Len(rows) \in Nat /\ DOMAIN rows = 1 .. Len(rows)
      /\ \A j \in DOMAIN rows : Began(j) \in Int /\ Began(j) <= now
  BY RowsAre DEF Base, Typed, Dated, Began
<1>1. T \in SUBSET Int /\ T # {} /\ (\A x \in T : x <= now) /\ now \in Int
  BY <1>0
<1>2. Max(T) \in T /\ \A x \in T : x <= Max(T)
  <2> HIDE DEF T
  <2>1. QED
    BY <1>1, MaxIs
<1>3. E \in SUBSET Int /\ E # {} /\ (\A x \in E : x <= Len(rows)) /\ Len(rows) \in Int
  <2>1. E # {}
    BY <1>2
  <2>2. \A j \in d : j \in Int /\ j <= Len(rows)
    BY <1>0
  <2>3. E \in SUBSET Int /\ \A x \in E : x <= Len(rows)
    <3>1. \A x \in E : x \in d
      OBVIOUS
    <3> HIDE DEF E
    <3>2. QED
      BY <2>2, <3>1
  <2>4. Len(rows) \in Int
    BY <1>0
  <2> HIDE DEF E
  <2>5. QED
    BY <2>1, <2>3, <2>4
<1>4. Max(E) \in E /\ \A x \in E : x <= Max(E)
  <2> HIDE DEF E
  <2>1. QED
    BY <1>3, MaxIs
<1>5. ASSUME NEW j \in d \ {Max(E)}
      PROVE  Began(j) < Began(Max(E)) \/ (Began(j) = Began(Max(E)) /\ j < Max(E))
  <2>1. Began(j) \in T /\ Began(j) <= Max(T) /\ Began(Max(E)) = Max(T) /\ Began(j) \in Int /\ Max(T) \in Int
    BY <1>0, <1>1, <1>2, <1>4
  <2>2. Began(j) = Max(T) => j <= Max(E) /\ j # Max(E) /\ j \in Int /\ Max(E) \in Int
    BY <1>3, <1>4
  <2> HIDE DEF T, E
  <2>3. QED
    BY <2>1, <2>2
<1>6. Max(E) \in d
  BY <1>4
<1> HIDE DEF T, E
<1>7. /\ LastByStart(d) \in d
      /\ \A j \in d \ {LastByStart(d)} :
            Began(j) < Began(LastByStart(d)) \/ (Began(j) = Began(LastByStart(d)) /\ j < LastByStart(d))
  BY <1>5, <1>6 DEF LastByStart
<1>8. ASSUME NEW j \in d PROVE Began(j) <= Began(LastByStart(d))
  <2>1. Began(j) \in Int /\ Began(LastByStart(d)) \in Int
    BY <1>0, <1>7
  <2>2. j # LastByStart(d) => Began(j) <= Began(LastByStart(d))
    BY <1>7, <2>1
  <2>3. QED
    BY <2>1, <2>2
<1>9. QED
  BY <1>7, <1>8

(* What the sweep has when it has taken the dwells of d.                    *)
Over(spans, d) == IF d = {} THEN {} ELSE {x \in spans : Passed(x, Began(LastByStart(d)))}
SweptTo(s, d) == [passed |-> Over(Merged(s), d),
               active |-> [j \in d |-> Cardinality(DwellSpan(j) \ Away(s))]]

\* The cursor, which never goes back, ends before the first span not over yet.
Onward(spans, i, before) ==
    before \cup {x \in spans \ before : \A y \in spans \ before : y.from <= x.from => Passed(y, Began(i))}

LEMMA CursorIs ==
    ASSUME Base, NEW s \in DOMAIN ended, NEW d \in SUBSET DOMAIN rows, d # {}
    PROVE  Onward(Merged(s), LastByStart(d), Over(Merged(s), d \ {LastByStart(d)})) = Over(Merged(s), d)
<1> DEFINE i == LastByStart(d)
           e == d \ {i}
           before == Over(Merged(s), e)
           ahead == Merged(s) \ before
<1>0. \A j \in DOMAIN rows : Began(j) \in Int
  BY RowsAre DEF Base, Typed, Began
<1>1. i \in d /\ \A j \in d : Began(j) <= Began(i)
  BY LastIs
<1>2. /\ \A x \in Merged(s) : x.from \in Nat /\ x.to \in Nat /\ x.from < x.to
      /\ \A x, y \in Merged(s) : x = y \/ x.to <= y.from \/ y.to <= x.from
  BY MergedIs DEF Apart
<1>3. \A x \in before : x \in Merged(s) /\ Passed(x, Began(i))
  <2>1. CASE e = {}
    BY <2>1 DEF Over
  <2>2. CASE e # {}
    <3>1. LastByStart(e) \in e /\ e \in SUBSET DOMAIN rows
      BY <2>2, LastIs
    <3>2. Began(LastByStart(e)) <= Began(i) /\ Began(LastByStart(e)) \in Int /\ Began(i) \in Int
      BY <1>0, <1>1, <3>1
    <3>3. before = {x \in Merged(s) : Passed(x, Began(LastByStart(e)))}
      BY <2>2 DEF Over
    <3>4. ASSUME NEW x \in before PROVE x \in Merged(s) /\ Passed(x, Began(i))
      <4>1. x \in Merged(s) /\ x.to <= Began(LastByStart(e)) /\ x.to \in Nat
        BY <1>2, <3>3 DEF Passed
      <4> HIDE DEF e, i
      <4>2. QED
        BY <3>2, <4>1 DEF Passed
    <3>5. QED
      BY <3>4
  <2>3. QED
    BY <2>1, <2>2
<1>4. Began(i) \in Int /\ Over(Merged(s), d) = {x \in Merged(s) : Passed(x, Began(i))}
  BY <1>0, <1>1 DEF Over
<1> HIDE DEF i, e, before
<1>5. ASSUME NEW x \in Merged(s), Passed(x, Began(i)), NEW y \in Merged(s), y.from <= x.from
      PROVE  Passed(y, Began(i))
  BY <1>2, <1>4, <1>5 DEF Passed
<1>6. ASSUME NEW x \in ahead, \A y \in ahead : y.from <= x.from => Passed(y, Began(i))
      PROVE  Passed(x, Began(i))
  BY <1>2, <1>6
<1>7. before \cup {x \in ahead : \A y \in ahead : y.from <= x.from => Passed(y, Began(i))}
         = {x \in Merged(s) : Passed(x, Began(i))}
  BY <1>3, <1>5, <1>6
<1>8. QED
  BY <1>4, <1>7 DEF Onward, i, e, before

\* What is left of a dwell without its overlaps is what is not away.
Met(s, i) == {x \in Merged(s) : ~Passed(x, Began(i)) /\ x.from < rows[i].ts}

LEMMA DwellLeft ==
    ASSUME Base, NEW s \in DOMAIN ended, NEW i \in DOMAIN rows
    PROVE  Positive(rows[i].ts - Began(i) - IdleOverlap(i, Met(s, i))) = Cardinality(DwellSpan(i) \ Away(s))
<1> DEFINE T == Met(s, i)
<1>0. rows[i].ts \in Int /\ Began(i) \in Int /\ Began(i) <= rows[i].ts
  BY RowsAre DEF Base, Typed, Began
<1>1. DwellSpan(i) = Began(i) .. rows[i].ts - 1
  BY DEF DwellSpan, Span, Began
<1>2. /\ Apart(Merged(s)) /\ IsFiniteSet(Merged(s)) /\ T \in SUBSET Merged(s)
      /\ \A t \in Int : t \in Away(s) <=> \E x \in Merged(s) : Within(t, x)
  BY MergedIs DEF Met
<1> HIDE DEF T
<1>3. IsFiniteSet(T) /\ Apart(T)
  BY <1>2, FS_Subset DEF Apart
<1>4. IdleOverlap(i, T) = Cardinality(Hits(i, T))
  BY <1>0, <1>3, OverlapsAdd
<1>5. Hits(i, T) = DwellSpan(i) \cap Away(s)
  <2>1. ASSUME NEW t \in DwellSpan(i), NEW x \in Merged(s), Within(t, x) PROVE x \in T
    <3>1. t \in Int /\ Began(i) <= t /\ t < rows[i].ts /\ x.from \in Int /\ x.to \in Int
      BY <1>0, <1>1, <1>2 DEF Apart
    <3>2. QED
      BY <1>0, <2>1, <3>1 DEF Within, Passed, Met, T
  <2>2. \A t \in DwellSpan(i) : t \in Int
    BY <1>0, <1>1
  <2>3. QED
    BY <1>2, <2>1, <2>2 DEF Hits
<1>6. IsFiniteSet(DwellSpan(i)) /\ Cardinality(DwellSpan(i)) = rows[i].ts - Began(i)
  <2>1. rows[i].ts - 1 \in Int
    BY <1>0
  <2>2. /\ IsFiniteSet(Began(i) .. rows[i].ts - 1)
        /\ Cardinality(Began(i) .. rows[i].ts - 1) =
              IF Began(i) > rows[i].ts - 1 THEN 0 ELSE rows[i].ts - 1 - Began(i) + 1
    BY <1>0, <2>1, FS_Interval
  <2>3. QED
    BY <1>0, <1>1, <2>2
<1>7. /\ IsFiniteSet(DwellSpan(i) \ Away(s))
      /\ Cardinality(DwellSpan(i) \ Away(s)) = Cardinality(DwellSpan(i)) - Cardinality(DwellSpan(i) \cap Away(s))
  BY <1>6, FS_Difference
<1>8. Cardinality(DwellSpan(i) \ Away(s)) \in Nat
  BY <1>7, FS_CardinalityType
<1>9. QED
  BY <1>4, <1>5, <1>6, <1>7, <1>8 DEF Positive, T

LEMMA SweepStepIs ==
    ASSUME Base, NEW s \in DOMAIN ended, NEW d \in SUBSET DOMAIN rows, d # {}
    PROVE  SweepStep(Merged(s), LastByStart(d), SweptTo(s, d \ {LastByStart(d)})) = SweptTo(s, d)
<1> DEFINE i == LastByStart(d)
           acc == SweptTo(s, d \ {i})
           passed == Onward(Merged(s), i, acc.passed)
           T == {x \in Merged(s) \ passed : x.from < rows[i].ts}
<1>1. i \in d /\ i \in DOMAIN rows
  BY LastIs
<1>2. /\ acc.passed = Over(Merged(s), d \ {i})
      /\ acc.active = [j \in d \ {i} |-> Cardinality(DwellSpan(j) \ Away(s))]
  BY DEF SweptTo
<1>3. passed = Over(Merged(s), d)
  <2> HIDE DEF acc
  <2>1. QED
    BY <1>2, CursorIs
<1>4. T = Met(s, i)
  <2>1. passed = {x \in Merged(s) : Passed(x, Began(i))}
    BY <1>3 DEF Over
  <2> HIDE DEF passed, i
  <2>2. QED
    BY <2>1 DEF Met
<1>5. Positive(rows[i].ts - Began(i) - IdleOverlap(i, T)) = Cardinality(DwellSpan(i) \ Away(s))
  <2> HIDE DEF T, i
  <2>1. QED
    BY <1>1, <1>4, DwellLeft
<1>6. SweepStep(Merged(s), i, acc) =
         [passed |-> passed,
          active |-> [j \in DOMAIN acc.active \cup {i} |->
                         IF j = i THEN Positive(rows[i].ts - Began(i) - IdleOverlap(i, T)) ELSE acc.active[j]]]
  BY DEF SweepStep, Onward
<1> HIDE DEF i, acc, passed, T
<1>7. DOMAIN acc.active \cup {i} = d
  BY <1>1, <1>2
<1>8. ASSUME NEW j \in d
      PROVE  (IF j = i THEN Positive(rows[i].ts - Began(i) - IdleOverlap(i, T)) ELSE acc.active[j])
                = Cardinality(DwellSpan(j) \ Away(s))
  BY <1>2, <1>5
<1>9. SweepStep(Merged(s), i, acc) = SweptTo(s, d)
  BY <1>3, <1>6, <1>7, <1>8 DEF SweptTo
<1>10. QED
  BY <1>9 DEF i, acc

(* What the sweep is the fold of.                                           *)
Swept(f, s, D) ==
    f = [d \in SUBSET D |->
            IF d = {} THEN [passed |-> {}, active |-> [j \in {} |-> 0]]
            ELSE LET i == LastByStart(d) IN SweepStep(Merged(s), i, f[d \ {i}])]

\* The sweep of a session has for each of its dwells what is not away.
LEMMA SweepIs ==
    ASSUME Base, NEW s \in DOMAIN ended
    PROVE  Sweep(s) = [i \in {j \in Dwells : rows[j].sess = s} |-> Cardinality(DwellSpan(i) \ Away(s))]
<1> DEFINE D == {j \in Dwells : rows[j].sess = s}
           h == [d \in SUBSET D |-> SweptTo(s, d)]
           g == CHOOSE f : Swept(f, s, D)
<1>0. D \in SUBSET DOMAIN rows /\ IsFiniteSet(D)
  <2>1. D \in SUBSET DOMAIN rows
    BY DEF Dwells
  <2>2. IsFiniteSet(DOMAIN rows)
    BY Places DEF Base, Typed
  <2> HIDE DEF D
  <2>3. QED
    BY <2>1, <2>2, FS_Subset
<1>1. Sweep(s) = g[D].active
  BY DEF Sweep, MapThenFoldSet, Swept
<1> HIDE DEF D
<1>2. ASSUME NEW d \in SUBSET D
      PROVE  SweptTo(s, d) = IF d = {} THEN [passed |-> {}, active |-> [j \in {} |-> 0]]
                          ELSE LET i == LastByStart(d) IN SweepStep(Merged(s), i, SweptTo(s, d \ {i}))
  <2>1. CASE d = {}
    <3>1. Over(Merged(s), d) = {}
      BY <2>1 DEF Over
    <3>2. [j \in d |-> Cardinality(DwellSpan(j) \ Away(s))] = [j \in {} |-> 0]
      BY <2>1
    <3>3. QED
      BY <2>1, <3>1, <3>2 DEF SweptTo
  <2>2. CASE d # {}
    BY <1>0, <2>2, SweepStepIs
  <2>3. QED
    BY <2>1, <2>2
<1>3. Swept(h, s, D)
  <2>1. ASSUME NEW d \in SUBSET D
        PROVE  h[d] = IF d = {} THEN [passed |-> {}, active |-> [j \in {} |-> 0]]
                      ELSE LET i == LastByStart(d) IN SweepStep(Merged(s), i, h[d \ {i}])
    BY <1>2
  <2>2. QED
    BY <2>1 DEF Swept
<1>4. Swept(g, s, D)
  BY <1>3
<1> HIDE DEF g
<1>5. \A d \in SUBSET D :
         g[d] = IF d = {} THEN [passed |-> {}, active |-> [j \in {} |-> 0]]
                ELSE LET i == LastByStart(d) IN SweepStep(Merged(s), i, g[d \ {i}])
  BY <1>4 DEF Swept
<1>6. \A d \in SUBSET D : g[d] = SweptTo(s, d)
  <2> DEFINE B == {d \in SUBSET D : g[d] # SweptTo(s, d)}
  <2>1. SUFFICES ASSUME B # {} PROVE FALSE
    OBVIOUS
  <2>2. B \in SUBSET SUBSET D
    OBVIOUS
  <2>3. PICK d \in B : \A e \in B : e \subseteq d => e = d
    <3> HIDE DEF B
    <3>1. QED
      BY <1>0, <2>1, <2>2, LeastPart
  <2>4. d # {}
    BY <1>2, <1>5, <2>3
  <2> DEFINE i == LastByStart(d)
  <2>5. i \in d
    BY <1>0, <2>3, <2>4, LastIs
  <2>6. g[d] = SweepStep(Merged(s), i, g[d \ {i}]) /\ SweptTo(s, d) = SweepStep(Merged(s), i, SweptTo(s, d \ {i}))
    BY <1>2, <1>5, <2>3, <2>4
  <2> HIDE DEF i
  <2>7. d \ {i} \in SUBSET D /\ d \ {i} \subseteq d /\ d \ {i} # d
    BY <2>3, <2>5
  <2>8. g[d \ {i}] = SweptTo(s, d \ {i})
    BY <2>3, <2>7
  <2>9. QED
    BY <2>3, <2>6, <2>8
<1>7. Sweep(s) = SweptTo(s, D).active
  BY <1>1, <1>6
<1>8. QED
  BY <1>7 DEF SweptTo, D

LEMMA SweepInv == Base => SweepExact
BY SweepIs DEF SweepExact

\* SweepExact: the sweep of add_active_foreground_ms, whose cursor never goes
\* back over the merged spans, computes the size of what is left of each dwell.
THEOREM SweepCorrect == Spec => []SweepExact
BY PresenceInvariant, SweepInv, PTL DEF PresenceInv
=============================================================================
