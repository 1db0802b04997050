--------------------------- MODULE Retention_proofs ---------------------------
(***************************************************************************)
(* Deletion keeps the foreign keys (Intact), shows what was lost            *)
(* (LossShown), explains what was not (NoFalseAlarm), takes what the        *)
(* preview says (PreviewExact) and nothing recent (RecentKept): for any     *)
(* numbers of rows, sessions, recordings, deletions, crashes and settings   *)
(* of the clock, and any windows.                                          *)
(***************************************************************************)
EXTENDS Retention, FiniteSetTheorems, TLAPS

-----------------------------------------------------------------------------
(* Greatest and least elements of sets of integers.                         *)

LEMMA Least ==
    ASSUME NEW S \in SUBSET Nat, S # {}
    PROVE  \E x \in S : \A y \in S : x <= y
<1> DEFINE R == {p \in Nat \X Nat : p[1] < p[2]}
<1>1. IsWellFoundedOn(R, Nat)
  BY NatLessThanWellFounded DEF OpToRel
<1>2. \A x, y \in Nat : x < y => <<x, y>> \in R
  OBVIOUS
<1> HIDE DEF R
<1>3. PICK x \in S : \A y \in S : <<y, x>> \notin R
  BY <1>1, WFMin
<1>4. ASSUME NEW y \in S PROVE x <= y
  <2>1. x \in Nat /\ y \in Nat
    OBVIOUS
  <2>2. ~(y < x)
    BY <1>2, <1>3, <2>1
  <2>3. QED
    BY <2>1, <2>2
<1>5. QED
  BY <1>4

(* A set of integers that is bounded above has its Max. *)
LEMMA MaxIs ==
    ASSUME NEW S \in SUBSET Int, S # {}, NEW b \in Int, \A x \in S : x <= b
    PROVE  Max(S) \in S /\ \A y \in S : y <= Max(S)
<1> DEFINE D == {n \in Nat : b - n \in S}
<1>1. D # {}
  <2>1. PICK x \in S : TRUE
    OBVIOUS
  <2>2. b - x \in Nat /\ b - (b - x) = x
    BY <2>1
  <2>3. QED
    BY <2>1, <2>2
<1>2. PICK n \in D : \A m \in D : n <= m
  BY <1>1, Least
<1>3. ASSUME NEW y \in S PROVE b - n >= y
  <2>1. b - y \in Nat /\ b - (b - y) = y /\ n \in Int
    BY <1>2
  <2>2. b - y \in D
    BY <2>1
  <2>3. n <= b - y
    BY <1>2, <2>2
  <2>4. QED
    BY <2>1, <2>3
<1>4. b - n \in S
  BY <1>2
<1>5. Max(S) \in S /\ \A y \in S : Max(S) >= y
  BY <1>3, <1>4 DEF Max
<1>6. QED
  BY <1>5

(* One that is bounded below has its Min. *)
LEMMA MinIs ==
    ASSUME NEW S \in SUBSET Int, S # {}, NEW b \in Int, \A x \in S : b <= x
    PROVE  Min(S) \in S /\ \A y \in S : Min(S) <= y
<1> DEFINE D == {n \in Nat : b + n \in S}
<1>1. D # {}
  <2>1. PICK x \in S : TRUE
    OBVIOUS
  <2>2. x - b \in Nat /\ b + (x - b) = x
    BY <2>1
  <2>3. QED
    BY <2>1, <2>2
<1>2. PICK n \in D : \A m \in D : n <= m
  BY <1>1, Least
<1>3. ASSUME NEW y \in S PROVE b + n <= y
  <2>1. y - b \in Nat /\ b + (y - b) = y /\ n \in Int
    BY <1>2
  <2>2. y - b \in D
    BY <2>1
  <2>3. n <= y - b
    BY <1>2, <2>2
  <2>4. QED
    BY <2>1, <2>3
<1>4. b + n \in S
  BY <1>2
<1>5. Min(S) \in S /\ \A y \in S : Min(S) =< y
  BY <1>3, <1>4 DEF Min
<1>6. QED
  BY <1>5

LEMMA OfTwo ==
    ASSUME NEW a \in Int, NEW b \in Int
    PROVE  /\ Max({a, b}) \in Int /\ a <= Max({a, b}) /\ b <= Max({a, b})
           /\ Max({a, b}) \in {a, b}
           /\ Min({a, b}) \in Int /\ Min({a, b}) <= a /\ Min({a, b}) <= b
<1>1. PICK c \in Int : a <= c /\ b <= c
  <2>1. CASE a <= b
    BY <2>1
  <2>2. CASE b <= a
    BY <2>2
  <2>3. QED
    BY <2>1, <2>2
<1>2. PICK d \in Int : d <= a /\ d <= b
  <2>1. CASE a <= b
    BY <2>1
  <2>2. CASE b <= a
    BY <2>2
  <2>3. QED
    BY <2>1, <2>2
<1>3. {a, b} \in SUBSET Int /\ {a, b} # {}
  OBVIOUS
<1>4. Max({a, b}) \in {a, b} /\ \A y \in {a, b} : y <= Max({a, b})
  BY <1>1, <1>3, MaxIs
<1>5. Min({a, b}) \in {a, b} /\ \A y \in {a, b} : Min({a, b}) <= y
  BY <1>2, <1>3, MinIs
<1>6. QED
  BY <1>4, <1>5

-----------------------------------------------------------------------------
(* Finite sets, and the sum over a set of audit rows.                       *)

(* What a function makes of a finite set is finite.                         *)
LEMMA ImageFinite ==
    ASSUME NEW S, IsFiniteSet(S), NEW T, NEW f \in [S -> T]
    PROVE  IsFiniteSet({f[x] : x \in S})
<1>1. f \in Surjection(S, {f[x] : x \in S})
  BY DEF Surjection
<1>2. QED
  BY <1>1, FS_Surjection

(* Of a family of parts of a finite set, one has no other below it.         *)
LEMMA LeastPart ==
    ASSUME NEW S, IsFiniteSet(S), NEW B \in SUBSET SUBSET S, B # {}
    PROVE  \E s \in B : \A t \in B : t \subseteq s => t = s
<1>1. IsWellFoundedOn(StrictSubsetOrdering(S), FiniteSubsetsOf(S))
  BY FS_StrictSubsetOrderingWellFounded
<1>2. FiniteSubsetsOf(S) = SUBSET S
  BY FS_FiniteSubsetsOfFinite
<1>3. PICK s \in B : \A t \in B : <<t, s>> \notin StrictSubsetOrdering(S)
  BY <1>1, <1>2, WFMin
<1>4. ASSUME NEW t \in B, t \subseteq s, t # s PROVE FALSE
  <2>1. <<t, s>> \in StrictSubsetOrdering(S)
    BY <1>4 DEF StrictSubsetOrdering
  <2>2. QED
    BY <1>3, <2>1
<1>5. QED
  BY <1>4

(* The rows audit rows speak of, one by one.                                *)
RowByRow(as) == {p \in as \X Nat : p[2] \in 1 .. p[1].rows}

LEMMA RowsOfOne ==
    ASSUME NEW a, a.rows \in Nat
    PROVE  IsFiniteSet(RowByRow({a})) /\ Cardinality(RowByRow({a})) = a.rows
<1> DEFINE f == [i \in 1 .. a.rows |-> <<a, i>>]
<1>1. f \in Bijection(1 .. a.rows, RowByRow({a}))
  <2>1. f \in [1 .. a.rows -> RowByRow({a})]
    BY DEF RowByRow
  <2>2. \A i, j \in 1 .. a.rows : f[i] = f[j] => i = j
    OBVIOUS
  <2>3. \A p \in RowByRow({a}) : \E i \in 1 .. a.rows : f[i] = p
    <3>1. ASSUME NEW p \in RowByRow({a}) PROVE p[2] \in 1 .. a.rows /\ f[p[2]] = p
      BY DEF RowByRow
    <3>2. QED
      BY <3>1
  <2>4. QED
    BY <2>1, <2>2, <2>3 DEF Bijection, Injection, Surjection, IsInjective
<1>2. IsFiniteSet(1 .. a.rows) /\ Cardinality(1 .. a.rows) = a.rows
  <2>1. 1 \in Int /\ a.rows \in Int
    OBVIOUS
  <2>2. /\ IsFiniteSet(1 .. a.rows)
        /\ Cardinality(1 .. a.rows) = IF 1 > a.rows THEN 0 ELSE a.rows - 1 + 1
    BY <2>1, FS_Interval
  <2>3. (IF 1 > a.rows THEN 0 ELSE a.rows - 1 + 1) = a.rows
    OBVIOUS
  <2>4. QED
    BY <2>2, <2>3
<1>3. ExistsBijection(1 .. a.rows, RowByRow({a}))
  BY <1>1 DEF ExistsBijection
<1>4. QED
  BY <1>2, <1>3, FS_Bijection

(* The rows of a set of audit rows, and of one more.                        *)
LEMMA RowsOfOneMore ==
    ASSUME NEW S, NEW a \in S, a.rows \in Nat, IsFiniteSet(RowByRow(S \ {a}))
    PROVE  /\ IsFiniteSet(RowByRow(S))
           /\ Cardinality(RowByRow(S)) = a.rows + Cardinality(RowByRow(S \ {a}))
<1>1. RowByRow(S) = RowByRow({a}) \cup RowByRow(S \ {a})
  BY DEF RowByRow
<1>2. RowByRow({a}) \cap RowByRow(S \ {a}) = {}
  BY DEF RowByRow
<1>3. IsFiniteSet(RowByRow({a})) /\ Cardinality(RowByRow({a})) = a.rows
  BY RowsOfOne
<1>4. /\ IsFiniteSet(RowByRow(S))
      /\ Cardinality(RowByRow(S)) = Cardinality(RowByRow({a})) + Cardinality(RowByRow(S \ {a}))
                                    - Cardinality({})
  BY <1>1, <1>2, <1>3, FS_Union
<1>5. Cardinality({}) = 0 /\ Cardinality(RowByRow(S \ {a})) \in Nat
  BY FS_EmptySet, FS_CardinalityType
<1>6. QED
  BY <1>3, <1>4, <1>5

LEMMA RowsFinite ==
    ASSUME NEW S, IsFiniteSet(S), \A a \in S : a.rows \in Nat
    PROVE  \A s \in SUBSET S : IsFiniteSet(RowByRow(s))
<1> DEFINE B == {s \in SUBSET S : ~IsFiniteSet(RowByRow(s))}
<1>1. SUFFICES ASSUME B # {} PROVE FALSE
  OBVIOUS
<1>2. B \in SUBSET SUBSET S
  OBVIOUS
<1>3. PICK s \in B : \A t \in B : t \subseteq s => t = s
  <2> HIDE DEF B
  <2>1. QED
    BY <1>1, <1>2, LeastPart
<1>4. CASE s = {}
  <2>1. RowByRow(s) = {}
    BY <1>4 DEF RowByRow
  <2>2. QED
    BY <1>3, <2>1, FS_EmptySet
<1>5. CASE s # {}
  <2>1. PICK a \in s : TRUE
    BY <1>5
  <2>2. a.rows \in Nat /\ s \ {a} \in SUBSET S /\ s \ {a} \subseteq s /\ s \ {a} # s
    BY <1>3, <2>1
  <2>3. IsFiniteSet(RowByRow(s \ {a}))
    BY <1>3, <2>2
  <2>4. IsFiniteSet(RowByRow(s))
    BY <2>1, <2>2, <2>3, RowsOfOneMore
  <2>5. QED
    BY <1>3, <2>4
<1>6. QED
  BY <1>4, <1>5

(* What the sum over audit rows is the fold of.                              *)
SumsUp(f, S) ==
    f = [s \in SUBSET S |-> IF s = {} THEN 0
                            ELSE LET x == CHOOSE x \in s : TRUE
                                 IN  x.rows + f[s \ {x}]]

(* The sum over audit rows counts them row by row (MapThenSumSet).          *)
LEMMA SumOfRows ==
    ASSUME NEW S, IsFiniteSet(S), \A a \in S : a.rows \in Nat
    PROVE  /\ IsFiniteSet(RowByRow(S))
           /\ MapThenSumSet(LAMBDA a : a.rows, S) = Cardinality(RowByRow(S))
<1>1. \A s \in SUBSET S : IsFiniteSet(RowByRow(s))
  BY RowsFinite
<1> DEFINE h == [s \in SUBSET S |-> Cardinality(RowByRow(s))]
           g == CHOOSE f : SumsUp(f, S)
<1>2. SumsUp(h, S)
  <2>1. ASSUME NEW s \in SUBSET S
        PROVE  h[s] = IF s = {} THEN 0
                      ELSE LET x == CHOOSE x \in s : TRUE IN x.rows + h[s \ {x}]
    <3>1. CASE s = {}
      <4>1. RowByRow(s) = {}
        BY <3>1 DEF RowByRow
      <4>2. QED
        BY <3>1, <4>1, FS_EmptySet
    <3>2. CASE s # {}
      <4> DEFINE x == CHOOSE x \in s : TRUE
      <4>1. x \in s
        BY <3>2
      <4>2. x.rows \in Nat /\ s \ {x} \in SUBSET S
        BY <4>1
      <4>3. Cardinality(RowByRow(s)) = x.rows + Cardinality(RowByRow(s \ {x}))
        <5> HIDE DEF x
        <5>1. QED
          BY <1>1, <4>1, <4>2, RowsOfOneMore
      <4>4. QED
        BY <3>2, <4>2, <4>3
    <3>3. QED
      BY <3>1, <3>2
  <2>2. QED
    BY <2>1 DEF SumsUp
<1>3. SumsUp(g, S)
  BY <1>2
<1>4. MapThenSumSet(LAMBDA a : a.rows, S) = g[S]
  BY DEF MapThenSumSet, MapThenFoldSet, SumsUp
<1> HIDE DEF g, h
<1>5. \A s \in SUBSET S : g[s] = h[s]
  <2> DEFINE B == {s \in SUBSET S : g[s] # h[s]}
  <2>1. SUFFICES ASSUME B # {} PROVE FALSE
    OBVIOUS
  <2>2. B \in SUBSET SUBSET S
    OBVIOUS
  <2>3. PICK s \in B : \A t \in B : t \subseteq s => t = s
    <3> HIDE DEF B
    <3>1. QED
      BY <2>1, <2>2, LeastPart
  <2>4. CASE s = {}
    BY <1>2, <1>3, <2>3, <2>4 DEF SumsUp
  <2>5. CASE s # {}
    <3> DEFINE x == CHOOSE x \in s : TRUE
    <3>1. x \in s
      BY <2>5
    <3>2. g[s] = x.rows + g[s \ {x}] /\ h[s] = x.rows + h[s \ {x}]
      BY <1>2, <1>3, <2>3, <2>5 DEF SumsUp
    <3> HIDE DEF x
    <3>3. s \ {x} \in SUBSET S /\ s \ {x} \subseteq s /\ s \ {x} # s
      BY <2>3, <3>1
    <3>4. g[s \ {x}] = h[s \ {x}]
      BY <2>3, <3>3
    <3>5. QED
      BY <2>3, <3>2, <3>4
  <2>6. QED
    BY <2>4, <2>5
<1>6. QED
  BY <1>1, <1>4, <1>5 DEF h

-----------------------------------------------------------------------------
(* The state.                                                               *)

Session == [started : Int, ended : Int \cup {None}]
Recording == [session : Nat, started : Int, ended : Int \cup {None}]
Row == [session : Nat, seq : Nat, ts : Int, kind : RowKinds, rec : Nat \cup {None}]
Request == [expires : Int, rec : Nat \cup {None}]

Occasions == [boots : Nat, rows : Nat, sets : Nat, upsets : Nat, raced : BOOLEAN]

Typed ==
    /\ now \in Times /\ app \in {"off", "pruning", "thinning", "ready", "on"}
    /\ base \in Int /\ skew \in Int /\ agesFrom \in Int /\ thinned \in Int
    /\ live \in Nat \cup {None} /\ stamp \in [seq : Nat, ts : Int]
    /\ sessions \in [DOMAIN sessions -> Session] /\ DOMAIN sessions \subseteq Nat
    /\ rows \subseteq Row
    /\ recs \in [DOMAIN recs -> Recording] /\ DOMAIN recs \subseteq Nat
    /\ lastRec \in Nat /\ requests \subseteq Request /\ lost \subseteq Nat \X Nat
    /\ used \in Occasions

(* An action has a recording, an event has none. *)
Kept == \A r \in rows : r.kind = "action" <=> r.rec # None

(* There is a last row and a last session. *)
Ends(rs) == \E b \in Nat : \A r \in rs : r.ts <= b /\ r.seq <= b
RowsEnd == Ends(rows)
SessionsEnd == \E b \in Nat : \A s \in DOMAIN sessions : s <= b

(* A session is written while the application is on. *)
Living == app = "on" <=> live # None

Shaped == Typed /\ Kept /\ RowsEnd /\ SessionsEnd /\ Living


LEMMA ConstantTypes == \A t \in Times : t \in Nat /\ t \in Int /\ Days \in Nat /\ MouseDays \in Nat
BY RetentionConstants

(* The bounded occasions stay counted. *)
LEMMA UsedTyped ==
    ASSUME used \in Occasions
    PROVE  /\ [used EXCEPT !.boots = @ + 1] \in Occasions
           /\ [used EXCEPT !.rows = @ + 1] \in Occasions
           /\ [used EXCEPT !.upsets = @ + 1] \in Occasions
           /\ [used EXCEPT !.sets = @ + 1, !.upsets = @ + 1] \in Occasions
           /\ \A b \in BOOLEAN : [used EXCEPT !.upsets = @ + 1, !.raced = b] \in Occasions
<1>1. /\ used.boots + 1 \in Nat /\ used.rows + 1 \in Nat
      /\ used.sets + 1 \in Nat /\ used.upsets + 1 \in Nat
  BY DEF Occasions
<1>2. \A n \in Nat : /\ [used EXCEPT !.boots = n] \in Occasions
                      /\ [used EXCEPT !.rows = n] \in Occasions
                      /\ [used EXCEPT !.upsets = n] \in Occasions
  BY DEF Occasions
<1>3. \A m, n \in Nat : [used EXCEPT !.sets = m, !.upsets = n] \in Occasions
  BY DEF Occasions
<1>4. \A n \in Nat : \A b \in BOOLEAN : [used EXCEPT !.upsets = n, !.raced = b] \in Occasions
  BY DEF Occasions
<1>5. QED
  BY <1>1, <1>2, <1>3, <1>4

LEMMA DashboardUsed ==
    ASSUME used \in Occasions, NEW op, Dashboard(op) PROVE used' \in Occasions
<1> DEFINE b == used.raced \/ app \notin {"off", "on"}
<1>1. b \in BOOLEAN
  OBVIOUS
<1>2. used' = [used EXCEPT !.upsets = @ + 1, !.raced = b]
  BY DEF Dashboard
<1> HIDE DEF b
<1>3. QED
  BY <1>1, <1>2, UsedTyped

(* The newest of the rows, and the number after the last of them. *)
LEMMA NewestIs ==
    ASSUME NEW rs \in SUBSET Row, Ends(rs)
    PROVE  /\ rs # {} => /\ Newest(rs) \in Int /\ \A r \in rs : r.ts <= Newest(rs)
                         /\ \E r \in rs : r.ts = Newest(rs)
           /\ \A t \in Int :
                 /\ Max({t} \cup {r.ts : r \in rs}) \in Int
                 /\ Max({0} \cup {r.seq : r \in rs}) \in Nat
                 /\ \A q \in rs : q.seq <= Max({0} \cup {r.seq : r \in rs})
<1>1. PICK b \in Nat : \A r \in rs : r.ts <= b /\ r.seq <= b
  BY DEF Ends
<1>2. \A r \in rs : r.ts \in Int /\ r.seq \in Nat /\ r.ts <= b /\ r.seq <= b
  BY <1>1 DEF Row
<1>3. ASSUME rs # {}
      PROVE  /\ Newest(rs) \in Int /\ \A r \in rs : r.ts <= Newest(rs)
             /\ \E r \in rs : r.ts = Newest(rs)
  <2> DEFINE S == {r.ts : r \in rs}
  <2>1. S \in SUBSET Int /\ S # {} /\ \A x \in S : x <= b
    BY <1>2, <1>3
  <2>2. Max(S) \in S /\ \A y \in S : y <= Max(S)
    <3> HIDE DEF S
    <3>1. QED
      BY <2>1, MaxIs
  <2>3. QED
    BY <2>1, <2>2 DEF Newest
<1>4. ASSUME NEW t \in Int PROVE Max({t} \cup {r.ts : r \in rs}) \in Int
  <2> DEFINE S == {t} \cup {r.ts : r \in rs}
  <2>1. PICK c \in Int : t <= c /\ b <= c
    <3>1. b \in Int
      OBVIOUS
    <3>2. QED
      BY <3>1, OfTwo
  <2>2. S \in SUBSET Int /\ S # {} /\ \A x \in S : x <= c
    BY <1>2, <2>1
  <2> HIDE DEF S
  <2>3. Max(S) \in S
    BY <2>2, MaxIs
  <2>4. QED
    BY <2>2, <2>3 DEF S
<1>5. /\ Max({0} \cup {r.seq : r \in rs}) \in Nat
      /\ \A q \in rs : q.seq <= Max({0} \cup {r.seq : r \in rs})
  <2> DEFINE S == {0} \cup {r.seq : r \in rs}
  <2>1. S \in SUBSET Int /\ S \in SUBSET Nat /\ S # {} /\ \A x \in S : x <= b
    BY <1>2
  <2>2. b \in Int
    OBVIOUS
  <2>3. Max(S) \in S /\ \A y \in S : y <= Max(S)
    <3> HIDE DEF S
    <3>1. QED
      BY <2>1, <2>2, MaxIs
  <2>4. QED
    BY <2>1, <2>3
<1>6. QED
  BY <1>3, <1>4, <1>5

(* The next session is a new one. *)
LEMMA NextIsNew ==
    ASSUME Typed, SessionsEnd
    PROVE  NextSession \in Nat /\ \A s \in DOMAIN sessions : s < NextSession
<1>1. PICK b \in Nat : \A s \in DOMAIN sessions : s <= b
  BY DEF SessionsEnd
<1> DEFINE S == {0} \cup DOMAIN sessions
<1>2. S \in SUBSET Int /\ S \in SUBSET Nat /\ S # {} /\ \A x \in S : x <= b
  BY <1>1 DEF Typed
<1>3. b \in Int
  OBVIOUS
<1>4. Max(S) \in S /\ \A y \in S : y <= Max(S)
  <2> HIDE DEF S
  <2>1. QED
    BY <1>2, <1>3, MaxIs
<1>5. QED
  BY <1>2, <1>4 DEF NextSession

(* What the sequencer reads. *)
LEMMA ReadingIs ==
    ASSUME Typed PROVE Reading \in Int /\ stamp.ts <= Reading
<1>1. now + skew \in Int /\ stamp.ts \in Int
  BY ConstantTypes DEF Typed
<1>2. QED
  BY <1>1, OfTwo DEF Reading

(* A row that is stored, or found, is one more. *)
LEMMA OneMore ==
    ASSUME Typed, Kept, RowsEnd, NEW row \in Row, row.kind = "action" <=> row.rec # None,
           rows' = rows \cup {row}
    PROVE  rows' \subseteq Row /\ Kept' /\ RowsEnd'
<1>1. rows' \subseteq Row /\ Kept'
  BY DEF Typed, Kept
<1>2. PICK b \in Nat : \A r \in rows : r.ts <= b /\ r.seq <= b
  BY DEF RowsEnd, Ends
<1>3. row.ts \in Int /\ row.seq \in Nat
  BY DEF Row
<1>4. PICK c \in Nat : b <= c /\ row.ts <= c /\ row.seq <= c
  <2>1. PICK d \in Int : b <= d /\ row.ts <= d
    BY <1>3, OfTwo
  <2>2. PICK e \in Int : d <= e /\ row.seq <= e
    BY <1>3, OfTwo
  <2>3. e \in Nat
    BY <1>3, <2>2
  <2>4. QED
    BY <1>3, <2>1, <2>2, <2>3
<1>5. \A r \in rows : r.ts \in Int /\ r.seq \in Nat
  BY DEF Typed, Row
<1>6. \A r \in rows' : r.ts <= c /\ r.seq <= c
  BY <1>2, <1>3, <1>4, <1>5
<1>7. QED
  BY <1>1, <1>6 DEF RowsEnd, Ends

(* Rows that go leave the others as they are. *)
LEMMA Fewer ==
    ASSUME Typed, Kept, RowsEnd, rows' \subseteq rows
    PROVE  rows' \subseteq Row /\ Kept' /\ RowsEnd'
BY DEF Typed, Kept, RowsEnd, Ends

(* What a prune leaves is as it was. *)
LEMMA PruneLeaves ==
    ASSUME NEW cutoff, NEW at, Prune(cutoff, at)
    PROVE  /\ rows' = rows \ PrunedRows(cutoff)
           /\ DOMAIN sessions' = DOMAIN sessions \ PrunedSessions(cutoff)
           /\ \A s \in DOMAIN sessions' : sessions'[s] = sessions[s]
           /\ DOMAIN recs' = DOMAIN recs \ PrunedRecs(cutoff)
           /\ \A r \in DOMAIN recs' : recs'[r] = recs[r]
           /\ requests' \subseteq requests /\ lastRec' = lastRec
           /\ lost' = {l \in lost : l[1] \in DOMAIN sessions'}
<1>1. rows' = rows \ PrunedRows(cutoff)
  BY DEF Prune, Delete
<1>2. /\ recs' = Without(recs, PrunedRecs(cutoff))
      /\ sessions' = Without(sessions, PrunedSessions(cutoff))
      /\ requests' = requests \ PrunedRequests(cutoff)
      /\ lost' = {l \in lost : l[1] \in DOMAIN sessions'}
      /\ lastRec' = lastRec
  BY DEF Prune
<1>3. QED
  BY <1>1, <1>2 DEF Without

LEMMA PruneShaped ==
    ASSUME Shaped, NEW cutoff, NEW at, Prune(cutoff, at)
    PROVE  /\ sessions' \in [DOMAIN sessions' -> Session] /\ DOMAIN sessions' \subseteq Nat
           /\ rows' \subseteq Row /\ Kept' /\ RowsEnd' /\ SessionsEnd'
           /\ recs' \in [DOMAIN recs' -> Recording] /\ DOMAIN recs' \subseteq Nat
           /\ lastRec' \in Nat /\ requests' \subseteq Request /\ lost' \subseteq Nat \X Nat
<1>1. Typed /\ Kept /\ RowsEnd /\ SessionsEnd
  BY DEF Shaped
<1>2. rows' \subseteq rows
  BY PruneLeaves
<1>3. rows' \subseteq Row /\ Kept' /\ RowsEnd'
  BY <1>1, <1>2, Fewer
<1>4. sessions' = Without(sessions, PrunedSessions(cutoff)) /\ recs' = Without(recs, PrunedRecs(cutoff))
  BY DEF Prune
<1>5. sessions' \in [DOMAIN sessions' -> Session] /\ DOMAIN sessions' \subseteq DOMAIN sessions
  BY <1>1, <1>4 DEF Typed, Without
<1>6. recs' \in [DOMAIN recs' -> Recording] /\ DOMAIN recs' \subseteq DOMAIN recs
  BY <1>1, <1>4 DEF Typed, Without
<1>7. lastRec' \in Nat /\ requests' \subseteq Request /\ lost' \subseteq Nat \X Nat
  BY <1>1, PruneLeaves DEF Typed
<1>8. SessionsEnd' /\ DOMAIN sessions' \subseteq Nat /\ DOMAIN recs' \subseteq Nat
  BY <1>1, <1>5, <1>6 DEF SessionsEnd, Typed
<1>9. QED
  BY <1>3, <1>5, <1>6, <1>7, <1>8

(* A row that the repair adds. *)
LEMMA RecoveredIs ==
    ASSUME Typed, RowsEnd, NEW s \in DOMAIN sessions
    PROVE  /\ Recovered(s) \in Row /\ Recovered(s).kind = "event" /\ Recovered(s).rec = None
           /\ Recovered(s).session = s
           /\ \A r \in rows : r.session = s => r.seq < Recovered(s).seq
<1> DEFINE of == Of(rows, s)
           n == Max({0} \cup {r.seq : r \in of})
           t == Max({sessions[s].started} \cup {r.ts : r \in of})
<1>1. of \in SUBSET Row /\ Ends(of) /\ sessions[s].started \in Int /\ s \in Nat
  BY DEF Of, Typed, Session, RowsEnd, Ends
<1>2. n \in Nat /\ (\A r \in of : r.seq <= n) /\ t \in Int
  <2> HIDE DEF of
  <2>1. QED
    BY <1>1, NewestIs
<1>3. Recovered(s) = [session |-> s, seq |-> n + 1, ts |-> t, kind |-> "event", rec |-> None]
  BY DEF Recovered
<1>4. \A r \in rows : r.session = s => r \in of /\ r.seq \in Nat
  BY DEF Of, Typed, Row
<1> HIDE DEF of, n, t
<1>5. QED
  BY <1>1, <1>2, <1>3, <1>4 DEF Row, RowKinds

(* What a start closes has a beginning as before, and an end. *)
LEMMA FinalizedSession ==
    ASSUME Typed, NEW s \in DOMAIN sessions, NEW rs \in SUBSET Row, Ends(rs)
    PROVE  /\ Finalized(sessions[s], rs) \in Session
           /\ Finalized(sessions[s], rs).started = sessions[s].started
           /\ Finalized(sessions[s], rs).ended # None
<1>1. sessions[s] \in Session
  BY DEF Typed
<1>2. Max({sessions[s].started} \cup {r.ts : r \in rs}) \in Int
  BY <1>1, NewestIs DEF Session
<1>3. QED
  BY <1>1, <1>2, RetentionConstants DEF Finalized, Session

LEMMA FinalizedRecording ==
    ASSUME Typed, NEW r \in DOMAIN recs, NEW rs \in SUBSET Row, Ends(rs)
    PROVE  /\ Finalized(recs[r], rs) \in Recording
           /\ Finalized(recs[r], rs).session = recs[r].session
<1>1. recs[r] \in Recording
  BY DEF Typed
<1>2. Max({recs[r].started} \cup {q.ts : q \in rs}) \in Int
  BY <1>1, NewestIs DEF Recording
<1>3. QED
  BY <1>1, <1>2, RetentionConstants DEF Finalized, Recording

(* The rows after the repair, and where the retention of a start reckons from. *)
LEMMA Repaired ==
    ASSUME Typed, Kept, RowsEnd, Open
    PROVE  /\ rows' \subseteq Row /\ Kept' /\ RowsEnd'
           /\ \/ rows' = rows
              \/ \E s \in DOMAIN sessions : sessions[s].ended = None
                                            /\ rows' = rows \cup {Recovered(s)}
<1>1. \/ rows' = rows
      \/ \E s \in DOMAIN sessions : sessions[s].ended = None /\ rows' = rows \cup {Recovered(s)}
  BY DEF Open
<1>2. CASE rows' = rows
  BY <1>2, Fewer
<1>3. ASSUME NEW s \in DOMAIN sessions, rows' = rows \cup {Recovered(s)}
      PROVE  rows' \subseteq Row /\ Kept' /\ RowsEnd'
  BY <1>3, RecoveredIs, OneMore
<1>4. QED
  BY <1>1, <1>2, <1>3

LEMMA OpenShaped == ASSUME Shaped, Open PROVE Shaped'
<1>1. Typed /\ Kept /\ RowsEnd /\ SessionsEnd /\ Living
  BY DEF Shaped
<1>2. rows' \subseteq Row /\ Kept' /\ RowsEnd'
  BY <1>1, Repaired
<1>3. \A S \in SUBSET rows' : S \in SUBSET Row /\ Ends(S)
  BY <1>2 DEF RowsEnd, Ends
<1>4. sessions' \in [DOMAIN sessions' -> Session] /\ DOMAIN sessions' = DOMAIN sessions
  <2>1. \A s \in DOMAIN sessions : Events(Of(rows', s)) \in SUBSET rows'
    BY DEF Events, Of
  <2>2. \A s \in DOMAIN sessions : Finalized(sessions[s], Events(Of(rows', s))) \in Session
    BY <1>1, <1>3, <2>1, FinalizedSession
  <2>3. sessions' = [s \in DOMAIN sessions |-> Finalized(sessions[s], Events(Of(rows', s)))]
    BY DEF Open
  <2>4. QED
    BY <2>2, <2>3
<1>5. recs' \in [DOMAIN recs' -> Recording] /\ DOMAIN recs' = DOMAIN recs
  <2>1. \A r \in DOMAIN recs : {a \in rows : a.rec = r} \in SUBSET rows'
    BY DEF Open
  <2>2. \A r \in DOMAIN recs : Finalized(recs[r], {a \in rows : a.rec = r}) \in Recording
    BY <1>1, <1>3, <2>1, FinalizedRecording
  <2>3. recs' = [r \in DOMAIN recs |-> Finalized(recs[r], {a \in rows : a.rec = r})]
    BY DEF Open
  <2>4. QED
    BY <2>2, <2>3
<1>6. now \in Int /\ agesFrom' \in Int
  <2>1. now \in Int /\ Events(rows') \in SUBSET rows'
    BY <1>1, ConstantTypes DEF Typed, Events
  <2>2. Events(rows') # {} => Newest(Events(rows')) \in Int
    BY <1>3, <2>1, NewestIs
  <2>3. agesFrom' = ClampedNow(rows')
    BY DEF Open
  <2>4. QED
    BY <2>1, <2>2, <2>3, OfTwo DEF ClampedNow
<1>7. used' \in Occasions
  BY <1>1, UsedTyped DEF Open, Typed
<1>8. Typed'
  <2>1. /\ app' = "pruning" /\ base' = now /\ skew' = 0
        /\ UNCHANGED <<now, live, stamp, thinned, lastRec, requests, lost>>
    BY DEF Open
  <2>2. QED
    BY <1>1, <1>2, <1>4, <1>5, <1>6, <1>7, <2>1 DEF Typed
<1>9. SessionsEnd' /\ Living'
  BY <1>1, <1>4 DEF SessionsEnd, Living, Open
<1>10. QED
  BY <1>2, <1>8, <1>9 DEF Shaped

(* Steps that change neither rows nor what hangs on them. *)
LEMMA SameRows ==
    ASSUME Kept, RowsEnd, SessionsEnd, rows' = rows, DOMAIN sessions' \subseteq DOMAIN sessions
    PROVE  Kept' /\ RowsEnd' /\ SessionsEnd'
BY DEF Kept, RowsEnd, Ends, SessionsEnd

(* A row is stored under the number it was stamped with. *)
LEMMA Written ==
    ASSUME Shaped, NEW kind \in RowKinds, Write(kind)
    PROVE  \E row \in Row : /\ rows' = rows \cup {row} /\ row.session = live /\ live \in Nat
                            /\ row.seq = stamp'.seq /\ row.kind = kind
                            /\ kind = "action" <=> row.rec # None
                            /\ row.rec # None => row.rec \in OpenRecs
                            /\ stamp'.seq = stamp.seq + 1
<1>1. Typed /\ Living /\ app = "on"
  BY DEF Shaped, Write
<1>2. live \in Nat /\ stamp' = [seq |-> stamp.seq + 1, ts |-> Reading] /\ Reading \in Int
      /\ stamp.seq \in Nat
  BY <1>1, ReadingIs DEF Living, Write, Stamp, Typed
<1>3. PICK rec \in IF kind = "action" THEN OpenRecs ELSE {None} :
          rows' = rows \cup {[session |-> live, seq |-> stamp'.seq,
                              ts |-> stamp'.ts, kind |-> kind, rec |-> rec]}
  BY DEF Write
<1>4. OpenRecs \subseteq Nat /\ None \notin Nat
  BY <1>1, RetentionConstants DEF OpenRecs, Typed
<1>5. rec \in Nat \cup {None} /\ (kind = "action" <=> rec # None) /\ (rec # None => rec \in OpenRecs)
  BY <1>3, <1>4
<1> DEFINE row == [session |-> live, seq |-> stamp'.seq, ts |-> stamp'.ts, kind |-> kind,
                   rec |-> rec]
<1>6. stamp'.seq = stamp.seq + 1 /\ stamp'.seq \in Nat /\ stamp'.ts \in Int
  BY <1>2
<1>7. row \in Row
  BY <1>2, <1>5, <1>6 DEF Row
<1>8. QED
  BY <1>2, <1>3, <1>5, <1>6, <1>7

LEMMA ShapedStep == ASSUME Shaped, [Next]_vars PROVE Shaped'
<1>1. Typed /\ Kept /\ RowsEnd /\ SessionsEnd /\ Living
  BY DEF Shaped
<1>2. CASE Tick \/ SetClock
  <2>1. \A t \in Times : t \in Int
    BY ConstantTypes
  <2>2. used' \in Occasions
    BY <1>1, <1>2, UsedTyped DEF Tick, SetClock, Typed
  <2>3. now' \in Times /\ skew' \in Int
    BY <1>1, <1>2, <2>1 DEF Tick, SetClock, Typed, boot
  <2>4. Typed'
    BY <1>1, <1>2, <2>2, <2>3 DEF Tick, SetClock, Typed, boot, store
  <2>5. QED
    BY <1>1, <1>2, <2>4, SameRows DEF Tick, SetClock, Shaped, Living, boot, store
<1>3. CASE Resync \/ Crash
  <2>1. Typed'
    BY <1>1, <1>3 DEF Resync, Crash, Stopped, Typed, clock, store
  <2>2. Living'
    BY <1>1, <1>3 DEF Resync, Crash, Stopped, Living
  <2>3. QED
    BY <1>1, <1>3, <2>1, <2>2, SameRows DEF Resync, Crash, Shaped, store
<1>4. CASE Open
  BY <1>4, OpenShaped
<1>5. CASE StartupPrune
  <2>1. Prune(agesFrom - Days, now)
    BY <1>5 DEF StartupPrune
  <2>2. Typed' /\ Living'
    BY <1>1, <1>5, <2>1, PruneShaped, ConstantTypes DEF StartupPrune, Typed, Living, clock
  <2>3. QED
    BY <2>1, <2>2, PruneShaped DEF Shaped
<1>6. CASE MousePrune
  <2>1. rows' \subseteq rows
    BY <1>6 DEF MousePrune, Delete
  <2>2. rows' \subseteq Row /\ Kept' /\ RowsEnd'
    BY <1>1, <2>1, Fewer
  <2>3. Typed' /\ Living' /\ SessionsEnd'
    BY <1>1, <1>6, <2>2 DEF MousePrune, Typed, Living, SessionsEnd, clock
  <2>4. QED
    BY <2>2, <2>3 DEF Shaped
<1>7. CASE CreateSession
  <2>1. live' = NextSession /\ NextSession \in Nat /\ \A s \in DOMAIN sessions : s < live'
    BY <1>1, <1>7, NextIsNew DEF CreateSession
  <2>2. sessions' = [s \in DOMAIN sessions \cup {live'} |->
          IF s = live' THEN [started |-> base, ended |-> None] ELSE sessions[s]]
    BY <1>7 DEF CreateSession
  <2>3. [started |-> base, ended |-> None] \in Session
    BY <1>1 DEF Typed, Session
  <2>4. sessions' \in [DOMAIN sessions' -> Session] /\ DOMAIN sessions' \subseteq Nat
    BY <1>1, <2>1, <2>2, <2>3 DEF Typed
  <2>5. Typed'
    BY <1>1, <1>7, <2>1, <2>4 DEF CreateSession, Typed, clock
  <2>6. SessionsEnd'
    <3>1. \A s \in DOMAIN sessions' : s <= live'
      BY <1>1, <2>1, <2>2 DEF Typed
    <3>2. QED
      BY <2>1, <3>1 DEF SessionsEnd
  <2>7. Living' /\ Kept' /\ RowsEnd'
    BY <1>1, <1>7, <2>1, RetentionConstants DEF CreateSession, Living, Kept, RowsEnd, Ends
  <2>8. QED
    BY <2>5, <2>6, <2>7 DEF Shaped
<1>8. ASSUME NEW kind \in RowKinds, Write(kind) PROVE Shaped'
  <2>1. PICK row \in Row : rows' = rows \cup {row} /\ (row.kind = "action" <=> row.rec # None)
    BY <1>8, Written
  <2>2. rows' \subseteq Row /\ Kept' /\ RowsEnd'
    BY <1>1, <2>1, OneMore
  <2>3. stamp' \in [seq : Nat, ts : Int]
    BY <1>1, <1>8, ReadingIs DEF Write, Stamp, Typed
  <2>4. used' \in Occasions
    BY <1>1, <1>8, UsedTyped DEF Write, Room, Typed
  <2>5. Typed' /\ Living' /\ SessionsEnd'
    BY <1>1, <1>8, <2>2, <2>3, <2>4 DEF Write, Typed, Living, SessionsEnd
  <2>6. QED
    BY <2>2, <2>5 DEF Shaped
<1>9. CASE Lose
  <2>1. stamp' \in [seq : Nat, ts : Int] /\ live \in Nat
    BY <1>1, <1>9, ReadingIs DEF Lose, Stamp, Typed, Living
  <2>2. lost' \subseteq Nat \X Nat
    BY <1>1, <1>9, <2>1 DEF Lose, Typed
  <2>3. Typed' /\ Living'
    BY <1>1, <1>9, <2>1, <2>2 DEF Lose, Typed, Living, clock
  <2>4. QED
    BY <1>1, <1>9, <2>3, SameRows DEF Lose, Shaped
<1>10. CASE OpenRecording
  <2>1. Reading \in Int /\ live \in Nat /\ lastRec' \in Nat /\ lastRec' = lastRec + 1
    BY <1>1, <1>10, ReadingIs DEF OpenRecording, Typed, Living
  <2>2. recs' = [r \in DOMAIN recs \cup {lastRec'} |->
          IF r = lastRec'
          THEN [session |-> live, started |-> Reading, ended |-> None]
          ELSE recs[r]]
    BY <1>10 DEF OpenRecording
  <2>3. [session |-> live, started |-> Reading, ended |-> None] \in Recording
    BY <2>1 DEF Recording
  <2>4. recs' \in [DOMAIN recs' -> Recording] /\ DOMAIN recs' \subseteq Nat
    BY <1>1, <2>1, <2>2, <2>3 DEF Typed
  <2>5. requests' \subseteq Request
    BY <1>1, <1>10, <2>1 DEF OpenRecording, Request, Typed
  <2>6. used' \in Occasions
    BY <1>1, <1>10, UsedTyped DEF OpenRecording, Room, Typed
  <2>7. Typed' /\ Living'
    BY <1>1, <1>10, <2>1, <2>4, <2>5, <2>6 DEF OpenRecording, Typed, Living, boot
  <2>8. QED
    BY <1>1, <1>10, <2>7, SameRows DEF OpenRecording, Shaped
<1>11. CASE CloseRecording
  <2>1. PICK r \in OpenRecs : recs' = [recs EXCEPT ![r].ended = Reading]
    BY <1>11 DEF CloseRecording
  <2>2. recs' \in [DOMAIN recs' -> Recording] /\ DOMAIN recs' \subseteq Nat
    BY <1>1, <2>1, ReadingIs DEF OpenRecs, Typed, Recording
  <2>3. Typed' /\ Living'
    BY <1>1, <1>11, <2>2 DEF CloseRecording, Typed, Living, clock, boot
  <2>4. QED
    BY <1>1, <1>11, <2>3, SameRows DEF CloseRecording, Shaped
<1>12. CASE EndSession
  <2>1. Reading \in Int
    BY <1>1, ReadingIs
  <2>2. recs' \in [DOMAIN recs' -> Recording] /\ DOMAIN recs' \subseteq Nat
    BY <1>1, <1>12, <2>1 DEF EndSession, Typed, Recording
  <2>3. sessions' \in [DOMAIN sessions' -> Session] /\ DOMAIN sessions' = DOMAIN sessions
    BY <1>1, <1>12, <2>1 DEF EndSession, Typed, Session
  <2>4. Typed' /\ Living'
    BY <1>1, <1>12, <2>2, <2>3 DEF EndSession, Stopped, Typed, Living, clock
  <2>5. QED
    BY <1>1, <1>12, <2>3, <2>4, SameRows DEF EndSession, Shaped
<1>13. CASE Erase
  <2>1. now \in Int
    BY <1>1, ConstantTypes DEF Typed
  <2>2. sessions' \in [DOMAIN sessions' -> Session] /\ DOMAIN sessions' = {1}
    BY <1>13, <2>1 DEF Erase, Session
  <2>3. recs' \in [DOMAIN recs' -> Recording] /\ DOMAIN recs' \subseteq Nat
    BY <1>13 DEF Erase
  <2>4. used' \in Occasions
    BY <1>1, <1>13, UsedTyped DEF Erase, Typed
  <2>5. Typed'
    BY <1>1, <1>13, <2>1, <2>2, <2>3, <2>4 DEF Erase, Typed
  <2>6. Living' /\ Kept' /\ RowsEnd' /\ SessionsEnd'
    BY <1>1, <1>13, <2>2, RetentionConstants DEF Erase, Living, Kept, RowsEnd, Ends, SessionsEnd
  <2>7. QED
    BY <2>5, <2>6 DEF Shaped
<1>14. CASE DashboardPrune
  <2>1. PICK cutoff \in Cutoffs : Prune(cutoff, now)
    BY <1>14 DEF DashboardPrune
  <2>2. used' \in Occasions
    BY <1>1, <1>14, DashboardUsed DEF DashboardPrune, Typed
  <2>3. Typed' /\ Living'
    BY <1>1, <1>14, <2>1, <2>2, PruneShaped DEF DashboardPrune, Typed, Living, boot
  <2>4. QED
    BY <2>1, <2>3, PruneShaped DEF Shaped
<1>15. CASE DeleteEvents \/ DeleteRecording
  <2>1. rows' \subseteq rows
    BY <1>15 DEF DeleteEvents, DeleteRecording, Delete
  <2>2. rows' \subseteq Row /\ Kept' /\ RowsEnd'
    BY <1>1, <2>1, Fewer
  <2>3. used' \in Occasions
    BY <1>1, <1>15, DashboardUsed DEF DeleteEvents, DeleteRecording, Typed
  <2>4. /\ recs' \in [DOMAIN recs' -> Recording] /\ DOMAIN recs' \subseteq Nat
        /\ requests' \subseteq Request
    BY <1>1, <1>15 DEF DeleteEvents, DeleteRecording, Without, Typed
  <2>5. Typed' /\ Living' /\ SessionsEnd'
    BY <1>1, <1>15, <2>2, <2>3, <2>4
       DEF DeleteEvents, DeleteRecording, Typed, Living, SessionsEnd, boot
  <2>6. QED
    BY <2>2, <2>5 DEF Shaped
<1>16. CASE UNCHANGED vars
  BY <1>1, <1>16 DEF vars, Shaped, Typed, Kept, RowsEnd, Ends, SessionsEnd, Living
<1>17. QED
  BY <1>2, <1>3, <1>4, <1>5, <1>6, <1>7, <1>8, <1>9, <1>10, <1>11, <1>12, <1>13, <1>14, <1>15,
     <1>16 DEF Next

-----------------------------------------------------------------------------
(* Foreign keys.                                                            *)

(* No action outlives its recording in a prune: the rows that go are the old *)
(* ones and no other.                                                        *)
LEMMA OnlyTheOld ==
    ASSUME Typed, Kept, Intact, NEW cutoff \in Int
    PROVE  PrunedRows(cutoff) = {r \in rows : r.ts < cutoff}
<1>1. ASSUME NEW r \in Actions(rows), ~(r.ts < cutoff)
      PROVE  r.rec \in DOMAIN recs \ PrunedRecs(cutoff)
  <2>1. r \in rows /\ r.kind = "action" /\ r.ts \in Int
    BY DEF Actions, Typed, Row
  <2>2. r.rec \in DOMAIN recs
    <3>1. r.rec # None
      BY <2>1 DEF Kept
    <3>2. QED
      BY <2>1, <3>1 DEF Intact
  <2>3. r.ts >= cutoff
    BY <1>1, <2>1
  <2>4. QED
    BY <2>1, <2>2, <2>3 DEF PrunedRecs
<1>2. QED
  BY <1>1 DEF PrunedRows, Actions

LEMMA PruneIntact ==
    ASSUME Typed, Kept, Intact, NEW cutoff \in Int, NEW at, Prune(cutoff, at), live' = live
    PROVE  Intact'
<1>1. /\ rows' = rows \ PrunedRows(cutoff)
      /\ DOMAIN sessions' = DOMAIN sessions \ PrunedSessions(cutoff)
      /\ \A s \in DOMAIN sessions' : sessions'[s] = sessions[s]
      /\ DOMAIN recs' = DOMAIN recs \ PrunedRecs(cutoff)
      /\ \A r \in DOMAIN recs' : recs'[r] = recs[r]
  BY PruneLeaves
<1>2. ASSUME NEW r \in rows' PROVE r.session \in DOMAIN sessions'
  <2>1. r \in Of(rows \ PrunedRows(cutoff), r.session)
    BY <1>1, <1>2 DEF Of
  <2>2. r.session \notin PrunedSessions(cutoff)
    BY <2>1 DEF PrunedSessions
  <2>3. r \in rows
    BY <1>1, <1>2
  <2>4. r.session \in DOMAIN sessions
    BY <2>3 DEF Intact
  <2>5. QED
    BY <1>1, <2>2, <2>4
<1>3. ASSUME NEW r \in rows', r.rec # None PROVE r.rec \in DOMAIN recs'
  <2>1. r \in rows /\ r \notin PrunedRows(cutoff) /\ r.kind = "action"
    BY <1>1, <1>3 DEF Kept
  <2>2. QED
    BY <1>1, <2>1 DEF PrunedRows, Actions
<1>4. ASSUME NEW r \in DOMAIN recs' PROVE recs'[r].session \in DOMAIN sessions'
  <2>1. r \in DOMAIN recs \ PrunedRecs(cutoff) /\ recs'[r] = recs[r]
    BY <1>1
  <2>2. recs[r].session \notin PrunedSessions(cutoff)
    BY <2>1 DEF PrunedSessions
  <2>3. QED
    BY <1>1, <2>1, <2>2 DEF Intact
<1>5. live' # None => live' \in DOMAIN sessions' /\ sessions'[live'].ended = None
  <2>1. ASSUME live # None PROVE live \in DOMAIN sessions \ PrunedSessions(cutoff)
    BY <2>1 DEF Intact, PrunedSessions
  <2>2. QED
    BY <1>1, <2>1 DEF Intact
<1>6. QED
  BY <1>2, <1>3, <1>4, <1>5 DEF Intact

(* A start repairs sessions and recordings in place. *)
LEMMA OpenLeaves ==
    ASSUME Shaped, Open
    PROVE  /\ DOMAIN sessions' = DOMAIN sessions /\ DOMAIN recs' = DOMAIN recs
           /\ \A s \in DOMAIN sessions : /\ sessions'[s].started = sessions[s].started
                                         /\ sessions'[s].ended # None
           /\ \A r \in DOMAIN recs : recs'[r].session = recs[r].session
           /\ live = None /\ live' = None
<1>1. Typed /\ Kept /\ RowsEnd /\ Living
  BY DEF Shaped
<1>2. rows' \subseteq Row /\ RowsEnd'
  BY <1>1, Repaired
<1>3. \A S \in SUBSET rows' : S \in SUBSET Row /\ Ends(S)
  BY <1>2 DEF RowsEnd, Ends
<1>4. /\ DOMAIN sessions' = DOMAIN sessions
      /\ \A s \in DOMAIN sessions : /\ sessions'[s].started = sessions[s].started
                                    /\ sessions'[s].ended # None
  <2>1. \A s \in DOMAIN sessions : Events(Of(rows', s)) \in SUBSET rows'
    BY DEF Events, Of
  <2>2. sessions' = [s \in DOMAIN sessions |-> Finalized(sessions[s], Events(Of(rows', s)))]
    BY DEF Open
  <2>3. QED
    BY <1>1, <1>3, <2>1, <2>2, FinalizedSession
<1>5. DOMAIN recs' = DOMAIN recs /\ \A r \in DOMAIN recs : recs'[r].session = recs[r].session
  <2>1. \A r \in DOMAIN recs : {a \in rows : a.rec = r} \in SUBSET rows'
    BY DEF Open
  <2>2. recs' = [r \in DOMAIN recs |-> Finalized(recs[r], {a \in rows : a.rec = r})]
    BY DEF Open
  <2>3. QED
    BY <1>1, <1>3, <2>1, <2>2, FinalizedRecording
<1>6. live = None /\ live' = None
  BY <1>1 DEF Open, Living
<1>7. QED
  BY <1>4, <1>5, <1>6

LEMMA IntactStep == ASSUME Shaped, Intact, [Next]_vars PROVE Intact'
<1>1. Typed /\ Kept /\ RowsEnd /\ SessionsEnd /\ Living
  BY DEF Shaped
<1>2. CASE Tick \/ SetClock \/ Resync \/ Lose \/ Crash \/ UNCHANGED vars
  BY <1>2 DEF Tick, SetClock, Resync, Lose, Crash, Stopped, Intact, boot, store, vars
<1>3. CASE Open
  <2>1. \A r \in rows' \ rows : r.session \in DOMAIN sessions /\ r.rec = None
    BY <1>1, <1>3, Repaired, RecoveredIs
  <2>2. QED
    BY <1>3, <2>1, OpenLeaves DEF Intact
<1>4. CASE StartupPrune
  <2>1. agesFrom - Days \in Int
    BY <1>1, RetentionConstants DEF Typed
  <2>2. Prune(agesFrom - Days, now) /\ live' = live
    BY <1>4 DEF StartupPrune
  <2>3. QED
    BY <1>1, <2>1, <2>2, PruneIntact
<1>5. CASE MousePrune \/ DeleteEvents
  <2>1. rows' \subseteq rows
    BY <1>5 DEF MousePrune, DeleteEvents, Delete
  <2>2. QED
    BY <1>5, <2>1 DEF MousePrune, DeleteEvents, boot, Intact
<1>6. CASE CreateSession
  <2>1. live' = NextSession /\ NextSession \in Nat /\ live' \notin DOMAIN sessions
    BY <1>1, <1>6, NextIsNew DEF CreateSession, Typed
  <2>2. sessions' = [s \in DOMAIN sessions \cup {live'} |->
          IF s = live' THEN [started |-> base, ended |-> None] ELSE sessions[s]]
    BY <1>6 DEF CreateSession
  <2>3. DOMAIN sessions' = DOMAIN sessions \cup {live'} /\ sessions'[live'].ended = None
    BY <2>2
  <2>4. UNCHANGED <<rows, recs>>
    BY <1>6 DEF CreateSession
  <2>5. QED
    BY <2>3, <2>4 DEF Intact
<1>7. ASSUME NEW kind \in RowKinds, Write(kind) PROVE Intact'
  <2>1. PICK row \in Row : /\ rows' = rows \cup {row} /\ row.session = live /\ live \in Nat
                           /\ row.rec # None => row.rec \in OpenRecs
    BY <1>7, Written
  <2>2. live # None
    BY <2>1, RetentionConstants
  <2>3. UNCHANGED <<live, sessions, recs>>
    BY <1>7 DEF Write
  <2>4. QED
    BY <2>1, <2>2, <2>3 DEF Intact, OpenRecs
<1>8. CASE OpenRecording
  <2>1. recs' = [r \in DOMAIN recs \cup {lastRec'} |->
          IF r = lastRec'
          THEN [session |-> live, started |-> Reading, ended |-> None]
          ELSE recs[r]]
    BY <1>8 DEF OpenRecording
  <2>2. live # None /\ UNCHANGED <<live, sessions, rows>>
    BY <1>1, <1>8 DEF Living, OpenRecording, boot
  <2>3. QED
    BY <2>1, <2>2 DEF Intact
<1>9. CASE CloseRecording
  <2>1. PICK r \in OpenRecs : recs' = [recs EXCEPT ![r].ended = Reading]
    BY <1>9 DEF CloseRecording
  <2>2. DOMAIN recs' = DOMAIN recs /\ \A q \in DOMAIN recs : recs'[q].session = recs[q].session
    BY <1>1, <2>1 DEF Typed, Recording
  <2>3. QED
    BY <1>9, <2>2 DEF CloseRecording, boot, Intact
<1>10. CASE EndSession
  <2>1. DOMAIN recs' = DOMAIN recs /\ \A q \in DOMAIN recs : recs'[q].session = recs[q].session
    BY <1>1, <1>10 DEF EndSession, Typed, Recording
  <2>2. DOMAIN sessions' = DOMAIN sessions /\ live' = None /\ rows' = rows
    BY <1>1, <1>10 DEF EndSession, Stopped, Typed
  <2>3. QED
    BY <2>1, <2>2 DEF Intact
<1>11. CASE Erase
  BY <1>11 DEF Erase, Intact
<1>12. CASE DashboardPrune
  <2>1. PICK cutoff \in Cutoffs : Prune(cutoff, now)
    BY <1>12 DEF DashboardPrune
  <2>2. cutoff \in Int /\ live' = live
    BY <1>12, ConstantTypes DEF Cutoffs, DashboardPrune, boot
  <2>3. QED
    BY <1>1, <2>1, <2>2, PruneIntact
<1>13. CASE DeleteRecording
  <2>1. PICK r \in DOMAIN recs \ OpenRecs : /\ Delete({a \in rows : a.rec = r}, now)
                                            /\ recs' = Without(recs, {r})
    BY <1>13 DEF DeleteRecording
  <2>2. rows' = rows \ {a \in rows : a.rec = r}
    BY <2>1 DEF Delete
  <2>3. DOMAIN recs' = DOMAIN recs \ {r} /\ \A q \in DOMAIN recs' : recs'[q] = recs[q]
    BY <2>1 DEF Without
  <2>4. UNCHANGED <<live, sessions>>
    BY <1>13 DEF DeleteRecording, boot
  <2>5. QED
    BY <2>2, <2>3, <2>4 DEF Intact
<1>14. QED
  BY <1>2, <1>3, <1>4, <1>5, <1>6, <1>7, <1>8, <1>9, <1>10, <1>11, <1>12, <1>13 DEF Next

-----------------------------------------------------------------------------
(* The preview.                                                             *)

LEMMA PreviewIs == ASSUME Typed, Kept, Intact PROVE PreviewExact
<1> SUFFICES ASSUME NEW cutoff \in Cutoffs
             PROVE  Preview(cutoff) =
                      [events |-> Cardinality(Events(PrunedRows(cutoff))),
                       actions |-> Cardinality(Actions(PrunedRows(cutoff))),
                       recs |-> Cardinality(PrunedRecs(cutoff)),
                       sessions |-> Cardinality(PrunedSessions(cutoff)),
                       requests |-> Cardinality(PrunedRequests(cutoff))]
  BY DEF PreviewExact
<1>1. cutoff \in Int
  BY ConstantTypes DEF Cutoffs
<1>2. PrunedRows(cutoff) = {r \in rows : r.ts < cutoff}
  BY <1>1, OnlyTheOld
<1>3. /\ {r \in Events(rows) : r.ts < cutoff} = Events(PrunedRows(cutoff))
      /\ {r \in Actions(rows) : r.ts < cutoff} = Actions(PrunedRows(cutoff))
  BY <1>2 DEF Events, Actions
<1>4. None \notin DOMAIN recs /\ DOMAIN recs \subseteq Nat
  BY RetentionConstants DEF Typed
<1>5. PreviewRecs(cutoff) = PrunedRecs(cutoff)
  <2>1. ASSUME NEW r \in DOMAIN recs
        PROVE  {a \in Actions(rows) : a.rec = r /\ a.ts >= cutoff} = {}
                 <=> ~\E a \in rows : a.rec = r /\ a.ts >= cutoff
    <3>1. r # None
      BY <1>4
    <3>2. \A a \in rows : a.rec = r => a \in Actions(rows)
      BY <3>1 DEF Kept, Actions
    <3>3. QED
      BY <3>2 DEF Actions
  <2>2. QED
    BY <2>1 DEF PreviewRecs, PrunedRecs
<1>6. {s \in DOMAIN sessions :
        /\ sessions[s].ended # None
        /\ {r \in Of(rows, s) : r.ts >= cutoff} = {}
        /\ {r \in DOMAIN recs : recs[r].session = s} \subseteq PreviewRecs(cutoff)}
        = PrunedSessions(cutoff)
  <2>1. ASSUME NEW s PROVE {r \in Of(rows, s) : r.ts >= cutoff} = Of(rows \ PrunedRows(cutoff), s)
    <3>1. \A r \in rows : r.ts \in Int
      BY DEF Typed, Row
    <3>2. \A r \in rows : r.ts >= cutoff <=> ~(r.ts < cutoff)
      BY <1>1, <3>1
    <3>3. QED
      BY <1>2, <3>2 DEF Of
  <2>2. ASSUME NEW s
        PROVE  {r \in DOMAIN recs : recs[r].session = s} \subseteq PreviewRecs(cutoff)
                 <=> \A r \in DOMAIN recs \ PrunedRecs(cutoff) : recs[r].session # s
    BY <1>5
  <2>3. QED
    BY <2>1, <2>2 DEF PrunedSessions
<1>7. {q \in requests : q.expires < cutoff /\
        (q.rec = None \/ q.rec \in PreviewRecs(cutoff) \/ q.rec \notin DOMAIN recs)}
        = PrunedRequests(cutoff)
  BY <1>4, <1>5 DEF PrunedRequests
<1>8. QED
  BY <1>3, <1>5, <1>6, <1>7 DEF Preview

-----------------------------------------------------------------------------
(* Loss and its accounting.                                                 *)

(* A number that is lost belongs to a session there is. A row bears it only  *)
(* when a repair gave it away again, as the last of an ended session.        *)
LostIsLost ==
    /\ \A l \in lost : l[1] \in DOMAIN sessions
    /\ \A l \in lost : \A r \in rows :
          r.session = l[1] /\ r.seq = l[2] =>
             /\ sessions[l[1]].ended # None
             /\ \A q \in rows : q.session = l[1] => q.seq <= l[2]

(* What the sequencer gave out is behind it. *)
Behind ==
    /\ \A r \in rows : r.session = live => r.seq <= stamp.seq
    /\ \A l \in lost : l[1] = live => l[2] <= stamp.seq

(* A session nothing was deleted from has no audit row of its time. *)
Unaudited ==
    \A s \in DOMAIN sessions \ (deleted \cup heirs) :
       \A a \in audit : a.session = s => ~(a.at >= sessions[s].started)

Accounted == LostIsLost /\ Behind /\ Unaudited

(* Audit rows are of the sessions that rows went from. *)
LEMMA AuditedAre ==
    ASSUME NEW gone, NEW at
    PROVE  \A b \in AuditRows(gone, at) : b.session \in {r.session : r \in gone}
<1> DEFINE S == {r.session : r \in gone}
           R(s) == [op |-> NextOp, session |-> s, rows |-> Cardinality(Of(gone, s)),
                    min |-> Min({r.seq : r \in Of(gone, s)}),
                    max |-> Max({r.seq : r \in Of(gone, s)}), at |-> at]
<1>1. AuditRows(gone, at) = {R(s) : s \in S}
  BY DEF AuditRows
<1>2. \A s : R(s).session = s
  OBVIOUS
<1> HIDE DEF S, R
<1>3. \A b \in {R(s) : s \in S} : b.session \in S
  BY <1>2
<1>4. QED
  BY <1>1, <1>3 DEF S

(* Deleting keeps the accounts. *)
LEMMA DeleteAccounted ==
    ASSUME Accounted, NEW gone, NEW at, Delete(gone, at), lost' \subseteq lost,
           DOMAIN sessions' \subseteq DOMAIN sessions,
           \A s \in DOMAIN sessions' : sessions'[s] = sessions[s],
           \A l \in lost' : l[1] \in DOMAIN sessions', live' = live, stamp' = stamp
    PROVE  Accounted'
<1>1. /\ rows' = rows \ gone /\ audit' = audit \cup AuditRows(gone, at)
      /\ deleted' = deleted \cup {r.session : r \in gone} /\ heirs' = heirs
  BY DEF Delete
<1>2. LostIsLost'
  BY <1>1 DEF Accounted, LostIsLost
<1>3. Behind'
  BY <1>1 DEF Accounted, Behind
<1>4. ASSUME NEW s \in DOMAIN sessions' \ (deleted' \cup heirs'), NEW a \in audit', a.session = s
      PROVE  ~(a.at >= sessions'[s].started)
  <2>1. s \in DOMAIN sessions \ (deleted \cup heirs) /\ sessions'[s] = sessions[s]
    BY <1>1
  <2>2. s \notin {r.session : r \in gone}
    BY <1>1
  <2>3. \A b \in AuditRows(gone, at) : b.session \in {r.session : r \in gone}
    BY AuditedAre
  <2>4. a \in audit
    BY <1>1, <1>4, <2>2, <2>3
  <2>5. QED
    BY <1>4, <2>1, <2>4 DEF Accounted, Unaudited
<1>5. Unaudited'
  BY <1>4 DEF Unaudited
<1>6. QED
  BY <1>2, <1>3, <1>5 DEF Accounted

LEMMA PruneAccounted ==
    ASSUME Accounted, NEW cutoff, NEW at, Prune(cutoff, at), live' = live, stamp' = stamp
    PROVE  Accounted'
<1>1. /\ DOMAIN sessions' \subseteq DOMAIN sessions /\ lost' \subseteq lost
      /\ \A s \in DOMAIN sessions' : sessions'[s] = sessions[s]
      /\ \A l \in lost' : l[1] \in DOMAIN sessions'
  BY PruneLeaves
<1>2. Delete(PrunedRows(cutoff), at)
  BY DEF Prune
<1>3. QED
  BY <1>1, <1>2, DeleteAccounted

(* Steps that leave rows, losses and audit alone. *)
LEMMA AccountedSame ==
    ASSUME Accounted, UNCHANGED <<rows, lost, audit, deleted, heirs>>,
           DOMAIN sessions' = DOMAIN sessions,
           \A s \in DOMAIN sessions : /\ sessions'[s].started = sessions[s].started
                                      /\ sessions[s].ended # None => sessions'[s].ended # None,
           \/ live' = live /\ stamp' = stamp
           \/ live' = None /\ (\A r \in rows : r.session # None) /\ \A l \in lost : l[1] # None
    PROVE  Accounted'
<1>1. LostIsLost'
  <2>1. \A l \in lost' : l[1] \in DOMAIN sessions'
    BY DEF Accounted, LostIsLost
  <2>2. ASSUME NEW l \in lost', NEW r \in rows', r.session = l[1], r.seq = l[2]
        PROVE  /\ sessions'[l[1]].ended # None
               /\ \A q \in rows' : q.session = l[1] => q.seq <= l[2]
    <3>1. l \in lost /\ r \in rows /\ l[1] \in DOMAIN sessions
      BY DEF Accounted, LostIsLost
    <3>2. sessions[l[1]].ended # None /\ \A q \in rows : q.session = l[1] => q.seq <= l[2]
      BY <2>2, <3>1 DEF Accounted, LostIsLost
    <3>3. rows' = rows
      OBVIOUS
    <3>4. QED
      BY <3>1, <3>2, <3>3
  <2>3. QED
    BY <2>1, <2>2 DEF LostIsLost
<1>2. Behind'
  BY DEF Accounted, Behind
<1>3. Unaudited'
  BY DEF Accounted, Unaudited
<1>4. QED
  BY <1>1, <1>2, <1>3 DEF Accounted

(* No row and no loss is without a session. *)
LEMMA Sessioned ==
    ASSUME Typed PROVE (\A r \in rows : r.session # None) /\ \A l \in lost : l[1] # None
<1>1. None \notin Nat
  BY RetentionConstants
<1>2. (\A r \in rows : r.session \in Nat) /\ \A l \in lost : l[1] \in Nat
  BY DEF Typed, Row
<1>3. QED
  BY <1>1, <1>2

LEMMA OpenAccounted == ASSUME Shaped, Accounted, Open PROVE Accounted'
<1>1. /\ DOMAIN sessions' = DOMAIN sessions /\ live' = None
      /\ \A s \in DOMAIN sessions : /\ sessions'[s].started = sessions[s].started
                                    /\ sessions'[s].ended # None
  BY OpenLeaves
<1>2. UNCHANGED <<lost, audit, deleted, heirs>>
  BY DEF Open
<1>3. Typed /\ Kept /\ RowsEnd
  BY DEF Shaped
<1>4. (\A r \in rows' : r.session # None) /\ \A l \in lost' : l[1] # None
  <2>1. rows' \subseteq Row /\ None \notin Nat
    BY <1>3, Repaired, RetentionConstants
  <2>2. \A r \in rows' : r.session # None
    BY <2>1 DEF Row
  <2>3. QED
    BY <1>2, <1>3, <2>2, Sessioned
<1>5. Behind' /\ Unaudited'
  BY <1>1, <1>2, <1>4 DEF Accounted, Behind, Unaudited
<1>6. ASSUME NEW l \in lost', NEW r \in rows', r.session = l[1], r.seq = l[2],
             NEW q \in rows', q.session = l[1]
      PROVE  q.seq <= l[2]
  <2>1. l \in lost /\ r.seq \in Nat /\ q.seq \in Nat
    BY <1>2, <1>3, Repaired DEF Row
  <2>2. CASE rows' = rows
    BY <1>6, <2>1, <2>2 DEF Accounted, LostIsLost
  <2>3. ASSUME NEW s \in DOMAIN sessions, sessions[s].ended = None, rows' = rows \cup {Recovered(s)}
        PROVE  q.seq <= l[2]
    <3>1. CASE s = l[1]
      <4>1. r \notin rows
        BY <1>6, <2>1, <2>3, <3>1 DEF Accounted, LostIsLost
      <4>2. r = Recovered(s)
        BY <2>3, <4>1
      <4>3. q = r \/ (q \in rows /\ q.session = s)
        BY <1>6, <2>3, <3>1, <4>2
      <4>4. q = r \/ q.seq < r.seq
        BY <1>3, <4>2, <4>3, RecoveredIs
      <4>5. QED
        BY <1>6, <2>1, <4>4
    <3>2. CASE s # l[1]
      <4>1. r \in rows /\ q \in rows
        BY <1>3, <1>6, <2>3, <3>2, RecoveredIs
      <4>2. QED
        BY <1>6, <2>1, <4>1 DEF Accounted, LostIsLost
    <3>3. QED
      BY <3>1, <3>2
  <2>4. QED
    BY <1>3, <2>2, <2>3, Repaired
<1>7. LostIsLost'
  <2>1. \A l \in lost' : l[1] \in DOMAIN sessions'
    BY <1>1, <1>2 DEF Accounted, LostIsLost
  <2>2. \A l \in lost' : sessions'[l[1]].ended # None
    BY <1>1, <2>1
  <2>3. QED
    BY <1>6, <2>1, <2>2 DEF LostIsLost
<1>8. QED
  BY <1>5, <1>7 DEF Accounted

LEMMA CreateAccounted == ASSUME Shaped, Intact, Accounted, CreateSession PROVE Accounted'
<1>1. Typed /\ SessionsEnd
  BY DEF Shaped
<1>2. live' = NextSession /\ NextSession \in Nat /\ live' \notin DOMAIN sessions
  BY <1>1, NextIsNew DEF CreateSession, Typed
<1>3. sessions' = [s \in DOMAIN sessions \cup {live'} |->
        IF s = live' THEN [started |-> base, ended |-> None] ELSE sessions[s]]
  BY DEF CreateSession
<1>4. /\ UNCHANGED <<rows, lost, audit>> /\ deleted' = deleted \ {live'}
      /\ heirs' = IF \E a \in audit : a.session = live' /\ a.at >= base
                  THEN heirs \cup {live'} ELSE heirs \ {live'}
  BY DEF CreateSession
<1>5. /\ DOMAIN sessions' = DOMAIN sessions \cup {live'} /\ sessions'[live'].started = base
      /\ \A s \in DOMAIN sessions : sessions'[s] = sessions[s]
  BY <1>2, <1>3
<1>6. (\A r \in rows : r.session # live') /\ \A l \in lost : l[1] # live'
  BY <1>2 DEF Intact, Accounted, LostIsLost
<1>7. LostIsLost'
  BY <1>4, <1>5 DEF Accounted, LostIsLost
<1>8. Behind'
  BY <1>4, <1>6 DEF Behind
<1>9. Unaudited'
  <2>1. ASSUME NEW s \in DOMAIN sessions' \ (deleted' \cup heirs'), NEW a \in audit', a.session = s
        PROVE  ~(a.at >= sessions'[s].started)
    <3>1. CASE s = live'
      BY <1>4, <1>5, <2>1, <3>1
    <3>2. CASE s # live'
      <4>1. s \in DOMAIN sessions \ (deleted \cup heirs) /\ sessions'[s] = sessions[s]
        BY <1>4, <1>5, <3>2
      <4>2. QED
        BY <1>4, <2>1, <4>1 DEF Accounted, Unaudited
    <3>3. QED
      BY <3>1, <3>2
  <2>2. QED
    BY <2>1 DEF Unaudited
<1>10. QED
  BY <1>7, <1>8, <1>9 DEF Accounted

(* A number is given out once: it is stored, or it is lost. *)
LEMMA WriteAccounted ==
    ASSUME Shaped, Intact, Accounted, NEW kind \in RowKinds, Write(kind) PROVE Accounted'
<1>1. PICK row \in Row : /\ rows' = rows \cup {row} /\ row.session = live /\ live \in Nat
                         /\ row.seq = stamp'.seq /\ stamp'.seq = stamp.seq + 1
  BY Written
<1>2. UNCHANGED <<live, sessions, lost, audit, deleted, heirs>>
  BY DEF Write
<1>3. Typed /\ live # None /\ sessions[live].ended = None
  BY <1>1, RetentionConstants DEF Intact, Shaped
<1>4. /\ stamp.seq \in Nat /\ \A r \in rows : r.seq \in Nat
      /\ \A l \in lost : l[2] \in Nat
  BY <1>3 DEF Typed, Row
<1>5. Behind'
  BY <1>1, <1>2, <1>4 DEF Accounted, Behind
<1>6. ASSUME NEW l \in lost, NEW r \in rows', r.session = l[1], r.seq = l[2]
      PROVE  /\ sessions[l[1]].ended # None
             /\ \A q \in rows' : q.session = l[1] => q.seq <= l[2]
  <2>1. r # row
    BY <1>1, <1>4, <1>6 DEF Accounted, Behind
  <2>2. /\ sessions[l[1]].ended # None
        /\ \A q \in rows : q.session = l[1] => q.seq <= l[2]
    BY <1>1, <1>6, <2>1 DEF Accounted, LostIsLost
  <2>3. row.session # l[1]
    BY <1>1, <1>3, <2>2
  <2>4. QED
    BY <1>1, <2>2, <2>3
<1>7. LostIsLost'
  BY <1>2, <1>6 DEF Accounted, LostIsLost
<1>8. Unaudited'
  BY <1>2 DEF Accounted, Unaudited
<1>9. QED
  BY <1>5, <1>7, <1>8 DEF Accounted

LEMMA LoseAccounted == ASSUME Shaped, Intact, Accounted, Lose PROVE Accounted'
<1>1. /\ lost' = lost \cup {<<live, stamp'.seq>>} /\ stamp'.seq = stamp.seq + 1
      /\ UNCHANGED <<live, sessions, rows, audit, deleted, heirs>>
  BY DEF Lose, Stamp
<1>2. Typed /\ live # None /\ live \in DOMAIN sessions
  BY DEF Lose, Living, Intact, Shaped
<1>3. /\ stamp.seq \in Nat /\ \A r \in rows : r.seq \in Nat
      /\ \A l \in lost : l[2] \in Nat
  BY <1>2 DEF Typed, Row
<1>4. Behind'
  BY <1>1, <1>3 DEF Accounted, Behind
<1>5. \A r \in rows : ~(r.session = live /\ r.seq = stamp'.seq)
  BY <1>1, <1>3 DEF Accounted, Behind
<1>6. LostIsLost'
  BY <1>1, <1>2, <1>5 DEF Accounted, LostIsLost
<1>7. Unaudited'
  BY <1>1 DEF Accounted, Unaudited
<1>8. QED
  BY <1>4, <1>6, <1>7 DEF Accounted

LEMMA AccountedStep == ASSUME Shaped, Intact, Accounted, [Next]_vars PROVE Accounted'
<1>1. Typed /\ Kept /\ RowsEnd /\ SessionsEnd /\ Living
  BY DEF Shaped
<1>2. CASE Tick \/ SetClock \/ Resync \/ OpenRecording \/ CloseRecording \/ UNCHANGED vars
  <2>1. UNCHANGED <<rows, lost, audit, deleted, heirs, sessions, live, stamp>>
    BY <1>2 DEF Tick, SetClock, Resync, OpenRecording, CloseRecording, boot, store, vars
  <2>2. QED
    BY <2>1, AccountedSame
<1>3. CASE Open
  BY <1>3, OpenAccounted
<1>4. CASE StartupPrune
  <2>1. Prune(agesFrom - Days, now) /\ live' = live /\ stamp' = stamp
    BY <1>4 DEF StartupPrune
  <2>2. QED
    BY <2>1, PruneAccounted
<1>5. CASE MousePrune
  <2>1. PICK gone : Delete(gone, thinned)
    BY <1>5 DEF MousePrune
  <2>2. UNCHANGED <<live, stamp, sessions, lost>>
    BY <1>5 DEF MousePrune
  <2>3. QED
    BY <2>1, <2>2, DeleteAccounted DEF Accounted, LostIsLost
<1>6. CASE DeleteEvents \/ DeleteRecording
  <2>1. PICK gone : Delete(gone, now)
    BY <1>6 DEF DeleteEvents, DeleteRecording
  <2>2. UNCHANGED <<live, stamp, sessions, lost>>
    BY <1>6 DEF DeleteEvents, DeleteRecording, boot
  <2>3. QED
    BY <2>1, <2>2, DeleteAccounted DEF Accounted, LostIsLost
<1>7. CASE CreateSession
  BY <1>7, CreateAccounted
<1>8. ASSUME NEW kind \in RowKinds, Write(kind) PROVE Accounted'
  BY <1>8, WriteAccounted
<1>9. CASE Lose
  BY <1>9, LoseAccounted
<1>10. CASE EndSession
  <2>1. sessions' = [sessions EXCEPT ![live].ended = Reading] /\ Reading \in Int
    BY <1>1, <1>10, ReadingIs DEF EndSession
  <2>2. /\ DOMAIN sessions' = DOMAIN sessions
        /\ \A s \in DOMAIN sessions : /\ sessions'[s].started = sessions[s].started
                                      /\ sessions[s].ended # None => sessions'[s].ended # None
    BY <1>1, <2>1, RetentionConstants DEF Typed, Session
  <2>3. live' = None /\ UNCHANGED <<rows, lost, audit, deleted, heirs>>
    BY <1>10 DEF EndSession, Stopped
  <2>4. QED
    BY <1>1, <2>2, <2>3, AccountedSame, Sessioned
<1>11. CASE Crash
  <2>1. live' = None /\ UNCHANGED <<sessions, rows, lost, audit, deleted, heirs>>
    BY <1>11 DEF Crash, Stopped, store
  <2>2. QED
    BY <1>1, <2>1, AccountedSame, Sessioned
<1>12. CASE Erase
  BY <1>12 DEF Erase, Accounted, LostIsLost, Behind, Unaudited
<1>13. CASE DashboardPrune
  <2>1. PICK cutoff \in Cutoffs : Prune(cutoff, now)
    BY <1>13 DEF DashboardPrune
  <2>2. live' = live /\ stamp' = stamp
    BY <1>13 DEF DashboardPrune, boot
  <2>3. QED
    BY <2>1, <2>2, PruneAccounted
<1>14. QED
  BY <1>2, <1>3, <1>4, <1>5, <1>6, <1>7, <1>8, <1>9, <1>10, <1>11, <1>12, <1>13 DEF Next

(* The health check sees it. *)
LEMMA LossIsShown == ASSUME Shaped, Accounted PROVE LossShown
<1> SUFFICES ASSUME NEW s \in DOMAIN sessions \ (deleted \cup heirs), LostInside(s)
             PROVE  s \in Flagged
  BY DEF LossShown
<1>1. PICK l \in lost : l[1] = s /\ \E a, b \in Of(rows, s) : a.seq < l[2] /\ l[2] < b.seq
  BY DEF LostInside
<1>2. PICK a \in Of(rows, s), b \in Of(rows, s) : a.seq < l[2] /\ l[2] < b.seq
  BY <1>1
<1>3. /\ a \in rows /\ a.session = s /\ b \in rows /\ b.session = s
      /\ (\A r \in rows : r.seq \in Nat) /\ l[2] \in Nat
  BY <1>2 DEF Of, Shaped, Typed, Row
<1>4. l[2] \notin Seqs(s)
  <2>1. \A r \in Of(rows, s) : r \in rows /\ r.session = s
    BY DEF Of
  <2>2. \A r \in Of(rows, s) : r.seq # l[2]
    BY <1>1, <1>2, <1>3, <2>1 DEF Accounted, LostIsLost
  <2>3. QED
    BY <2>2 DEF Seqs
<1>5. Seqs(s) \in SUBSET Int /\ a.seq \in Seqs(s) /\ b.seq \in Seqs(s) /\ Seqs(s) # {}
  BY <1>2, <1>3 DEF Seqs, Of
<1>6. PICK n \in Nat : \A x \in Seqs(s) : x <= n
  BY DEF Shaped, RowsEnd, Ends, Seqs, Of
<1>7. \A x \in Seqs(s) : 0 <= x
  BY <1>3 DEF Seqs, Of
<1>8. Min(Seqs(s)) \in Seqs(s) /\ \A y \in Seqs(s) : Min(Seqs(s)) <= y
  BY <1>5, <1>7, MinIs
<1>9. Max(Seqs(s)) \in Seqs(s) /\ \A y \in Seqs(s) : y <= Max(Seqs(s))
  <2>1. n \in Int
    OBVIOUS
  <2>2. QED
    BY <1>5, <1>6, <2>1, MaxIs
<1>10. l[2] \in Min(Seqs(s)) .. Max(Seqs(s))
  <2>1. Min(Seqs(s)) \in Int /\ Max(Seqs(s)) \in Int /\ Min(Seqs(s)) <= a.seq /\ b.seq <= Max(Seqs(s))
    BY <1>5, <1>8, <1>9
  <2>2. QED
    BY <1>2, <1>3, <2>1
<1>11. l[2] \in Missing(s)
  BY <1>4, <1>5, <1>10 DEF Missing
<1>12. Spans(s) = {}
  BY DEF Spans, Accounted, Unaudited
<1>13. QED
  BY <1>11, <1>12 DEF Flagged, Explained

-----------------------------------------------------------------------------
(* What retention may take.                                                 *)

(* A start reckons from no later than the newest event it found, and takes   *)
(* nothing as young as that.                                                 *)
Clamped ==
    app \in {"pruning", "thinning"} /\ ~used.raced /\ Events(rows) # {} =>
       \E e \in Events(rows) : agesFrom <= e.ts

(* The rows a start deletes are older than its window. *)
LEMMA StartupDeletes ==
    ASSUME Shaped, Intact, StartupPrune \/ MousePrune
    PROVE  /\ rows' \subseteq rows
           /\ \A r \in rows \ rows' : /\ app = "pruning" => r.ts < agesFrom - Days
                                      /\ app = "thinning" => r.ts < agesFrom - MouseDays
                                      /\ r.ts < agesFrom
           /\ agesFrom' = agesFrom /\ UNCHANGED used
           /\ app = "pruning" \/ app = "thinning"
<1>1. /\ Typed /\ Kept /\ agesFrom \in Int /\ Days \in Nat \ {0} /\ MouseDays \in Nat \ {0}
      /\ \A r \in rows : r.ts \in Int
  BY RetentionConstants DEF Shaped, Typed, Row
<1>2. CASE StartupPrune
  <2>1. Prune(agesFrom - Days, now) /\ app = "pruning" /\ agesFrom' = agesFrom /\ UNCHANGED used
    BY <1>2 DEF StartupPrune, clock
  <2>2. rows' = rows \ {r \in rows : r.ts < agesFrom - Days}
    <3>1. agesFrom - Days \in Int
      BY <1>1
    <3>2. PrunedRows(agesFrom - Days) = {r \in rows : r.ts < agesFrom - Days}
      BY <1>1, <3>1, OnlyTheOld
    <3>3. rows' = rows \ PrunedRows(agesFrom - Days)
      BY <2>1, PruneLeaves
    <3>4. QED
      BY <3>2, <3>3
  <2>3. QED
    BY <1>1, <2>1, <2>2
<1>3. CASE MousePrune
  <2>1. PICK gone \in SUBSET {r \in rows : r.kind = "mouse" /\ r.ts < agesFrom - MouseDays} :
           Delete(gone, thinned)
    BY <1>3 DEF MousePrune
  <2>2. rows' = rows \ gone
    BY <2>1 DEF Delete
  <2>3. app = "thinning" /\ agesFrom' = agesFrom /\ UNCHANGED used
    BY <1>3 DEF MousePrune, clock
  <2>4. QED
    BY <1>1, <2>1, <2>2, <2>3
<1>4. QED
  BY <1>2, <1>3

(* What counts the occasions.                                               *)
LEMMA UsedSteps ==
    ASSUME [Next]_vars
    PROVE  \/ UNCHANGED used \/ \E op : Dashboard(op)
           \/ used' = [used EXCEPT !.boots = @ + 1] \/ used' = [used EXCEPT !.rows = @ + 1]
           \/ used' = [used EXCEPT !.upsets = @ + 1]
           \/ used' = [used EXCEPT !.sets = @ + 1, !.upsets = @ + 1]
<1>1. CASE Tick \/ SetClock \/ Resync \/ Open \/ StartupPrune \/ MousePrune \/ CreateSession
           \/ UNCHANGED vars
  BY <1>1 DEF Tick, SetClock, Resync, Open, StartupPrune, MousePrune, CreateSession, clock, vars
<1>2. ASSUME NEW kind \in RowKinds, Write(kind) PROVE used' = [used EXCEPT !.rows = @ + 1]
  BY <1>2 DEF Write, Room
<1>3. CASE Lose \/ OpenRecording \/ CloseRecording \/ EndSession \/ Crash \/ Erase
  BY <1>3 DEF Lose, OpenRecording, Room, CloseRecording, EndSession, Crash, Erase, clock
<1>4. CASE DashboardPrune \/ DeleteEvents \/ DeleteRecording
  BY <1>4 DEF DashboardPrune, DeleteEvents, DeleteRecording
<1>5. QED
  BY <1>1, <1>2, <1>3, <1>4 DEF Next

(* The occasion is not forgotten. *)
LEMMA RacedStays == ASSUME Typed, [Next]_vars PROVE used.raced => used'.raced
<1>1. used \in Occasions
  BY DEF Typed
<1>2. UNCHANGED used \/ \E op : Dashboard(op)
      \/ used' = [used EXCEPT !.boots = @ + 1] \/ used' = [used EXCEPT !.rows = @ + 1]
      \/ used' = [used EXCEPT !.upsets = @ + 1]
      \/ used' = [used EXCEPT !.sets = @ + 1, !.upsets = @ + 1]
  BY UsedSteps
<1>3. ASSUME NEW op, Dashboard(op) PROVE used.raced => used'.raced
  <2>1. used'.raced = (used.raced \/ app \notin {"off", "on"})
    BY <1>1, <1>3 DEF Dashboard, Occasions
  <2>2. QED
    BY <2>1
<1>4. QED
  BY <1>1, <1>2, <1>3 DEF Occasions

(* The dashboard deletes at the time of a start only as a race. *)
LEMMA DashboardRaces ==
    ASSUME Typed, DashboardPrune \/ DeleteEvents \/ DeleteRecording,
           app \in {"pruning", "thinning"}
    PROVE  used'.raced
<1>1. \E op : Dashboard(op)
  BY DEF DashboardPrune, DeleteEvents, DeleteRecording
<1>2. used'.raced = (used.raced \/ app \notin {"off", "on"})
  BY <1>1 DEF Dashboard, Occasions, Typed
<1>3. app \notin {"off", "on"}
  OBVIOUS
<1>4. QED
  BY <1>2, <1>3

LEMMA ClampedStep == ASSUME Shaped, Intact, Clamped, [Next]_vars PROVE Clamped'
<1> SUFFICES ASSUME app' \in {"pruning", "thinning"}, ~used'.raced, Events(rows') # {}
             PROVE  \E e \in Events(rows') : agesFrom' <= e.ts
  BY DEF Clamped
<1>1. Typed /\ Kept /\ RowsEnd
  BY DEF Shaped
<1>2. ~used.raced
  BY <1>1, RacedStays
<1>3. CASE Open
  <2>1. rows' \subseteq Row /\ RowsEnd' /\ agesFrom' = ClampedNow(rows') /\ now \in Int
    BY <1>1, <1>3, Repaired, ConstantTypes DEF Open, Typed
  <2>2. Events(rows') \in SUBSET Row /\ Ends(Events(rows'))
    BY <2>1 DEF Events, RowsEnd, Ends
  <2>3. Newest(Events(rows')) \in Int /\ \E r \in Events(rows') : r.ts = Newest(Events(rows'))
    BY <2>2, NewestIs
  <2>4. agesFrom' = Min({now, Newest(Events(rows'))})
    BY <2>1 DEF ClampedNow
  <2>5. QED
    BY <2>1, <2>3, <2>4, OfTwo
<1>4. CASE StartupPrune \/ MousePrune
  <2>1. /\ rows' \subseteq rows /\ \A r \in rows \ rows' : r.ts < agesFrom
        /\ agesFrom' = agesFrom /\ app \in {"pruning", "thinning"}
    BY <1>4, StartupDeletes
  <2>2. Events(rows) # {}
    BY <2>1 DEF Events
  <2>3. PICK e \in Events(rows) : agesFrom <= e.ts
    BY <1>2, <2>1, <2>2 DEF Clamped
  <2>4. e \in rows /\ e.ts \in Int /\ agesFrom \in Int /\ e.kind # "action"
    BY <1>1 DEF Events, Typed, Row
  <2>5. e \in rows'
    BY <2>1, <2>3, <2>4
  <2>6. QED
    BY <2>1, <2>3, <2>4, <2>5 DEF Events
<1>5. CASE Tick \/ SetClock \/ Resync \/ UNCHANGED vars
  <2>1. UNCHANGED <<app, rows, agesFrom>>
    BY <1>5 DEF Tick, SetClock, Resync, boot, store, vars
  <2>2. QED
    BY <1>2, <2>1 DEF Clamped
<1>6. CASE CreateSession \/ EndSession \/ Crash
  BY <1>6 DEF CreateSession, EndSession, Crash, Stopped
<1>7. CASE Lose \/ OpenRecording \/ CloseRecording \/ Erase \/ \E kind \in RowKinds : Write(kind)
  BY <1>7 DEF Lose, OpenRecording, CloseRecording, Erase, Write, boot
<1>8. CASE DashboardPrune \/ DeleteEvents \/ DeleteRecording
  <2>1. app' = app
    BY <1>8 DEF DashboardPrune, DeleteEvents, DeleteRecording, boot
  <2>2. QED
    BY <1>1, <1>8, <2>1, DashboardRaces
<1>9. QED
  BY <1>3, <1>4, <1>5, <1>6, <1>7, <1>8 DEF Next

(* A step of a start takes what is older than the window, by the rows' own   *)
(* time.                                                                     *)
Recent ==
    (app \in {"pruning", "thinning"} /\ ~used'.raced /\ Events(rows) # {}) =>
       \A r \in rows \ rows' :
          r.ts < Newest(Events(rows)) - (IF app = "pruning" THEN Days ELSE MouseDays)

LEMMA RecentStep == ASSUME Shaped, Intact, Clamped, [Next]_vars PROVE Recent
<1> SUFFICES ASSUME app \in {"pruning", "thinning"}, ~used'.raced, Events(rows) # {},
                    NEW r \in rows \ rows'
             PROVE  r.ts < Newest(Events(rows)) - (IF app = "pruning" THEN Days ELSE MouseDays)
  BY DEF Recent
<1>1. Typed /\ Kept /\ RowsEnd
  BY DEF Shaped
<1>2. ~used.raced
  BY <1>1, RacedStays
<1>3. CASE StartupPrune \/ MousePrune
  <2>1. /\ app = "pruning" => r.ts < agesFrom - Days
        /\ app = "thinning" => r.ts < agesFrom - MouseDays
    BY <1>3, StartupDeletes
  <2>2. PICK e \in Events(rows) : agesFrom <= e.ts
    BY <1>2 DEF Clamped
  <2>3. Events(rows) \in SUBSET Row /\ Ends(Events(rows))
    BY <1>1 DEF Events, Typed, RowsEnd, Ends
  <2>4. Newest(Events(rows)) \in Int /\ e.ts <= Newest(Events(rows))
    BY <2>3, NewestIs
  <2>5. e.ts \in Int /\ r.ts \in Int /\ agesFrom \in Int /\ Days \in Nat /\ MouseDays \in Nat
    BY <1>1, <2>3, RetentionConstants DEF Typed, Row
  <2>6. QED
    BY <2>1, <2>2, <2>4, <2>5
<1>4. CASE DashboardPrune \/ DeleteEvents \/ DeleteRecording
  BY <1>1, <1>4, DashboardRaces
<1>5. CASE Tick \/ SetClock \/ Resync \/ CreateSession \/ Lose \/ OpenRecording \/ CloseRecording
           \/ EndSession \/ Crash \/ UNCHANGED vars
  BY <1>5 DEF Tick, SetClock, Resync, CreateSession, Lose, OpenRecording, CloseRecording,
              EndSession, Crash, store, vars
<1>6. CASE Open \/ Erase \/ \E kind \in RowKinds : Write(kind)
  BY <1>6 DEF Open, Erase, Write
<1>7. QED
  BY <1>3, <1>4, <1>5, <1>6 DEF Next

-----------------------------------------------------------------------------
(* Every hole has its audit row.                                            *)

(* A number of a session that was given out, that no row bears and that was  *)
(* not lost.                                                                *)
Hole(s, n) ==
    /\ s \in DOMAIN sessions /\ n # 0 /\ <<s, n>> \notin lost
    /\ \A r \in rows : r.session = s => r.seq # n
    /\ \/ s = live /\ n <= stamp.seq
       \/ \E r \in rows : r.session = s /\ n < r.seq
Holes == {h \in Nat \X Nat : Hole(h[1], h[2])}

(* A row of an audit row that may have borne the number: it is of the session *)
(* and of its time, and spans the number.                                    *)
Answers(p, h) ==
    /\ p[1] \in audit /\ p[2] \in 1 .. p[1].rows
    /\ p[1].session = h[1] /\ p[1].at >= sessions[h[1]].started
    /\ h[2] \in p[1].min .. p[1].max

(* As many rows were deleted as there are holes: each has one of its own.    *)
Answered ==
    used.sets = 0 =>
       \E J \in [Holes -> audit \X Nat] :
          /\ \A h \in Holes : Answers(J[h], h)
          /\ \A g, h \in Holes : J[g] = J[h] => g = h

(* The audit table.                                                         *)
AuditRow == [op : Nat, session : Nat, rows : Nat, min : Nat, max : Nat, at : Int]
Audited ==
    /\ audit \subseteq AuditRow /\ IsFiniteSet(audit) /\ IsFiniteSet(rows)
    /\ \E b \in Nat : \A a \in audit : a.op <= b
    /\ \A r \in rows : r.seq # 0

(* Sessions begin before what is deleted from them, while the clock is not   *)
(* set.                                                                     *)
Timely ==
    used.sets = 0 =>
       /\ \A s \in DOMAIN sessions : sessions[s].started <= now
       /\ app \in {"pruning", "thinning", "ready"} => base <= now
       /\ app = "thinning" =>
             /\ thinned <= now
             /\ \A s \in DOMAIN sessions : sessions[s].started <= thinned

(* The audit row of a session and a deletion.                                *)
AuditOf(s, gone, at) ==
    [op |-> NextOp, session |-> s, rows |-> Cardinality(Of(gone, s)),
     min |-> Min({r.seq : r \in Of(gone, s)}),
     max |-> Max({r.seq : r \in Of(gone, s)}), at |-> at]

LEMMA AuditRowsAre ==
    ASSUME NEW gone, NEW at
    PROVE  AuditRows(gone, at) = {AuditOf(s, gone, at) : s \in {r.session : r \in gone}}
BY DEF AuditRows, AuditOf

(* The operation of a deletion is a new one.                                 *)
LEMMA NextOpIsNew ==
    ASSUME Audited PROVE NextOp \in Nat /\ \A a \in audit : a.op < NextOp
<1>1. PICK b \in Nat : \A a \in audit : a.op <= b
  BY DEF Audited
<1> DEFINE S == {0} \cup {a.op : a \in audit}
<1>2. S \in SUBSET Int /\ S \in SUBSET Nat /\ S # {} /\ \A x \in S : x <= b
  BY <1>1 DEF Audited, AuditRow
<1>3. b \in Int
  OBVIOUS
<1>4. Max(S) \in S /\ \A y \in S : y <= Max(S)
  <2> HIDE DEF S
  <2>1. QED
    BY <1>2, <1>3, MaxIs
<1>5. \A a \in audit : a.op \in S /\ a.op \in Nat
  BY DEF Audited, AuditRow
<1>6. QED
  BY <1>2, <1>4, <1>5 DEF NextOp

(* It spans the numbers of the rows, and counts them.                        *)
LEMMA AuditOfIs ==
    ASSUME Shaped, Audited, NEW gone \in SUBSET rows, NEW at \in Int, NEW s \in Nat,
           Of(gone, s) # {}
    PROVE  /\ AuditOf(s, gone, at) \in AuditRow /\ AuditOf(s, gone, at).op = NextOp
           /\ AuditOf(s, gone, at).session = s /\ AuditOf(s, gone, at).at = at
           /\ AuditOf(s, gone, at).rows = Cardinality(Of(gone, s))
           /\ IsFiniteSet(Of(gone, s))
           /\ \A r \in Of(gone, s) :
                 r.seq \in AuditOf(s, gone, at).min .. AuditOf(s, gone, at).max
<1> DEFINE S == {r.seq : r \in Of(gone, s)}
<1>1. PICK b \in Nat : \A r \in rows : r.seq <= b
  BY DEF Shaped, RowsEnd, Ends
<1>2. /\ Of(gone, s) \subseteq rows
      /\ \A r \in rows : r.seq \in Nat
  BY DEF Of, Shaped, Typed, Row
<1>3. S \in SUBSET Int /\ S \in SUBSET Nat /\ S # {} /\ \A x \in S : x <= b /\ 0 <= x
  BY <1>1, <1>2
<1>4. b \in Int /\ 0 \in Int
  OBVIOUS
<1>5. Max(S) \in S /\ \A y \in S : y <= Max(S)
  <2> HIDE DEF S
  <2>1. QED
    BY <1>3, <1>4, MaxIs
<1>6. Min(S) \in S /\ \A y \in S : Min(S) <= y
  <2> HIDE DEF S
  <2>1. QED
    BY <1>3, <1>4, MinIs
<1>7. IsFiniteSet(Of(gone, s)) /\ Cardinality(Of(gone, s)) \in Nat
  BY <1>2, FS_Subset, FS_CardinalityType DEF Audited
<1>8. NextOp \in Nat
  BY NextOpIsNew
<1>9. /\ AuditOf(s, gone, at).min = Min(S) /\ AuditOf(s, gone, at).max = Max(S)
      /\ AuditOf(s, gone, at).op = NextOp
      /\ AuditOf(s, gone, at).session = s /\ AuditOf(s, gone, at).at = at
      /\ AuditOf(s, gone, at).rows = Cardinality(Of(gone, s))
  BY DEF AuditOf
<1>10. AuditOf(s, gone, at) \in AuditRow
  <2>1. Min(S) \in Nat /\ Max(S) \in Nat
    BY <1>3, <1>5, <1>6
  <2> HIDE DEF S
  <2>2. AuditOf(s, gone, at) = [op |-> NextOp, session |-> s, rows |-> Cardinality(Of(gone, s)),
                                min |-> Min(S), max |-> Max(S), at |-> at]
    BY DEF AuditOf, S
  <2>3. QED
    BY <1>7, <1>8, <2>1, <2>2 DEF AuditRow
<1>11. \A r \in Of(gone, s) : r.seq \in Min(S) .. Max(S)
  <2>1. \A r \in Of(gone, s) : r.seq \in S
    OBVIOUS
  <2> HIDE DEF S
  <2>2. \A x \in S : x \in Min(S) .. Max(S)
    BY <1>3, <1>5, <1>6
  <2>3. QED
    BY <2>1, <2>2
<1>12. QED
  BY <1>7, <1>9, <1>10, <1>11

(* The audit table after a deletion.                                         *)
LEMMA DeleteAudited ==
    ASSUME Shaped, Audited, NEW gone \in SUBSET rows, NEW at \in Int, Delete(gone, at)
    PROVE  Audited'
<1>1. rows' = rows \ gone /\ audit' = audit \cup AuditRows(gone, at)
  BY DEF Delete
<1> DEFINE S == {r.session : r \in gone}
<1>2. IsFiniteSet(gone) /\ IsFiniteSet(rows')
  BY <1>1, FS_Subset DEF Audited
<1>3. IsFiniteSet(S)
  <2> DEFINE f == [r \in gone |-> r.session]
  <2>1. f \in [gone -> S]
    OBVIOUS
  <2>2. {f[r] : r \in gone} = S
    OBVIOUS
  <2>3. IsFiniteSet({f[r] : r \in gone})
    <3> HIDE DEF f, S
    <3>1. QED
      BY <1>2, <2>1, ImageFinite
  <2>4. QED
    BY <2>2, <2>3
<1>4. \A s \in S : s \in Nat /\ Of(gone, s) # {}
  BY DEF Of, Shaped, Typed, Row
<1>5. AuditRows(gone, at) = {AuditOf(s, gone, at) : s \in S}
  BY AuditRowsAre
<1> HIDE DEF S
<1>6. \A s \in S : AuditOf(s, gone, at) \in AuditRow /\ AuditOf(s, gone, at).op = NextOp
  BY <1>4, AuditOfIs
<1>7. IsFiniteSet(AuditRows(gone, at))
  <2> DEFINE f == [s \in S |-> AuditOf(s, gone, at)]
  <2>1. f \in [S -> AuditRow]
    BY <1>6
  <2>2. {f[s] : s \in S} = AuditRows(gone, at)
    BY <1>5
  <2>3. IsFiniteSet({f[s] : s \in S})
    <3> HIDE DEF f
    <3>1. QED
      BY <1>3, <2>1, ImageFinite
  <2>4. QED
    BY <2>2, <2>3
<1>8. audit' \subseteq AuditRow /\ IsFiniteSet(audit')
  BY <1>1, <1>5, <1>6, <1>7, FS_Union DEF Audited
<1>9. \A a \in audit' : a.op <= NextOp
  <2>1. NextOp \in Nat /\ \A a \in audit : a.op < NextOp
    BY NextOpIsNew
  <2>2. \A a \in audit : a.op \in Nat
    BY DEF Audited, AuditRow
  <2>3. \A a \in AuditRows(gone, at) : a.op = NextOp
    BY <1>5, <1>6
  <2>4. QED
    BY <1>1, <2>1, <2>2, <2>3
<1>10. NextOp \in Nat
  BY NextOpIsNew
<1>11. \A r \in rows' : r.seq # 0
  BY <1>1 DEF Audited
<1>12. QED
  BY <1>2, <1>8, <1>9, <1>10, <1>11 DEF Audited

(* Nothing that was answered is asked for again.                             *)
LEMMA AnsweredSame ==
    ASSUME Answered, used'.sets = 0 => used.sets = 0, audit \subseteq audit',
           \A h \in Nat \X Nat : Hole(h[1], h[2])' => Hole(h[1], h[2]),
           \A s \in DOMAIN sessions' : s \in DOMAIN sessions
                                       => sessions'[s].started = sessions[s].started
    PROVE  Answered'
<1> SUFFICES ASSUME used'.sets = 0
             PROVE  \E J \in [Holes' -> audit' \X Nat] :
                       /\ \A h \in Holes' : Answers(J[h], h)'
                       /\ \A g, h \in Holes' : J[g] = J[h] => g = h
  BY DEF Answered
<1>1. PICK J \in [Holes -> audit \X Nat] :
          /\ \A h \in Holes : Answers(J[h], h)
          /\ \A g, h \in Holes : J[g] = J[h] => g = h
  BY DEF Answered
<1>2. Holes' \subseteq Holes
  BY DEF Holes
<1>0. PICK K : K = [h \in Holes' |-> J[h]]
  OBVIOUS
<1>3. K \in [Holes' -> audit' \X Nat]
  BY <1>0, <1>2
<1>4. ASSUME NEW h \in Holes' PROVE Answers(K[h], h)'
  <2>1. Answers(J[h], h) /\ K[h] = J[h]
    BY <1>0, <1>1, <1>2, <1>4
  <2>2. h[1] \in DOMAIN sessions' /\ h[1] \in DOMAIN sessions
    BY <1>2, <1>4 DEF Holes, Hole
  <2>3. sessions'[h[1]].started = sessions[h[1]].started
    BY <2>2
  <2>4. QED
    BY <2>1, <2>3 DEF Answers
<1>5. \A g, h \in Holes' : K[g] = K[h] => g = h
  BY <1>0, <1>1, <1>2
<1>6. QED
  BY <1>3, <1>4, <1>5

(* Every row of a deletion has a place of its own in the audit row.          *)
LEMMA Places ==
    ASSUME Shaped, Audited, NEW gone \in SUBSET rows, NEW at \in Int
    PROVE  \E F : \A s \in Nat :
              /\ \A r \in Of(gone, s) : /\ F[s][r] \in Nat
                                        /\ F[s][r] \in 1 .. AuditOf(s, gone, at).rows
              /\ \A q, r \in Of(gone, s) : F[s][q] = F[s][r] => q = r
<1> DEFINE n(s) == AuditOf(s, gone, at).rows
           G(s) == CHOOSE f : f \in Injection(Of(gone, s), 1 .. n(s))
           F == [s \in Nat |-> G(s)]
<1>1. ASSUME NEW s \in Nat PROVE \E f : f \in Injection(Of(gone, s), 1 .. n(s))
  <2>1. CASE Of(gone, s) = {}
    <3>1. [r \in Of(gone, s) |-> 0] \in Injection(Of(gone, s), 1 .. n(s))
      BY <2>1 DEF Injection, IsInjective
    <3>2. QED
      BY <3>1
  <2>2. CASE Of(gone, s) # {}
    <3>1. IsFiniteSet(Of(gone, s)) /\ n(s) = Cardinality(Of(gone, s))
      BY <2>2, AuditOfIs
    <3>2. n(s) \in Nat /\ 1 \in Int /\ n(s) \in Int
      BY <3>1, FS_CardinalityType
    <3>3. /\ IsFiniteSet(1 .. n(s))
          /\ Cardinality(1 .. n(s)) = IF 1 > n(s) THEN 0 ELSE n(s) - 1 + 1
      BY <3>2, FS_Interval
    <3>4. (IF 1 > n(s) THEN 0 ELSE n(s) - 1 + 1) = n(s)
      BY <3>2
    <3>5. ExistsBijection(Of(gone, s), 1 .. n(s))
      BY <3>1, <3>3, <3>4, FS_SameCardinalityBij
    <3>6. QED
      BY <3>5 DEF ExistsBijection, Bijection
  <2>3. QED
    BY <2>1, <2>2
<1>2. \A s \in Nat : G(s) \in Injection(Of(gone, s), 1 .. n(s))
  BY <1>1
<1>3. \A s \in Nat : F[s] = G(s)
  OBVIOUS
<1> HIDE DEF F, G
<1>4. ASSUME NEW s \in Nat
      PROVE  /\ \A r \in Of(gone, s) : F[s][r] \in Nat /\ F[s][r] \in 1 .. n(s)
             /\ \A q, r \in Of(gone, s) : F[s][q] = F[s][r] => q = r
  <2>1. F[s] \in Injection(Of(gone, s), 1 .. n(s))
    BY <1>2, <1>3
  <2> DEFINE f == F[s]
  <2> HIDE DEF n
  <2>2. f \in [Of(gone, s) -> 1 .. n(s)] /\ \A q, r \in Of(gone, s) : f[q] = f[r] => q = r
    BY <2>1 DEF Injection, IsInjective
  <2>3. \A r \in Of(gone, s) : f[r] \in 1 .. n(s)
    <3> HIDE DEF f
    <3>1. QED
      BY <2>2
  <2>4. \A i \in 1 .. n(s) : i \in Nat
    OBVIOUS
  <2>5. QED
    BY <2>2, <2>3, <2>4
<1>5. QED
  BY <1>4

(* Deleting keeps every hole answered.                                       *)
LEMMA DeleteAnswered ==
    ASSUME Shaped, Audited, Answered, NEW gone \in SUBSET rows, NEW at \in Int,
           Delete(gone, at), live' = live, stamp' = stamp,
           used'.sets = 0 => used.sets = 0,
           used.sets = 0 => \A s \in DOMAIN sessions : sessions[s].started <= at,
           DOMAIN sessions' \subseteq DOMAIN sessions,
           \A s \in DOMAIN sessions' : sessions'[s] = sessions[s],
           \A l \in lost : l[1] \in DOMAIN sessions' => l \in lost'
    PROVE  Answered'
<1> SUFFICES ASSUME used'.sets = 0
             PROVE  \E J \in [Holes' -> audit' \X Nat] :
                       /\ \A h \in Holes' : Answers(J[h], h)'
                       /\ \A g, h \in Holes' : J[g] = J[h] => g = h
  BY DEF Answered
<1>1. rows' = rows \ gone /\ audit' = audit \cup AuditRows(gone, at)
  BY DEF Delete
<1>2. PICK J \in [Holes -> audit \X Nat] :
          /\ \A h \in Holes : Answers(J[h], h)
          /\ \A g, h \in Holes : J[g] = J[h] => g = h
  BY DEF Answered
<1>3. PICK F : \A s \in Nat :
          /\ \A r \in Of(gone, s) : /\ F[s][r] \in Nat
                                    /\ F[s][r] \in 1 .. AuditOf(s, gone, at).rows
          /\ \A q, r \in Of(gone, s) : F[s][q] = F[s][r] => q = r
  BY Places
<1> DEFINE new == Holes' \ Holes
           row(h) == CHOOSE r \in gone : r.session = h[1] /\ r.seq = h[2]
           place(h) == <<AuditOf(h[1], gone, at), F[h[1]][row(h)]>>
<1>0. PICK K : K = [h \in Holes' |-> IF h \in Holes THEN J[h] ELSE place(h)]
  OBVIOUS
<1>4. \A h \in Holes' : /\ h \in Nat \X Nat /\ h[1] \in DOMAIN sessions' /\ h[1] \in DOMAIN sessions
                        /\ h[1] \in Nat
                        /\ sessions'[h[1]] = sessions[h[1]]
  BY DEF Holes, Hole
<1>5. ASSUME NEW h \in new
      PROVE  /\ row(h) \in Of(gone, h[1]) /\ row(h).session = h[1] /\ row(h).seq = h[2]
  <2>1. Hole(h[1], h[2])' /\ ~Hole(h[1], h[2])
    BY <1>5 DEF Holes
  <2>2. /\ h[1] \in DOMAIN sessions /\ h[2] # 0 /\ <<h[1], h[2]>> \notin lost
        /\ \/ h[1] = live /\ h[2] <= stamp.seq
           \/ \E r \in rows : r.session = h[1] /\ h[2] < r.seq
    <3>1. h[1] \in DOMAIN sessions /\ h[2] # 0 /\ <<h[1], h[2]>> \notin lost'
      BY <1>4, <1>5, <2>1 DEF Hole
    <3>2. h[1] \in DOMAIN sessions'
      BY <1>4, <1>5
    <3>3. <<h[1], h[2]>> \notin lost
      BY <3>1, <3>2
    <3>4. \/ h[1] = live /\ h[2] <= stamp.seq
          \/ \E r \in rows : r.session = h[1] /\ h[2] < r.seq
      BY <1>1, <2>1 DEF Hole
    <3>5. QED
      BY <3>1, <3>3, <3>4
  <2>3. \E r \in rows : r.session = h[1] /\ r.seq = h[2]
    BY <2>1, <2>2 DEF Hole
  <2>4. \A r \in rows' : r.session = h[1] => r.seq # h[2]
    BY <2>1 DEF Hole
  <2>5. \E r \in gone : r.session = h[1] /\ r.seq = h[2]
    BY <1>1, <2>3, <2>4
  <2>6. row(h) \in gone /\ row(h).session = h[1] /\ row(h).seq = h[2]
    BY <2>5
  <2>7. QED
    BY <2>6 DEF Of
<1> HIDE DEF row
<1>6. ASSUME NEW h \in new
      PROVE  /\ AuditOf(h[1], gone, at) \in audit' /\ AuditOf(h[1], gone, at) \notin audit
             /\ AuditOf(h[1], gone, at).session = h[1] /\ AuditOf(h[1], gone, at).at = at
             /\ h[2] \in AuditOf(h[1], gone, at).min .. AuditOf(h[1], gone, at).max
             /\ F[h[1]][row(h)] \in Nat
             /\ F[h[1]][row(h)] \in 1 .. AuditOf(h[1], gone, at).rows
  <2>1. row(h) \in Of(gone, h[1]) /\ row(h).session = h[1] /\ row(h).seq = h[2] /\ h[1] \in Nat
    BY <1>4, <1>5, <1>6
  <2>2. /\ AuditOf(h[1], gone, at).op = NextOp
        /\ AuditOf(h[1], gone, at).session = h[1] /\ AuditOf(h[1], gone, at).at = at
        /\ \A r \in Of(gone, h[1]) :
              r.seq \in AuditOf(h[1], gone, at).min .. AuditOf(h[1], gone, at).max
    BY <2>1, AuditOfIs
  <2>3. AuditOf(h[1], gone, at) \in audit'
    <3>1. row(h) \in gone
      BY <2>1 DEF Of
    <3>2. h[1] \in {r.session : r \in gone}
      BY <2>1, <3>1
    <3>3. AuditOf(h[1], gone, at) \in AuditRows(gone, at)
      BY <3>2, AuditRowsAre
    <3>4. QED
      BY <1>1, <3>3
  <2>4. AuditOf(h[1], gone, at) \notin audit
    <3>1. NextOp \in Nat /\ \A a \in audit : a.op < NextOp
      BY NextOpIsNew
    <3>2. QED
      BY <2>2, <3>1
  <2>5. QED
    BY <1>3, <2>1, <2>2, <2>3, <2>4
<1>7. \A h \in new : K[h] = place(h)
  BY <1>0
<1>8. \A h \in Holes' : h \notin new => h \in Holes /\ K[h] = J[h]
  BY <1>0
<1>9. K \in [Holes' -> audit' \X Nat]
  <2>1. ASSUME NEW h \in Holes' PROVE K[h] \in audit' \X Nat
    <3>1. CASE h \in new
      <4>1. AuditOf(h[1], gone, at) \in audit' /\ F[h[1]][row(h)] \in Nat
        BY <1>6, <3>1
      <4>2. K[h] = <<AuditOf(h[1], gone, at), F[h[1]][row(h)]>>
        BY <1>7, <3>1
      <4>3. QED
        BY <4>1, <4>2
    <3>2. CASE h \notin new
      BY <1>1, <1>2, <1>8, <2>1, <3>2
    <3>3. QED
      BY <3>1, <3>2
  <2>2. QED
    BY <1>0, <2>1
<1>10. ASSUME NEW h \in Holes' PROVE Answers(K[h], h)'
  <2>1. CASE h \in new
    <3>1. K[h] = <<AuditOf(h[1], gone, at), F[h[1]][row(h)]>>
      BY <1>7, <2>1
    <3>2. at >= sessions'[h[1]].started
      <4>1. sessions[h[1]].started <= at /\ sessions'[h[1]] = sessions[h[1]]
        BY <1>4, <1>10
      <4>2. sessions[h[1]].started \in Int
        BY <1>4, <1>10 DEF Shaped, Typed, Session
      <4>3. QED
        BY <4>1, <4>2
    <3>3. QED
      BY <1>6, <2>1, <3>1, <3>2 DEF Answers
  <2>2. CASE h \notin new
    <3>1. h \in Holes /\ K[h] = J[h]
      BY <1>8, <1>10, <2>2
    <3>2. Answers(J[h], h) /\ sessions'[h[1]] = sessions[h[1]]
      BY <1>2, <1>4, <1>10, <3>1
    <3>3. QED
      BY <1>1, <3>1, <3>2 DEF Answers
  <2>3. QED
    BY <2>1, <2>2
<1>11. ASSUME NEW g \in Holes', NEW h \in Holes', K[g] = K[h] PROVE g = h
  <2>1. CASE g \in new /\ h \in new
    <3>1. /\ AuditOf(g[1], gone, at) = AuditOf(h[1], gone, at)
          /\ F[g[1]][row(g)] = F[h[1]][row(h)]
      BY <1>7, <1>11, <2>1
    <3>2. g[1] = h[1]
      BY <1>6, <2>1, <3>1
    <3>3. row(g) \in Of(gone, h[1]) /\ row(h) \in Of(gone, h[1])
      BY <1>5, <2>1, <3>2
    <3>4. row(g) = row(h)
      BY <1>3, <1>4, <3>1, <3>2, <3>3
    <3>5. g[2] = h[2]
      BY <1>5, <2>1, <3>4
    <3>6. QED
      BY <1>4, <3>2, <3>5
  <2>2. CASE g \notin new /\ h \notin new
    <3>1. g \in Holes /\ h \in Holes /\ J[g] = J[h]
      BY <1>8, <1>11, <2>2
    <3>2. QED
      BY <1>2, <3>1
  <2>3. ASSUME NEW i \in new, NEW j \in Holes', j \notin new PROVE K[i] # K[j]
    <3>1. K[i] = place(i) /\ AuditOf(i[1], gone, at) \notin audit
      BY <1>6, <1>7, <2>3
    <3>2. K[j] = J[j] /\ J[j] \in audit \X Nat
      BY <1>2, <1>8, <2>3
    <3>3. QED
      BY <3>1, <3>2
  <2>4. QED
    BY <1>11, <2>1, <2>2, <2>3
<1>12. QED
  BY <1>9, <1>10, <1>11

(* The audit table and the rows of a prune.                                  *)
LEMMA PruneDeletes ==
    ASSUME NEW cutoff, NEW at, Prune(cutoff, at)
    PROVE  /\ Delete(PrunedRows(cutoff), at) /\ PrunedRows(cutoff) \in SUBSET rows
           /\ DOMAIN sessions' \subseteq DOMAIN sessions
           /\ \A s \in DOMAIN sessions' : sessions'[s] = sessions[s]
           /\ \A l \in lost : l[1] \in DOMAIN sessions' => l \in lost'
<1>1. Delete(PrunedRows(cutoff), at)
  BY DEF Prune
<1>2. PrunedRows(cutoff) \in SUBSET rows
  BY DEF PrunedRows, Actions
<1>3. QED
  BY <1>1, <1>2, PruneLeaves

(* A deletion by the dashboard or at a start is of rows, at a reading of the *)
(* clock; but for a prune no session and no loss goes with it.               *)
LEMMA Deletions ==
    ASSUME Shaped,
           StartupPrune \/ MousePrune \/ DashboardPrune \/ DeleteEvents \/ DeleteRecording
    PROVE  /\ UNCHANGED <<live, stamp, now>> /\ used'.sets = used.sets
           /\ DOMAIN sessions' \subseteq DOMAIN sessions
           /\ \A s \in DOMAIN sessions' : sessions'[s] = sessions[s]
           /\ \A l \in lost : l[1] \in DOMAIN sessions' => l \in lost'
           /\ \E gone \in SUBSET rows : \E at :
                 /\ at = now \/ (app = "thinning" /\ at = thinned)
                 /\ Delete(gone, at)
<1>1. \A op : Dashboard(op) => used'.sets = used.sets
  BY DEF Dashboard, Shaped, Typed, Occasions
<1>2. CASE StartupPrune
  <2>1. Prune(agesFrom - Days, now) /\ UNCHANGED <<live, stamp, now, used>>
    BY <1>2 DEF StartupPrune, clock
  <2>2. QED
    BY <2>1, PruneDeletes
<1>3. CASE MousePrune
  <2>1. PICK gone \in SUBSET {r \in rows : r.kind = "mouse" /\ r.ts < agesFrom - MouseDays} :
           Delete(gone, thinned)
    BY <1>3 DEF MousePrune
  <2>2. UNCHANGED <<live, stamp, now, used, sessions, lost>> /\ app = "thinning"
    BY <1>3 DEF MousePrune, clock
  <2>3. gone \in SUBSET rows
    OBVIOUS
  <2>4. QED
    BY <2>1, <2>2, <2>3
<1>4. CASE DashboardPrune
  <2>1. PICK cutoff \in Cutoffs : Prune(cutoff, now)
    BY <1>4 DEF DashboardPrune
  <2>2. UNCHANGED <<live, stamp, now>> /\ used'.sets = used.sets
    BY <1>1, <1>4 DEF DashboardPrune, boot
  <2>3. QED
    BY <2>1, <2>2, PruneDeletes
<1>5. CASE DeleteEvents
  <2>1. PICK gone \in (SUBSET Events(rows)) \ {{}} : Delete(gone, now)
    BY <1>5 DEF DeleteEvents
  <2>2. gone \in SUBSET rows
    BY <2>1 DEF Events
  <2>3. UNCHANGED <<live, stamp, now, sessions, lost>> /\ used'.sets = used.sets
    BY <1>1, <1>5 DEF DeleteEvents, boot
  <2>4. QED
    BY <2>1, <2>2, <2>3
<1>6. CASE DeleteRecording
  <2>1. PICK r \in DOMAIN recs \ OpenRecs : Delete({a \in rows : a.rec = r}, now)
    BY <1>6 DEF DeleteRecording
  <2>2. UNCHANGED <<live, stamp, now, sessions, lost>> /\ used'.sets = used.sets
    BY <1>1, <1>6 DEF DeleteRecording, boot
  <2>3. {a \in rows : a.rec = r} \in SUBSET rows
    OBVIOUS
  <2>4. QED
    BY <2>1, <2>2, <2>3
<1>7. QED
  BY <1>2, <1>3, <1>4, <1>5, <1>6

(* No reading of the clock is behind a session that is deleted from.         *)
LEMMA AfterTheStart ==
    ASSUME Shaped, Timely, NEW at, at = now \/ (app = "thinning" /\ at = thinned),
           used.sets = 0
    PROVE  at \in Int /\ \A s \in DOMAIN sessions : sessions[s].started <= at
BY ConstantTypes DEF Shaped, Typed, Timely

(* While the clock is not set it goes forward, and a start is over before    *)
(* its session begins.                                                      *)
LEMMA TimelyStep == ASSUME Shaped, Timely, [Next]_vars PROVE Timely'
<1> SUFFICES ASSUME used'.sets = 0
             PROVE  /\ \A s \in DOMAIN sessions' : sessions'[s].started <= now'
                    /\ app' \in {"pruning", "thinning", "ready"} => base' <= now'
                    /\ app' = "thinning" =>
                          /\ thinned' <= now'
                          /\ \A s \in DOMAIN sessions' : sessions'[s].started <= thinned'
  BY DEF Timely
<1>1. Typed /\ now \in Int /\ base \in Int /\ \A s \in DOMAIN sessions : sessions[s].started \in Int
  BY ConstantTypes DEF Shaped, Typed, Session
<1>2. CASE SetClock
  <2>1. used' = [used EXCEPT !.sets = @ + 1, !.upsets = @ + 1]
    BY <1>2 DEF SetClock
  <2>2. used.sets \in Nat /\ used'.sets = used.sets + 1
    BY <1>1, <2>1 DEF Typed, Occasions
  <2>3. used'.sets # 0
    BY <2>2
  <2>4. QED
    BY <2>3
<1>3. CASE Tick
  <2>1. now' \in Int /\ now < now' /\ UNCHANGED <<app, base, thinned, sessions, used>>
    BY <1>3, ConstantTypes DEF Tick, boot, store
  <2>2. \A i \in Int : i <= now => i <= now'
    BY <1>1, <2>1
  <2>3. thinned \in Int /\ used.sets = 0
    BY <1>1, <2>1 DEF Typed
  <2>4. QED
    BY <1>1, <2>1, <2>2, <2>3 DEF Timely
<1>4. CASE Resync \/ OpenRecording \/ CloseRecording \/ Lose \/ UNCHANGED vars
  <2>1. UNCHANGED <<now, app, base, thinned, sessions>> /\ used'.sets = used.sets
    BY <1>1, <1>4 DEF Resync, OpenRecording, Room, CloseRecording, Lose, clock, boot, store, vars,
                      Typed, Occasions
  <2>2. QED
    BY <2>1 DEF Timely
<1>5. ASSUME NEW kind \in RowKinds, Write(kind)
      PROVE  UNCHANGED <<now, app, base, thinned, sessions>> /\ used'.sets = used.sets
  BY <1>1, <1>5 DEF Write, Room, Typed, Occasions
<1>6. CASE \E kind \in RowKinds : Write(kind)
  <2>1. UNCHANGED <<now, app, base, thinned, sessions>> /\ used'.sets = used.sets
    BY <1>5, <1>6
  <2>2. QED
    BY <2>1 DEF Timely
<1>7. CASE Open
  <2>1. /\ DOMAIN sessions' = DOMAIN sessions
        /\ \A s \in DOMAIN sessions : sessions'[s].started = sessions[s].started
    BY <1>7, OpenLeaves
  <2>2. now' = now /\ base' = now /\ app' = "pruning" /\ used'.sets = used.sets
    BY <1>1, <1>7 DEF Open, Typed, Occasions
  <2>3. QED
    BY <1>1, <2>1, <2>2 DEF Timely
<1>8. CASE StartupPrune
  <2>1. /\ DOMAIN sessions' \subseteq DOMAIN sessions
        /\ \A s \in DOMAIN sessions' : sessions'[s] = sessions[s]
    BY <1>8, PruneLeaves DEF StartupPrune
  <2>2. /\ now' = now /\ base' = base /\ app = "pruning" /\ app' = "thinning" /\ thinned' = now
        /\ used' = used
    BY <1>8 DEF StartupPrune, clock
  <2>3. QED
    BY <1>1, <2>1, <2>2 DEF Timely
<1>9. CASE MousePrune
  <2>1. /\ UNCHANGED <<now, base, thinned, sessions, used>> /\ app = "thinning"
    BY <1>9 DEF MousePrune, clock
  <2>2. QED
    BY <1>1, <2>1 DEF Timely
<1>10. CASE CreateSession
  <2>1. sessions' = [s \in DOMAIN sessions \cup {live'} |->
          IF s = live' THEN [started |-> base, ended |-> None] ELSE sessions[s]]
    BY <1>10 DEF CreateSession
  <2>2. \A s \in DOMAIN sessions' :
           sessions'[s].started = base \/ (s \in DOMAIN sessions /\ sessions'[s] = sessions[s])
    BY <2>1
  <2>3. app = "ready" /\ app' = "on" /\ now' = now /\ used' = used
    BY <1>10 DEF CreateSession, clock
  <2>4. QED
    BY <1>1, <2>2, <2>3 DEF Timely
<1>11. CASE EndSession
  <2>1. sessions' = [sessions EXCEPT ![live].ended = Reading] /\ Reading \in Int
    BY <1>1, <1>11, ReadingIs DEF EndSession
  <2>2. /\ DOMAIN sessions' = DOMAIN sessions
        /\ \A s \in DOMAIN sessions : sessions'[s].started = sessions[s].started
    BY <1>1, <2>1 DEF Typed, Session
  <2>3. now' = now /\ used' = used /\ app' = "off"
    BY <1>11 DEF EndSession, Stopped, clock
  <2>4. QED
    BY <1>1, <2>2, <2>3 DEF Timely
<1>12. CASE Crash
  BY <1>1, <1>12 DEF Crash, Stopped, clock, store, Timely
<1>13. CASE Erase
  BY <1>1, <1>13 DEF Erase
<1>14. CASE DashboardPrune \/ DeleteEvents \/ DeleteRecording
  <2>1. /\ UNCHANGED <<app, base, thinned, now>>
        /\ \E op : Dashboard(op)
    BY <1>14 DEF DashboardPrune, DeleteEvents, DeleteRecording, boot
  <2>2. used'.sets = used.sets
    BY <1>1, <2>1 DEF Dashboard, Typed, Occasions
  <2>3. /\ DOMAIN sessions' \subseteq DOMAIN sessions
        /\ \A s \in DOMAIN sessions' : sessions'[s] = sessions[s]
    <3>1. CASE DashboardPrune
      BY <3>1, PruneLeaves DEF DashboardPrune
    <3>2. CASE DeleteEvents \/ DeleteRecording
      BY <3>2 DEF DeleteEvents, DeleteRecording
    <3>3. QED
      BY <1>14, <3>1, <3>2
  <2>4. QED
    BY <1>1, <2>1, <2>2, <2>3 DEF Timely
<1>15. QED
  BY <1>2, <1>3, <1>4, <1>6, <1>7, <1>8, <1>9, <1>10, <1>11, <1>12, <1>13, <1>14 DEF Next

(* A step that deletes nothing leaves the audit table alone and adds at most  *)
(* a row, which has a number.                                                *)
LEMMA AuditedStep == ASSUME Shaped, Audited, Timely, [Next]_vars PROVE Audited'
<1>1. CASE StartupPrune \/ MousePrune \/ DashboardPrune \/ DeleteEvents \/ DeleteRecording
  <2>1. PICK gone \in SUBSET rows :
           \E at : (at = now \/ (app = "thinning" /\ at = thinned)) /\ Delete(gone, at)
    BY <1>1, Deletions
  <2>2. PICK at : (at = now \/ at = thinned) /\ Delete(gone, at)
    BY <2>1
  <2>3. thinned \in Int /\ now \in Int
    BY ConstantTypes DEF Shaped, Typed
  <2>4. at \in Int
    BY <2>2, <2>3
  <2>5. QED
    BY <2>2, <2>4, DeleteAudited
<1>2. ASSUME audit' = audit, rows' = rows PROVE Audited'
  BY <1>2 DEF Audited
<1>3. ASSUME NEW row, row.seq # 0, rows' = rows \cup {row}, audit' = audit PROVE Audited'
  <2>1. IsFiniteSet(rows')
    BY <1>3, FS_AddElement DEF Audited
  <2>2. QED
    BY <1>3, <2>1 DEF Audited
<1>4. CASE Tick \/ SetClock \/ Resync \/ CreateSession \/ Lose \/ OpenRecording \/ CloseRecording
           \/ EndSession \/ Crash \/ UNCHANGED vars
  BY <1>2, <1>4 DEF Tick, SetClock, Resync, CreateSession, Lose, OpenRecording, CloseRecording,
                    EndSession, Crash, boot, store, vars
<1>5. ASSUME NEW kind \in RowKinds, Write(kind) PROVE Audited'
  <2>1. PICK row \in Row : /\ rows' = rows \cup {row}
                           /\ row.seq = stamp'.seq /\ stamp'.seq = stamp.seq + 1
    BY <1>5, Written
  <2>2. row.seq # 0 /\ audit' = audit
    BY <1>5, <2>1 DEF Write, Shaped, Typed
  <2>3. QED
    BY <1>3, <2>1, <2>2
<1>6. CASE Open
  <2>1. audit' = audit
    BY <1>6 DEF Open
  <2>2. CASE rows' = rows
    BY <1>2, <2>1, <2>2
  <2>3. ASSUME NEW s \in DOMAIN sessions, rows' = rows \cup {Recovered(s)} PROVE Audited'
    <3>1. Max({0} \cup {r.seq : r \in Of(rows, s)}) \in Nat
      <4>1. Of(rows, s) \in SUBSET Row /\ Ends(Of(rows, s)) /\ 0 \in Int
        BY DEF Of, Shaped, Typed, RowsEnd, Ends
      <4>2. QED
        BY <4>1, NewestIs
    <3>2. Recovered(s).seq # 0
      BY <3>1 DEF Recovered
    <3>3. QED
      BY <1>3, <2>1, <2>3, <3>2
  <2>4. QED
    BY <1>6, <2>2, <2>3, Repaired DEF Shaped
<1>7. CASE Erase
  <2>1. rows' = {} /\ audit' = {}
    BY <1>7 DEF Erase
  <2>2. QED
    BY <2>1, FS_EmptySet DEF Audited
<1>8. QED
  BY <1>1, <1>4, <1>5, <1>6, <1>7 DEF Next

(* A start gives a row away only below which nothing is open.                *)
LEMMA OpenHoles ==
    ASSUME Shaped, Intact, Audited, Open, NEW h \in Nat \X Nat, Hole(h[1], h[2])'
    PROVE  Hole(h[1], h[2])
<1>1. /\ DOMAIN sessions' = DOMAIN sessions /\ live = None /\ live' = None
      /\ rows \subseteq rows' /\ lost' = lost
  BY OpenLeaves DEF Open
<1>2. /\ h[1] \in DOMAIN sessions /\ h[2] # 0 /\ <<h[1], h[2]>> \notin lost
      /\ \A r \in rows : r.session = h[1] => r.seq # h[2]
  BY <1>1 DEF Hole
<1>3. h[1] # None
  BY RetentionConstants
<1>4. PICK r \in rows' : r.session = h[1] /\ h[2] < r.seq
  BY <1>1, <1>3 DEF Hole
<1>5. CASE r \in rows
  BY <1>2, <1>4, <1>5 DEF Hole
<1>6. CASE r \notin rows
  <2>1. PICK s \in DOMAIN sessions : rows' = rows \cup {Recovered(s)}
    BY <1>6, Repaired DEF Shaped
  <2>2. r = Recovered(s) /\ s = h[1]
    BY <1>4, <1>6, <2>1 DEF Recovered
  <2> DEFINE S == {0} \cup {q.seq : q \in Of(rows, s)}
  <2>3. r.seq = Max(S) + 1
    BY <2>2 DEF Recovered
  <2>4. PICK b \in Nat : \A q \in rows : q.seq <= b
    BY DEF Shaped, RowsEnd, Ends
  <2>5. S \in SUBSET Int /\ S \in SUBSET Nat /\ S # {} /\ \A x \in S : x <= b
    BY <2>4 DEF Of, Shaped, Typed, Row
  <2>6. b \in Int
    OBVIOUS
  <2>7. Max(S) \in S
    <3> HIDE DEF S
    <3>1. QED
      BY <2>5, <2>6, MaxIs
  <2>8. Max(S) # 0
    <3>1. Max(S) \in Nat
      BY <2>5, <2>7
    <3> HIDE DEF S
    <3>2. QED
      BY <1>2, <1>4, <2>3, <3>1
  <2>9. PICK q \in Of(rows, s) : Max(S) = q.seq
    BY <2>7, <2>8
  <2>10. q \in rows /\ q.session = h[1] /\ q.seq \in Nat /\ q.seq # h[2]
    BY <1>2, <2>2, <2>9 DEF Of, Shaped, Typed, Row
  <2>11. h[2] < q.seq
    <3> HIDE DEF S
    <3>1. QED
      BY <1>4, <2>3, <2>9, <2>10
  <2>12. QED
    BY <1>2, <2>10, <2>11 DEF Hole
<1>7. QED
  BY <1>5, <1>6

(* No other step that deletes nothing makes a hole, but for a number lost.    *)
LEMMA NoNewHoles ==
    ASSUME Shaped, Intact, NEW h \in Nat \X Nat, Hole(h[1], h[2])',
           \/ Tick \/ SetClock \/ Resync \/ CreateSession \/ Lose \/ OpenRecording
           \/ CloseRecording \/ EndSession \/ Crash \/ UNCHANGED vars
           \/ \E kind \in RowKinds : Write(kind)
    PROVE  Hole(h[1], h[2])
<1>1. h[1] \in Nat /\ h[2] \in Nat /\ h[1] # None /\ stamp.seq \in Nat
  BY RetentionConstants DEF Shaped, Typed
<1>2. CASE Tick \/ SetClock \/ Resync \/ OpenRecording \/ CloseRecording \/ UNCHANGED vars
  <2>1. UNCHANGED <<sessions, lost, rows, live, stamp>>
    BY <1>2 DEF Tick, SetClock, Resync, OpenRecording, CloseRecording, boot, store, vars
  <2>2. QED
    BY <2>1 DEF Hole
<1>3. CASE EndSession \/ Crash
  <2>1. DOMAIN sessions' = DOMAIN sessions /\ live' = None /\ UNCHANGED <<lost, rows>>
    BY <1>3 DEF EndSession, Crash, Stopped, store, Shaped, Typed
  <2>2. QED
    BY <1>1, <2>1 DEF Hole
<1>4. CASE CreateSession
  <2>1. sessions' = [s \in DOMAIN sessions \cup {live'} |->
          IF s = live' THEN [started |-> base, ended |-> None] ELSE sessions[s]]
    BY <1>4 DEF CreateSession
  <2>2. DOMAIN sessions' = DOMAIN sessions \cup {live'} /\ stamp'.seq = 0 /\ UNCHANGED <<lost, rows>>
    BY <1>4, <2>1 DEF CreateSession
  <2>3. live' \notin DOMAIN sessions
    BY <1>4, NextIsNew DEF CreateSession, Shaped, Typed
  <2>4. \A r \in rows : r.session # live'
    BY <2>3 DEF Intact
  <2>5. h[1] # live'
    BY <1>1, <2>2, <2>4 DEF Hole
  <2>6. QED
    BY <2>2, <2>5 DEF Hole
<1>5. CASE Lose
  <2>1. /\ UNCHANGED <<sessions, rows, live>> /\ stamp'.seq = stamp.seq + 1
        /\ lost' = lost \cup {<<live, stamp'.seq>>}
    BY <1>5 DEF Lose, Stamp
  <2>2. ASSUME h[1] = live, h[2] <= stamp'.seq PROVE h[2] <= stamp.seq
    <3>1. h[2] # stamp'.seq
      BY <2>1, <2>2 DEF Hole
    <3>2. QED
      BY <1>1, <2>1, <2>2, <3>1
  <2>3. QED
    BY <2>1, <2>2 DEF Hole
<1>6. ASSUME NEW kind \in RowKinds, Write(kind) PROVE Hole(h[1], h[2])
  <2>1. PICK row \in Row : /\ rows' = rows \cup {row} /\ row.session = live
                           /\ row.seq = stamp'.seq /\ stamp'.seq = stamp.seq + 1
    BY <1>6, Written
  <2>2. UNCHANGED <<sessions, lost, live>>
    BY <1>6 DEF Write
  <2>3. ASSUME h[1] = live, h[2] <= stamp'.seq PROVE h[2] <= stamp.seq
    <3>1. h[2] # stamp'.seq
      BY <2>1, <2>3 DEF Hole
    <3>2. QED
      BY <1>1, <2>1, <2>3, <3>1
  <2>4. ASSUME NEW r \in rows', r.session = h[1], h[2] < r.seq, r \notin rows
        PROVE  h[1] = live /\ h[2] <= stamp'.seq
    BY <1>1, <2>1, <2>4
  <2>5. QED
    BY <2>1, <2>2, <2>3, <2>4 DEF Hole
<1>7. QED
  BY <1>2, <1>3, <1>4, <1>5, <1>6

LEMMA AnsweredStep ==
    ASSUME Shaped, Intact, Audited, Timely, Answered, [Next]_vars PROVE Answered'
<1>1. CASE StartupPrune \/ MousePrune \/ DashboardPrune \/ DeleteEvents \/ DeleteRecording
  <2>1. /\ UNCHANGED <<live, stamp, now>> /\ used'.sets = used.sets
        /\ DOMAIN sessions' \subseteq DOMAIN sessions
        /\ \A s \in DOMAIN sessions' : sessions'[s] = sessions[s]
        /\ \A l \in lost : l[1] \in DOMAIN sessions' => l \in lost'
    BY <1>1, Deletions
  <2>2. PICK gone \in SUBSET rows :
           \E at : (at = now \/ (app = "thinning" /\ at = thinned)) /\ Delete(gone, at)
    BY <1>1, Deletions
  <2>3. PICK at : (at = now \/ (app = "thinning" /\ at = thinned)) /\ Delete(gone, at)
    BY <2>2
  <2>4. CASE used.sets # 0
    BY <2>1, <2>4 DEF Answered
  <2>5. CASE used.sets = 0
    <3>1. at \in Int /\ \A s \in DOMAIN sessions : sessions[s].started <= at
      BY <2>3, <2>5, AfterTheStart
    <3>2. QED
      BY <2>1, <2>3, <3>1, DeleteAnswered
  <2>6. QED
    BY <2>4, <2>5
<1>2. used'.sets = 0 => used.sets = 0
  <2>1. CASE UNCHANGED used
    BY <2>1
  <2>2. CASE \/ used' = [used EXCEPT !.boots = @ + 1] \/ used' = [used EXCEPT !.rows = @ + 1]
             \/ used' = [used EXCEPT !.upsets = @ + 1]
    BY <2>2 DEF Shaped, Typed, Occasions
  <2>4. CASE used' = [used EXCEPT !.sets = @ + 1, !.upsets = @ + 1]
    <3>1. used.sets \in Nat /\ used'.sets = used.sets + 1
      BY <2>4 DEF Shaped, Typed, Occasions
    <3>2. QED
      BY <3>1
  <2>3. CASE \E op : Dashboard(op)
    BY <2>3 DEF Dashboard, Shaped, Typed, Occasions
  <2>5. QED
    BY <2>1, <2>2, <2>3, <2>4, UsedSteps
<1>3. CASE Open
  <2>1. /\ DOMAIN sessions' = DOMAIN sessions
        /\ \A s \in DOMAIN sessions : sessions'[s].started = sessions[s].started
    BY <1>3, OpenLeaves
  <2>2. audit' = audit
    BY <1>3 DEF Open
  <2>3. \A h \in Nat \X Nat : Hole(h[1], h[2])' => Hole(h[1], h[2])
    BY <1>3, OpenHoles
  <2>4. QED
    BY <1>2, <2>1, <2>2, <2>3, AnsweredSame
<1>4. CASE \/ Tick \/ SetClock \/ Resync \/ CreateSession \/ Lose \/ OpenRecording
           \/ CloseRecording \/ EndSession \/ Crash \/ UNCHANGED vars
           \/ \E kind \in RowKinds : Write(kind)
  <2>1. audit' = audit
    BY <1>4 DEF Tick, SetClock, Resync, CreateSession, Lose, OpenRecording, CloseRecording,
                EndSession, Crash, Write, boot, store, vars
  <2>2. \A s \in DOMAIN sessions' : s \in DOMAIN sessions
                                     => sessions'[s].started = sessions[s].started
    <3>1. CASE CreateSession
      <4>1. sessions' = [s \in DOMAIN sessions \cup {live'} |->
              IF s = live' THEN [started |-> base, ended |-> None] ELSE sessions[s]]
        BY <3>1 DEF CreateSession
      <4>2. live' \notin DOMAIN sessions
        BY <3>1, NextIsNew DEF CreateSession, Shaped, Typed
      <4>3. QED
        BY <4>1, <4>2
    <3>2. CASE EndSession
      <4>1. sessions' = [sessions EXCEPT ![live].ended = Reading]
        BY <3>2 DEF EndSession
      <4>2. QED
        BY <4>1 DEF Shaped, Typed, Session
    <3>3. CASE ~CreateSession /\ ~EndSession
      BY <1>4, <3>3 DEF Tick, SetClock, Resync, Lose, OpenRecording, CloseRecording,
                        Crash, Write, boot, store, vars
    <3>4. QED
      BY <3>1, <3>2, <3>3
  <2>3. \A h \in Nat \X Nat : Hole(h[1], h[2])' => Hole(h[1], h[2])
    BY <1>4, NoNewHoles
  <2>4. QED
    BY <1>2, <2>1, <2>2, <2>3, AnsweredSame
<1>5. CASE Erase
  <2>1. rows' = {} /\ stamp'.seq = 0
    BY <1>5 DEF Erase
  <2>2. Holes' = {}
    BY <2>1 DEF Holes, Hole
  <2>3. PICK J : J = [h \in {} |-> h]
    OBVIOUS
  <2>4. J \in [Holes' -> audit' \X Nat]
    BY <2>2, <2>3
  <2>5. (\A h \in Holes' : Answers(J[h], h)') /\ \A g, h \in Holes' : J[g] = J[h] => g = h
    BY <2>2
  <2>6. QED
    BY <2>4, <2>5 DEF Answered
<1>6. QED
  BY <1>1, <1>3, <1>4, <1>5 DEF Next

(* Holes that were not lost are explained.                                   *)
LEMMA AlarmIsTrue == ASSUME Shaped, Audited, Answered PROVE NoFalseAlarm
<1> SUFFICES ASSUME used.sets = 0, NEW s \in Flagged, \A n \in Missing(s) : <<s, n>> \notin lost
             PROVE  FALSE
  BY DEF NoFalseAlarm
<1>1. PICK J \in [Holes -> audit \X Nat] :
          /\ \A h \in Holes : Answers(J[h], h)
          /\ \A g, h \in Holes : J[g] = J[h] => g = h
  BY DEF Answered
<1>2. s \in DOMAIN sessions /\ s \in Nat /\ Missing(s) # {} /\ ~Explained(s)
  BY DEF Flagged, Shaped, Typed
<1>3. ASSUME NEW n \in Missing(s) PROVE <<s, n>> \in Holes
  <2>1. Seqs(s) # {} /\ n \in Min(Seqs(s)) .. Max(Seqs(s)) /\ n \notin Seqs(s)
    BY <1>3 DEF Missing
  <2>2. PICK b \in Nat : \A r \in rows : r.seq <= b
    BY DEF Shaped, RowsEnd, Ends
  <2>3. \A r \in rows : r.seq \in Nat /\ r.seq # 0
    BY DEF Shaped, Typed, Row, Audited
  <2>4. \A x \in Seqs(s) : \E r \in rows : r.session = s /\ r.seq = x
    BY DEF Seqs, Of
  <2>5. \A x \in Seqs(s) : x \in Int /\ x # 0 /\ 0 <= x /\ x <= b
    BY <2>2, <2>3, <2>4
  <2>6. Seqs(s) \in SUBSET Int /\ b \in Int /\ 0 \in Int
    BY <2>5
  <2>7. Min(Seqs(s)) \in Seqs(s)
    BY <2>1, <2>5, <2>6, MinIs
  <2>8. Max(Seqs(s)) \in Seqs(s)
    BY <2>1, <2>5, <2>6, MaxIs
  <2>9. PICK r \in rows : r.session = s /\ r.seq = Max(Seqs(s))
    BY <2>4, <2>8
  <2>10. n \in Nat /\ n # 0 /\ n < r.seq
    <3>1. Min(Seqs(s)) \in Nat /\ Min(Seqs(s)) # 0 /\ Max(Seqs(s)) \in Nat
      BY <2>5, <2>7, <2>8
    <3>2. n # Max(Seqs(s))
      BY <2>1, <2>8
    <3>3. QED
      BY <2>1, <2>9, <3>1, <3>2
  <2>11. \A q \in rows : q.session = s => q.seq # n
    BY <2>1 DEF Seqs, Of
  <2>12. Hole(s, n)
    BY <1>2, <1>3, <2>9, <2>10, <2>11 DEF Hole
  <2>13. QED
    BY <1>2, <2>10, <2>12 DEF Holes
<1>4. ASSUME NEW n \in Missing(s)
      PROVE  /\ J[<<s, n>>] \in RowByRow(Spans(s)) /\ J[<<s, n>>][1] \in Spans(s)
             /\ n \in J[<<s, n>>][1].min .. J[<<s, n>>][1].max
  <2>1. <<s, n>> \in Holes
    BY <1>3
  <2>2. Answers(J[<<s, n>>], <<s, n>>) /\ J[<<s, n>>] \in audit \X Nat
    BY <1>1, <2>1
  <2>3. J[<<s, n>>][1] \in Spans(s)
    BY <2>2 DEF Answers, Spans
  <2>4. QED
    BY <2>2, <2>3 DEF Answers, RowByRow
<1>5. IsFiniteSet(Spans(s)) /\ \A a \in Spans(s) : a.rows \in Nat
  <2>1. Spans(s) \in SUBSET audit
    BY DEF Spans
  <2>2. QED
    BY <2>1, FS_Subset DEF Audited, AuditRow
<1>6. /\ IsFiniteSet(RowByRow(Spans(s)))
      /\ MapThenSumSet(LAMBDA a : a.rows, Spans(s)) = Cardinality(RowByRow(Spans(s)))
  BY <1>5, SumOfRows
<1>7. Cardinality(Missing(s)) <= Cardinality(RowByRow(Spans(s)))
  <2> DEFINE K == [n \in Missing(s) |-> J[<<s, n>>]]
  <2>1. K \in [Missing(s) -> RowByRow(Spans(s))]
    BY <1>4
  <2>2. \A m, n \in Missing(s) : K[m] = K[n] => m = n
    <3>1. ASSUME NEW m \in Missing(s), NEW n \in Missing(s), K[m] = K[n] PROVE m = n
      <4>1. <<s, m>> \in Holes /\ <<s, n>> \in Holes /\ J[<<s, m>>] = J[<<s, n>>]
        BY <1>3, <3>1
      <4>2. <<s, m>> = <<s, n>>
        BY <1>1, <4>1
      <4>3. QED
        BY <4>2
    <3>2. QED
      BY <3>1
  <2>3. K \in Injection(Missing(s), RowByRow(Spans(s)))
    BY <2>1, <2>2 DEF Injection, IsInjective
  <2>4. QED
    BY <1>6, <2>3, FS_Injection
<1>8. Explained(s)
  BY <1>2, <1>4, <1>6, <1>7 DEF Explained
<1>9. QED
  BY <1>2, <1>8

-----------------------------------------------------------------------------
(* The theorems.                                                            *)

Inv == Shaped /\ Intact /\ Accounted /\ Clamped /\ Audited /\ Timely /\ Answered

(* The inductive invariant: rows, sessions and recordings are shaped and     *)
(* hold together, what is lost and deleted is accounted for, and a start     *)
(* reckons from the stored rows.                                             *)
THEOREM RetentionInvariant == Spec => []Inv
<1>1. Init => Inv
  <2> SUFFICES ASSUME Init PROVE Inv
    OBVIOUS
  <2>1. now \in Times
    <3>1. Times \in SUBSET Int /\ Times # {} /\ \A t \in Times : 0 <= t
      BY RetentionConstants
    <3>2. QED
      BY <3>1, MinIs DEF Init
  <2>2. used \in Occasions
    BY DEF Init, Occasions
  <2>3. Typed
    BY <2>1, <2>2 DEF Init, Typed
  <2>4. Kept /\ RowsEnd /\ SessionsEnd /\ Living
    BY DEF Init, Kept, RowsEnd, Ends, SessionsEnd, Living
  <2>5. Intact /\ Accounted /\ Clamped
    BY DEF Init, Intact, Accounted, LostIsLost, Behind, Unaudited, Clamped
  <2>6. Audited /\ Timely
    BY FS_EmptySet DEF Init, Audited, Timely
  <2>7. Answered
    <3>1. Holes = {}
      BY DEF Init, Holes, Hole
    <3>2. PICK J : J = [h \in {} |-> h]
      OBVIOUS
    <3>3. J \in [Holes -> audit \X Nat]
      BY <3>1, <3>2
    <3>4. QED
      BY <3>1, <3>3 DEF Answered
  <2>8. QED
    BY <2>3, <2>4, <2>5, <2>6, <2>7 DEF Inv, Shaped
<1>2. Inv /\ [Next]_vars => Inv'
  BY ShapedStep, IntactStep, AccountedStep, ClampedStep, AuditedStep, TimelyStep, AnsweredStep
     DEF Inv
<1>3. QED
  BY <1>1, <1>2, PTL DEF Spec

(* No row, recording or live session loses what it refers to, whatever       *)
(* retention, the dashboard and the writer delete and record in between:     *)
(* the statements of prune and of the deletes keep the foreign keys.         *)
THEOREM KeysStayIntact == Spec => []Intact
<1>1. Inv => Intact
  BY DEF Inv
<1>2. QED
  BY <1>1, RetentionInvariant, PTL

(* A hole in a session nothing was deleted from is reported, whatever was    *)
(* deleted from earlier sessions of its number (database_health).            *)
THEOREM LossIsReported == Spec => []LossShown
<1>1. Inv => LossShown
  BY LossIsShown DEF Inv
<1>2. QED
  BY <1>1, RetentionInvariant, PTL

(* A session that lost nothing is never reported as damaged, in whatever      *)
(* pieces its rows were deleted and whatever starts, crashes and sessions of  *)
(* the same number came in between: every hole has an audit row of its time   *)
(* that spans it, and their counts add up to the holes at least               *)
(* (record_deletion_audit, database_health).                                 *)
THEOREM NoAlarmIsFalse == Spec => []NoFalseAlarm
<1>1. Inv => NoFalseAlarm
  BY AlarmIsTrue DEF Inv
<1>2. QED
  BY <1>1, RetentionInvariant, PTL

(* In every reachable state the preview counts, for every cutoff, what a     *)
(* prune with it deletes.                                                    *)
THEOREM PreviewIsExact == Spec => []PreviewExact
<1>1. Inv => PreviewExact
  BY PreviewIs DEF Inv, Shaped
<1>2. QED
  BY <1>1, RetentionInvariant, PTL

(* However wrong the clock is, a start deletes nothing younger than its      *)
(* window, by the time of the stored rows (clamped_retention_now_ms).        *)
THEOREM RecentIsKept == Spec => RecentKept
<1>1. Inv /\ [Next]_vars => Recent
  BY RecentStep DEF Inv
<1>2. [Next]_vars /\ Inv => [Recent]_vars
  BY <1>1
<1>3. Spec => [][Recent]_vars
  BY <1>2, RetentionInvariant, PTL DEF Spec
<1>4. QED
  BY <1>3 DEF RecentKept, Recent
===============================================================================
