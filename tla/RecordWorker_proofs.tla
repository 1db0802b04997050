-------------------------- MODULE RecordWorker_proofs --------------------------
(***************************************************************************)
(* One recording of Record Routine, for any applications, controls, events, *)
(* bounds and faults: what the coalescer makes of the inputs it takes       *)
(* (Faithful), and that nothing observed after the panic key is stored      *)
(* while the wall clock is not set (PanicFence).                            *)
(***************************************************************************)
EXTENDS RecordWorker, SequenceTheorems, FiniteSetTheorems, TLAPS

-----------------------------------------------------------------------------
(* Sequences.                                                               *)

LEMMA Widened ==
    ASSUME NEW S, NEW T, S \subseteq T, NEW s \in Seq(S) PROVE s \in Seq(T)
<1>1. \A i \in 1 .. Len(s) : s[i] \in T
  OBVIOUS
<1>2. QED
  BY <1>1, IsASeq

LEMMA NothingYet == \A S : <<>> \in Seq(S)
OBVIOUS

LEMMA Taken ==
    ASSUME NEW S, NEW s \in Seq(S), s # <<>>
    PROVE  Head(s) \in S /\ Tail(s) \in Seq(S)
OBVIOUS

LEMMA Added ==
    ASSUME NEW S, NEW s \in Seq(S), NEW x \in S
    PROVE  /\ Append(s, x) \in Seq(S) /\ Len(Append(s, x)) = Len(s) + 1 /\ Len(s) \in Nat
           /\ \A i \in 1 .. Len(s) : Append(s, x)[i] = s[i]
           /\ Append(s, x)[Len(s) + 1] = x
OBVIOUS

LEMMA Ranges ==
    ASSUME NEW S, NEW s \in Seq(S)
    PROVE  /\ \A x : x \in ToSet(s) <=> \E i \in 1 .. Len(s) : x = s[i]
           /\ ToSet(s) \subseteq S
BY DEF ToSet

-----------------------------------------------------------------------------
(* The state.                                                               *)

Event == [kind : Scoped \cup Global, el : Control, val : {1, 2}, at : Nat]
Input == [kind : Scoped \cup Global, el : Control, val : {1, 2}, at : Nat, exe : App]
Arrived == [act : Actions, at : Int]
Maybe == Actions \cup {NoAction}

Coalescing ==
    /\ scroll \in Maybe /\ edit \in Maybe
    /\ last \in [Control -> [val : {0, 1, 2}, at : Nat]]
    /\ hand \in Seq(Actions) /\ emitted \in Seq(Actions)
    /\ taken \in Seq(Input) /\ repeats \subseteq Nat

Typed ==
    /\ now \in Nat /\ skew \in Int /\ lane \in Lanes
    /\ front \in App \cup {Self} /\ target \in App /\ raw \in Seq(Event)
    /\ Coalescing /\ out \in Seq(Actions)
    /\ writing \in Packets \cup {NoAction} /\ pipe \in Seq(Packets \cup {NoAction})
    /\ inbox \in Seq(Arrived) /\ stored \in Seq(Actions)
    /\ cutoff \in Nat \cup {Never} /\ pressed \in Nat \cup {Never}

(* One action is pending at most. *)
OnePending == scroll = NoAction \/ edit = NoAction

(* What the lane hands on comes from the events it reports. *)
LEMMA UnderstoodTyped ==
    ASSUME Typed, NEW ev \in Event, NEW tgt \in App, NEW in \in Understood(ev, tgt)
    PROVE  in \in Input /\ in.at = ev.at
<1>1. AppOf \in [Control -> App]
  BY WorkerConstants
<1>2. \A el \in Control : Exes(el, tgt) \subseteq App
  BY <1>1 DEF Exes
<1>3. QED
  BY <1>2 DEF Understood, Event, Input, Scoped, Global

(* What a flush emits: the pending action, if there is one. *)
LEMMA FlushedIs ==
    ASSUME Coalescing, OnePending, NEW at \in Int
    PROVE  /\ ScrollFlushed \in Seq(Actions) /\ EditFlushed(at) \in Seq(Actions)
           /\ Flushed(at) \in Seq(Actions) /\ EditFlushed(at) \o ScrollFlushed = Flushed(at)
           /\ scroll = NoAction /\ edit = NoAction => Flushed(at) = <<>> /\ Pending = {}
           /\ scroll # NoAction => /\ Flushed(at) = <<scroll>> /\ EditFlushed(at) = <<>>
                                   /\ ScrollFlushed = <<scroll>> /\ Pending = {scroll}
           /\ edit # NoAction => /\ Flushed(at) = <<[edit EXCEPT !.at = at]>>
                                 /\ ScrollFlushed = <<>> /\ Pending = {edit}
                                 /\ EditFlushed(at) = <<[edit EXCEPT !.at = at]>>
                                 /\ [edit EXCEPT !.at = at] \in Actions
                                 /\ [edit EXCEPT !.at = at].places = edit.places
                                 /\ [edit EXCEPT !.at = at].at = at
<1>1. scroll \in Maybe /\ edit \in Maybe
  BY DEF Coalescing
<1>2. CASE scroll = NoAction /\ edit = NoAction
  BY <1>2 DEF ScrollFlushed, EditFlushed, Flushed, Pending
<1>3. CASE scroll # NoAction
  <2>1. edit = NoAction /\ scroll \in Actions
    BY <1>1, <1>3 DEF OnePending, Maybe
  <2>2. <<scroll>> \in Seq(Actions) /\ <<>> \o <<scroll>> = <<scroll>> /\ <<scroll>> \o <<>> = <<scroll>>
    BY <2>1
  <2>3. Pending = {scroll}
    BY <1>3, <2>1 DEF Pending
  <2>4. QED
    BY <1>3, <2>1, <2>2, <2>3 DEF ScrollFlushed, EditFlushed, Flushed
<1>4. CASE edit # NoAction
  <2> DEFINE x == [edit EXCEPT !.at = at]
  <2>1. scroll = NoAction /\ edit \in Actions
    BY <1>1, <1>4 DEF OnePending, Maybe
  <2>2. x \in Actions /\ x.places = edit.places /\ x.at = at
    BY <2>1 DEF Actions
  <2>3. Pending = {edit}
    BY <1>4, <2>1 DEF Pending
  <2>4. ScrollFlushed = <<>> /\ EditFlushed(at) = <<x>>
    BY <1>4, <2>1 DEF ScrollFlushed, EditFlushed
  <2> HIDE DEF x
  <2>5. <<x>> \in Seq(Actions) /\ <<>> \o <<x>> = <<x>> /\ <<x>> \o <<>> = <<x>>
    BY <2>2
  <2>6. Flushed(at) = <<x>> /\ EditFlushed(at) \o ScrollFlushed = Flushed(at)
    BY <2>4, <2>5 DEF Flushed
  <2>7. QED
    BY <1>4, <2>1, <2>2, <2>3, <2>4, <2>5, <2>6 DEF x
<1>5. QED
  BY <1>2, <1>3, <1>4

(* The four things the coalescer does with an input: it joins the pending    *)
(* action, or flushes it and keeps the input, emits it or drops it.          *)
Real(in) == in.kind \in {"act", "scroll", "edit"}

Joins ==
    /\ emitted' = emitted /\ hand' = <<>> /\ UNCHANGED <<last, repeats>>
    /\ \/ /\ scroll # NoAction /\ scroll' # NoAction /\ edit' = NoAction
          /\ scroll'.places = scroll.places \cup {Place}
       \/ /\ edit # NoAction /\ edit' # NoAction /\ scroll' = NoAction
          /\ edit'.places = edit.places \cup {Place}

Keeps(in) ==
    /\ Emit(Flushed(in.at)) /\ UNCHANGED <<last, repeats>>
    /\ \/ scroll' # NoAction /\ edit' = NoAction /\ scroll'.places = {Place} /\ Real(in)
       \/ edit' # NoAction /\ scroll' = NoAction /\ edit'.places = {Place} /\ Real(in)
       \/ scroll' = NoAction /\ edit' = NoAction /\ ~Real(in)

Drops(in) ==
    /\ Emit(Flushed(in.at)) /\ UNCHANGED last /\ repeats' = repeats \cup {Place}
    /\ scroll' = NoAction /\ edit' = NoAction
    /\ in.kind = "act" /\ Repeats(in)

Emits(in) ==
    /\ \E act \in Actions : /\ act.places = {Place} /\ act.at = in.at
                            /\ Emit(Append(Flushed(in.at), act))
    /\ last' = [last EXCEPT ![in.el] = [val |-> in.val, at |-> in.at]]
    /\ scroll' = NoAction /\ edit' = NoAction /\ UNCHANGED repeats
    /\ in.kind = "act"

LEMMA HandleIs ==
    ASSUME Coalescing, OnePending, NEW in \in Input, Handle(in)
    PROVE  /\ \/ Joins /\ Real(in) /\ in.kind # "act"
              \/ Keeps(in) /\ in.kind # "act"
              \/ Drops(in) \/ Emits(in)
           /\ scroll' \in {a \in Actions : a.at = in.at} \cup {NoAction}
           /\ edit' \in {a \in Actions : a.at = in.at} \cup {NoAction}
           /\ taken' = Append(taken, in)
<1>1. /\ in.kind \in Scoped \cup Global /\ in.at \in Nat /\ in.at \in Int
      /\ in.el \in Control /\ in.val \in {1, 2} /\ in.exe \in App
  BY DEF Input
<1>2. Place \in Nat /\ Place # 0 /\ {Place} \in SUBSET (Nat \ {0})
  BY DEF Place, Coalescing
<1>3. \A kind \in {"act", "scroll", "edit"} : \A P \in SUBSET (Nat \ {0}) : \A exe \in App :
        LET a == Action(kind, in.el, in.val, exe, in.at, P)
        IN  a \in Actions /\ a.places = P /\ a.at = in.at /\ a # NoAction
  BY <1>1, AbsentValues DEF Action, Actions
<1>4. taken' = Append(taken, in)
  BY DEF Handle
<1>5. CASE in.kind = "act"
  <2>1. HandleAct(in)
    BY <1>5 DEF Handle
  <2> DEFINE act == Action("act", in.el, in.val, in.exe, in.at, {Place})
  <2>2. act \in Actions /\ act.places = {Place} /\ act.at = in.at
    BY <1>1, <1>2, <1>3
  <2>3. /\ scroll' = NoAction /\ edit' = NoAction
        /\ IF Repeats(in)
           THEN /\ Emit(Flushed(in.at)) /\ repeats' = repeats \cup {Place} /\ UNCHANGED last
           ELSE /\ Emit(Append(Flushed(in.at), act))
                /\ last' = [last EXCEPT ![in.el] = [val |-> in.val, at |-> in.at]]
                /\ UNCHANGED repeats
    BY <2>1 DEF HandleAct
  <2> HIDE DEF act
  <2>4. Drops(in) \/ Emits(in)
    BY <1>5, <2>2, <2>3 DEF Drops, Emits
  <2>5. QED
    BY <1>4, <2>3, <2>4
<1>6. CASE in.kind = "scroll"
  <2>1. HandleScroll(in)
    BY <1>6 DEF Handle
  <2>2. CASE scroll # NoAction /\ scroll.el = in.el /\ scroll.val = in.val
    <3>1. scroll \in Actions /\ scroll.exe \in App /\ scroll.places \in SUBSET (Nat \ {0})
      BY <2>2 DEF Coalescing, Maybe, Actions
    <3>2. /\ scroll' = Action("scroll", in.el, in.val, scroll.exe, in.at, scroll.places \cup {Place})
          /\ Emit(EditFlushed(in.at) \o <<>>) /\ edit' = NoAction /\ UNCHANGED <<last, repeats>>
      BY <2>1, <2>2 DEF HandleScroll
    <3>3. EditFlushed(in.at) \o <<>> = <<>> /\ emitted \o <<>> = emitted
      BY <1>1, <2>2, FlushedIs, ConcatEmptySeq DEF Coalescing
    <3>4. scroll.places \cup {Place} \in SUBSET (Nat \ {0})
      BY <1>2, <3>1
    <3>5. /\ scroll' \in Actions /\ scroll'.at = in.at /\ scroll' # NoAction
          /\ scroll'.places = scroll.places \cup {Place}
      BY <1>3, <3>1, <3>2, <3>4
    <3>6. Joins
      BY <2>2, <3>2, <3>3, <3>5 DEF Joins, Emit
    <3>7. QED
      BY <1>4, <1>6, <3>2, <3>5, <3>6 DEF Real
  <2>3. CASE ~(scroll # NoAction /\ scroll.el = in.el /\ scroll.val = in.val)
    <3>1. /\ scroll' = Action("scroll", in.el, in.val, in.exe, in.at, {} \cup {Place})
          /\ Emit(EditFlushed(in.at) \o ScrollFlushed) /\ edit' = NoAction
          /\ UNCHANGED <<last, repeats>>
      BY <2>1, <2>3 DEF HandleScroll
    <3>2. EditFlushed(in.at) \o ScrollFlushed = Flushed(in.at) /\ {} \cup {Place} = {Place}
      BY <1>1, FlushedIs
    <3>3. scroll' \in Actions /\ scroll'.at = in.at /\ scroll' # NoAction /\ scroll'.places = {Place}
      BY <1>1, <1>2, <1>3, <3>1, <3>2
    <3>4. Keeps(in)
      BY <1>6, <3>1, <3>2, <3>3 DEF Keeps, Real
    <3>5. QED
      BY <1>4, <1>6, <3>1, <3>3, <3>4
  <2>4. QED
    BY <2>2, <2>3
<1>7. CASE in.kind = "edit"
  <2>1. HandleEdit(in)
    BY <1>7 DEF Handle
  <2>2. CASE edit # NoAction /\ edit.el = in.el
    <3>1. edit \in Actions /\ edit.places \in SUBSET (Nat \ {0})
      BY <2>2 DEF Coalescing, Maybe, Actions
    <3>2. /\ edit' = [edit EXCEPT !.at = in.at, !.places = @ \cup {Place}]
          /\ Emit(ScrollFlushed) /\ scroll' = NoAction /\ UNCHANGED <<last, repeats>>
      BY <2>1, <2>2 DEF HandleEdit
    <3>3. ScrollFlushed = <<>> /\ emitted \o <<>> = emitted
      BY <1>1, <2>2, FlushedIs, ConcatEmptySeq DEF Coalescing
    <3>4. edit' \in Actions /\ edit'.at = in.at /\ edit'.places = edit.places \cup {Place}
      BY <1>1, <1>2, <3>1, <3>2 DEF Actions
    <3>5. Joins
      BY <2>2, <3>2, <3>3, <3>4, AbsentValues DEF Joins, Emit
    <3>6. QED
      BY <1>4, <1>7, <3>2, <3>4, <3>5 DEF Real
  <2>3. CASE ~(edit # NoAction /\ edit.el = in.el)
    <3>1. /\ edit' = Action("edit", in.el, in.val, in.exe, in.at, {Place})
          /\ Emit(Flushed(in.at)) /\ scroll' = NoAction /\ UNCHANGED <<last, repeats>>
      BY <2>1, <2>3 DEF HandleEdit
    <3>2. edit' \in Actions /\ edit'.at = in.at /\ edit' # NoAction /\ edit'.places = {Place}
      BY <1>1, <1>2, <1>3, <3>1
    <3>3. Keeps(in)
      BY <1>7, <3>1, <3>2 DEF Keeps, Real
    <3>4. QED
      BY <1>4, <1>7, <3>1, <3>2, <3>3
  <2>4. QED
    BY <2>2, <2>3
<1>8. CASE in.kind \notin {"act", "scroll", "edit"}
  <2>1. HandleCommit(in)
    BY <1>8 DEF Handle
  <2>2. Keeps(in)
    BY <1>8, <2>1 DEF HandleCommit, Keeps, Real
  <2>3. QED
    BY <1>4, <1>8, <2>1, <2>2 DEF HandleCommit
<1>9. QED
  BY <1>5, <1>6, <1>7, <1>8

-----------------------------------------------------------------------------
(* Places.                                                                  *)

Out(e) == PlacesOf(ToSet(e))
Held(s, t) == PlacesOf({s, t} \ {NoAction})

(* The emissions e are in order, and Q comes after them. *)
Sorted(e, Q) ==
    /\ \A i, j \in 1 .. Len(e) : i < j => \A p \in e[i].places, q \in e[j].places : p < q
    /\ \A i \in 1 .. Len(e) : \A p \in e[i].places, q \in Q : p < q

LEMMA OutIs ==
    ASSUME NEW e \in Seq(Actions)
    PROVE  /\ \A p : p \in Out(e) <=> \E i \in 1 .. Len(e) : p \in e[i].places
           /\ Out(e) \subseteq Nat
<1>1. \A x : x \in ToSet(e) <=> \E i \in 1 .. Len(e) : x = e[i]
  BY Ranges
<1>2. \A i \in 1 .. Len(e) : e[i].places \subseteq Nat
  <2>1. \A i \in 1 .. Len(e) : e[i] \in Actions
    OBVIOUS
  <2>2. QED
    BY <2>1 DEF Actions
<1>3. \A p : p \in Out(e) <=> \E a \in ToSet(e) : p \in a.places
  BY DEF Out, PlacesOf
<1>4. \A p : p \in Out(e) <=> \E i \in 1 .. Len(e) : p \in e[i].places
  BY <1>1, <1>3
<1>5. QED
  BY <1>2, <1>4

LEMMA HeldIs ==
    /\ Held(NoAction, NoAction) = {}
    /\ \A s : s # NoAction => Held(s, NoAction) = s.places /\ Held(NoAction, s) = s.places
BY DEF Held, PlacesOf

LEMMA EmitOne ==
    ASSUME NEW e \in Seq(Actions), NEW x \in Actions, NEW Q, Sorted(e, x.places), Sorted(e, Q),
           \A p \in x.places, q \in Q : p < q
    PROVE  /\ Append(e, x) \in Seq(Actions) /\ Sorted(Append(e, x), Q)
           /\ Out(Append(e, x)) = Out(e) \cup x.places
<1> DEFINE f == Append(e, x)
<1>1. /\ f \in Seq(Actions) /\ Len(f) = Len(e) + 1 /\ Len(e) \in Nat
      /\ \A i \in 1 .. Len(e) : f[i] = e[i]
      /\ f[Len(e) + 1] = x
  BY Added
<1> HIDE DEF f
<1>2. \A i \in 1 .. Len(f) : i \in 1 .. Len(e) \/ i = Len(e) + 1
  BY <1>1
<1>3. Sorted(f, Q)
  <2>1. ASSUME NEW i \in 1 .. Len(f), NEW j \in 1 .. Len(f), i < j,
               NEW p \in f[i].places, NEW q \in f[j].places
        PROVE  p < q
    <3>1. i \in 1 .. Len(e)
      BY <1>1, <2>1
    <3>2. CASE j \in 1 .. Len(e)
      BY <1>1, <2>1, <3>1, <3>2 DEF Sorted
    <3>3. CASE j = Len(e) + 1
      BY <1>1, <2>1, <3>1, <3>3 DEF Sorted
    <3>4. QED
      BY <1>2, <3>2, <3>3
  <2>2. ASSUME NEW i \in 1 .. Len(f), NEW p \in f[i].places, NEW q \in Q PROVE p < q
    BY <1>1, <1>2 DEF Sorted
  <2>3. QED
    BY <2>1, <2>2 DEF Sorted
<1>4. Out(f) = Out(e) \cup x.places
  <2>1. ASSUME NEW p PROVE p \in Out(f) <=> p \in Out(e) \cup x.places
    <3>1. p \in Out(f) <=> \E i \in 1 .. Len(f) : p \in f[i].places
      BY <1>1, OutIs
    <3>2. p \in Out(e) <=> \E i \in 1 .. Len(e) : p \in e[i].places
      BY OutIs
    <3>3. Len(e) + 1 \in 1 .. Len(f) /\ 1 .. Len(e) \subseteq 1 .. Len(f)
      BY <1>1
    <3>4. QED
      BY <1>1, <1>2, <3>1, <3>2, <3>3
  <2>2. QED
    BY <2>1
<1>5. QED
  BY <1>1, <1>3, <1>4 DEF f

(* A flush emits what is pending, in its turn. *)
LEMMA FlushMoves ==
    ASSUME Coalescing, OnePending, NEW at \in Int, Sorted(emitted, Held(scroll, edit)),
           NEW Q, \A p \in Out(emitted) \cup Held(scroll, edit), q \in Q : p < q
    PROVE  /\ emitted \o Flushed(at) \in Seq(Actions) /\ Flushed(at) \in Seq(Actions)
           /\ Sorted(emitted \o Flushed(at), Q)
           /\ Out(emitted \o Flushed(at)) = Out(emitted) \cup Held(scroll, edit)
<1>1. emitted \in Seq(Actions) /\ scroll \in Maybe /\ edit \in Maybe
  BY DEF Coalescing
<1>2. Sorted(emitted, Q)
  BY <1>1, OutIs DEF Sorted
<1>3. CASE scroll = NoAction /\ edit = NoAction
  <2>1. Flushed(at) = <<>> /\ emitted \o <<>> = emitted
    BY <1>1, <1>3, FlushedIs, ConcatEmptySeq
  <2>2. QED
    BY <1>1, <1>2, <1>3, <2>1, HeldIs
<1>4. ASSUME NEW x \in Actions, Flushed(at) = <<x>>, x.places = Held(scroll, edit)
      PROVE  /\ emitted \o Flushed(at) \in Seq(Actions) /\ Flushed(at) \in Seq(Actions)
             /\ Sorted(emitted \o Flushed(at), Q)
             /\ Out(emitted \o Flushed(at)) = Out(emitted) \cup Held(scroll, edit)
  <2>1. emitted \o <<x>> = Append(emitted, x) /\ <<x>> \in Seq(Actions)
    BY <1>1, AppendIsConcat
  <2>2. QED
    BY <1>1, <1>2, <1>4, <2>1, EmitOne
<1>5. CASE scroll # NoAction
  <2>1. edit = NoAction /\ scroll \in Actions
    BY <1>1, <1>5 DEF OnePending, Maybe
  <2>2. QED
    BY <1>4, <1>5, <2>1, FlushedIs, HeldIs
<1>6. CASE edit # NoAction
  <2>1. scroll = NoAction
    BY <1>6 DEF OnePending
  <2>2. QED
    BY <1>4, <1>6, <2>1, FlushedIs, HeldIs
<1>7. QED
  BY <1>3, <1>5, <1>6

-----------------------------------------------------------------------------
(* What the coalescer keeps true.                                           *)

(* The last value of a control that was emitted, since when no other value   *)
(* of it was taken.                                                          *)
LastKnown ==
    \A c \in Control : last[c].val # 0 =>
       \E j \in 1 .. Len(taken) :
          /\ j \in Out(emitted) /\ taken[j].at = last[c].at
          /\ \A k \in j .. Len(taken) :
                taken[k].kind = "act" /\ taken[k].el = c => taken[k].val = last[c].val

Coalesced ==
    /\ OnePending
    /\ Sorted(emitted, Held(scroll, edit))
    /\ RealActions = Out(emitted) \cup Held(scroll, edit) \cup repeats
    /\ repeats \cap (Out(emitted) \cup Held(scroll, edit)) = {}
    /\ \A i \in repeats : taken[i].kind = "act" /\ IsRepeat(i)
    /\ LastKnown

(* An input more, and what was said before it stands. *)
LEMMA Longer ==
    ASSUME Coalescing, Coalesced, NEW in \in Input, taken' = Append(taken, in)
    PROVE  /\ Place \in Nat /\ Len(taken') = Place /\ taken'[Place] = in /\ 1 .. Len(taken) = 1 .. Place - 1
           /\ \A i \in 1 .. Len(taken) : taken'[i] = taken[i]
           /\ \A p \in Out(emitted) \cup Held(scroll, edit) \cup repeats : p \in Nat /\ p < Place /\ 1 <= p
           /\ RealActions' = RealActions \cup IF Real(in) THEN {Place} ELSE {}
<1>1. /\ Len(taken) \in Nat /\ Len(taken') = Len(taken) + 1 /\ taken'[Len(taken) + 1] = in
      /\ \A i \in 1 .. Len(taken) : taken'[i] = taken[i]
  BY Added DEF Coalescing
<1>2. RealActions \subseteq 1 .. Len(taken)
  BY DEF RealActions
<1>3. \A p \in Out(emitted) \cup Held(scroll, edit) \cup repeats : p \in Nat /\ p < Place /\ 1 <= p
  BY <1>1, <1>2 DEF Coalesced, Place
<1>4. ASSUME NEW i PROVE i \in RealActions' <=> i \in RealActions \cup IF Real(in) THEN {Place} ELSE {}
  <2>1. i \in 1 .. Len(taken') <=> i \in 1 .. Len(taken) \/ i = Len(taken) + 1
    BY <1>1
  <2>2. Len(taken) + 1 \notin 1 .. Len(taken)
    BY <1>1
  <2>3. QED
    BY <1>1, <2>1, <2>2 DEF RealActions, Real, Place
<1>5. QED
  BY <1>1, <1>3, <1>4 DEF Place

(* Repeats that were found stay repeats. *)
LEMMA StillRepeats ==
    ASSUME Coalescing, Coalesced, NEW in \in Input, taken' = Append(taken, in),
           Out(emitted) \subseteq Out(emitted'), NEW i \in repeats
    PROVE  taken'[i].kind = "act" /\ IsRepeat(i)'
<1>1. /\ Place \in Nat /\ 1 .. Len(taken) = 1 .. Place - 1 /\ i \in Nat /\ i < Place /\ 1 <= i
      /\ \A k \in 1 .. Len(taken) : taken'[k] = taken[k]
  BY Longer
<1>2. PICK j \in 1 .. i - 1 :
        /\ j \in Out(emitted)
        /\ taken[i].at - taken[j].at <= DedupWindow
        /\ \A k \in j .. i : (taken[k].kind = "act" /\ taken[k].el = taken[i].el)
                             => taken[k].val = taken[i].val
  BY DEF Coalesced, IsRepeat, Out
<1>3. i \in 1 .. Len(taken) /\ j \in 1 .. Len(taken) /\ j .. i \subseteq 1 .. Len(taken)
  BY <1>1, <1>2
<1>4. j \in Out(emitted')
  BY <1>2
<1>5. taken'[i] = taken[i] /\ taken'[j] = taken[j] /\ \A k \in j .. i : taken'[k] = taken[k]
  BY <1>1, <1>3
<1>6. IsRepeat(i)'
  BY <1>2, <1>4, <1>5 DEF IsRepeat, Out
<1>7. QED
  BY <1>5, <1>6 DEF Coalesced

(* What was last emitted of a control of which nothing else comes, too. *)
LEMMA StillLast ==
    ASSUME Coalescing, Coalesced, NEW in \in Input, taken' = Append(taken, in),
           Out(emitted) \subseteq Out(emitted'), NEW c \in Control, last'[c] = last[c],
           last[c].val # 0, in.kind = "act" /\ in.el = c => in.val = last[c].val
    PROVE  \E j \in 1 .. Len(taken') :
             /\ j \in Out(emitted') /\ taken'[j].at = last'[c].at
             /\ \A k \in j .. Len(taken') :
                  taken'[k].kind = "act" /\ taken'[k].el = c => taken'[k].val = last'[c].val
<1>1. /\ Place \in Nat /\ Len(taken') = Place /\ taken'[Place] = in
      /\ 1 .. Len(taken) = 1 .. Place - 1
      /\ \A k \in 1 .. Len(taken) : taken'[k] = taken[k]
  BY Longer
<1>2. PICK j \in 1 .. Len(taken) :
        /\ j \in Out(emitted) /\ taken[j].at = last[c].at
        /\ \A k \in j .. Len(taken) :
              taken[k].kind = "act" /\ taken[k].el = c => taken[k].val = last[c].val
  BY DEF Coalesced, LastKnown
<1>3. Len(taken) \in Nat /\ Len(taken) = Place - 1
  BY DEF Coalescing, Place
<1>4. ASSUME NEW k \in j .. Len(taken'), taken'[k].kind = "act", taken'[k].el = c
      PROVE  taken'[k].val = last'[c].val
  <2>1. k = Place \/ k \in j .. Len(taken)
    BY <1>1, <1>2, <1>3
  <2>2. CASE k = Place
    BY <1>1, <1>4, <2>2
  <2>3. CASE k \in j .. Len(taken)
    <3>1. k \in 1 .. Len(taken) /\ taken'[k] = taken[k]
      BY <1>1, <1>2, <1>3, <2>3
    <3>2. QED
      BY <1>2, <1>4, <2>3, <3>1
  <2>4. QED
    BY <2>1, <2>2, <2>3
<1>5. j \in 1 .. Len(taken') /\ taken'[j] = taken[j]
  BY <1>1, <1>2, <1>3
<1>6. QED
  BY <1>2, <1>4, <1>5

LEMMA HandleCoalesced ==
    ASSUME Coalescing, Coalesced, NEW in \in Input, Handle(in), hand = <<>>
    PROVE  Coalescing' /\ Coalesced'
<1>1. /\ \/ Joins /\ Real(in) /\ in.kind # "act"
         \/ Keeps(in) /\ in.kind # "act"
         \/ Drops(in) \/ Emits(in)
      /\ scroll' \in {a \in Actions : a.at = in.at} \cup {NoAction}
      /\ edit' \in {a \in Actions : a.at = in.at} \cup {NoAction}
      /\ taken' = Append(taken, in)
  BY HandleIs DEF Coalesced
<1>2. scroll' \in Maybe /\ edit' \in Maybe
  BY <1>1 DEF Maybe
<1>3. taken' \in Seq(Input)
  BY <1>1, Added DEF Coalescing
<1>4. /\ Place \in Nat /\ Len(taken') = Place /\ taken'[Place] = in /\ 1 .. Len(taken) = 1 .. Place - 1
      /\ \A i \in 1 .. Len(taken) : taken'[i] = taken[i]
      /\ \A p \in Out(emitted) \cup Held(scroll, edit) \cup repeats : p \in Nat /\ p < Place /\ 1 <= p
      /\ RealActions' = RealActions \cup IF Real(in) THEN {Place} ELSE {}
  BY <1>1, Longer
<1>5. in.at \in Int /\ in.at \in Nat /\ in.el \in Control /\ in.val \in {1, 2}
  BY DEF Input
<1> PICK n : n = Place
  OBVIOUS
<1>6. /\ emitted \o Flushed(in.at) \in Seq(Actions) /\ Flushed(in.at) \in Seq(Actions)
      /\ Sorted(emitted \o Flushed(in.at), {Place}) /\ Sorted(emitted \o Flushed(in.at), {})
      /\ Out(emitted \o Flushed(in.at)) = Out(emitted) \cup Held(scroll, edit)
  <2>1. Sorted(emitted, Held(scroll, edit)) /\ OnePending
    BY DEF Coalesced
  <2>2. \A Q : (\A p \in Out(emitted) \cup Held(scroll, edit), q \in Q : p < q) =>
           /\ emitted \o Flushed(in.at) \in Seq(Actions) /\ Flushed(in.at) \in Seq(Actions)
           /\ Sorted(emitted \o Flushed(in.at), Q)
           /\ Out(emitted \o Flushed(in.at)) = Out(emitted) \cup Held(scroll, edit)
    BY <1>5, <2>1, FlushMoves
  <2>3. \A p \in Out(emitted) \cup Held(scroll, edit), q \in {Place} : p < q
    BY <1>4
  <2>4. \A p \in Out(emitted) \cup Held(scroll, edit), q \in {} : p < q
    OBVIOUS
  <2>5. QED
    BY <2>2, <2>3, <2>4
<1>7. repeats \subseteq Nat /\ repeats \cup {Place} \subseteq Nat
  BY <1>4 DEF Coalescing
<1>8. OnePending'
  BY <1>1 DEF Joins, Keeps, Drops, Emits, OnePending
(* With the last known values of the controls, the rest is about places. *)
<1>9. ASSUME emitted' \in Seq(Actions), hand' \in Seq(Actions),
             last' \in [Control -> [val : {0, 1, 2}, at : Nat]], repeats' \subseteq Nat,
             Sorted(emitted', Held(scroll', edit')), Out(emitted) \subseteq Out(emitted'),
             Out(emitted') \cup Held(scroll', edit') \cup repeats'
                = Out(emitted) \cup Held(scroll, edit) \cup repeats
                  \cup IF Real(in) THEN {Place} ELSE {},
             repeats' \cap (Out(emitted') \cup Held(scroll', edit')) = {},
             repeats' = repeats \/ (repeats' = repeats \cup {Place} /\ in.kind = "act" /\ IsRepeat(n)'),
             LastKnown'
      PROVE  Coalescing' /\ Coalesced'
  <2>1. Coalescing'
    BY <1>2, <1>3, <1>9 DEF Coalescing
  <2>2. RealActions' = Out(emitted') \cup Held(scroll', edit') \cup repeats'
    BY <1>4, <1>9 DEF Coalesced
  <2>3. \A i \in repeats' : taken'[i].kind = "act" /\ IsRepeat(i)'
    BY <1>1, <1>4, <1>9, StillRepeats
  <2>4. QED
    BY <1>8, <1>9, <2>1, <2>2, <2>3 DEF Coalesced
(* Where the last value is as it was. *)
<1>10. ASSUME last' = last, Out(emitted) \subseteq Out(emitted'),
              in.kind = "act" => last[in.el].val = in.val
       PROVE  LastKnown'
  BY <1>1, <1>10, StillLast DEF LastKnown
<1>11. CASE Joins /\ Real(in) /\ in.kind # "act"
  <2>1. emitted' = emitted /\ hand' = <<>> /\ last' = last /\ repeats' = repeats
    BY <1>11 DEF Joins
  <2>2. Held(scroll', edit') = Held(scroll, edit) \cup {Place}
    <3>1. CASE /\ scroll # NoAction /\ scroll' # NoAction /\ edit' = NoAction
               /\ scroll'.places = scroll.places \cup {Place}
      <4>1. edit = NoAction
        BY <3>1 DEF Coalesced, OnePending
      <4>2. QED
        BY <3>1, <4>1, HeldIs
    <3>2. CASE /\ edit # NoAction /\ edit' # NoAction /\ scroll' = NoAction
               /\ edit'.places = edit.places \cup {Place}
      <4>1. scroll = NoAction
        BY <3>2 DEF Coalesced, OnePending
      <4>2. QED
        BY <3>2, <4>1, HeldIs
    <3>3. QED
      BY <1>11, <3>1, <3>2 DEF Joins
  <2>3. Sorted(emitted', Held(scroll', edit'))
    <3>1. Sorted(emitted, Held(scroll, edit)) /\ emitted \in Seq(Actions)
      BY DEF Coalesced, Coalescing
    <3>2. \A i \in 1 .. Len(emitted) : \A p \in emitted[i].places : p < Place
      BY <1>4, <3>1, OutIs
    <3>3. QED
      BY <2>1, <2>2, <3>1, <3>2 DEF Sorted
  <2>4. /\ Out(emitted') \cup Held(scroll', edit') \cup repeats'
             = Out(emitted) \cup Held(scroll, edit) \cup repeats \cup IF Real(in) THEN {Place} ELSE {}
        /\ repeats' \cap (Out(emitted') \cup Held(scroll', edit')) = {}
    <3>1. Place \notin repeats
      BY <1>4
    <3>2. QED
      BY <1>11, <2>1, <2>2, <3>1 DEF Coalesced
  <2>5. emitted' \in Seq(Actions) /\ hand' \in Seq(Actions)
        /\ last' \in [Control -> [val : {0, 1, 2}, at : Nat]]
    BY <2>1 DEF Coalescing
  <2>6. QED
    BY <1>7, <1>9, <1>10, <1>11, <2>1, <2>3, <2>4, <2>5
<1>12. CASE Keeps(in) /\ in.kind # "act"
  <2>1. /\ emitted' = emitted \o Flushed(in.at) /\ hand' = Flushed(in.at)
        /\ last' = last /\ repeats' = repeats
    BY <1>12 DEF Keeps, Emit
  <2>2. Held(scroll', edit') = IF Real(in) THEN {Place} ELSE {}
    BY <1>12, HeldIs DEF Keeps
  <2>3. Sorted(emitted', Held(scroll', edit'))
    BY <1>6, <2>1, <2>2
  <2>4. /\ Out(emitted') \cup Held(scroll', edit') \cup repeats'
             = Out(emitted) \cup Held(scroll, edit) \cup repeats \cup IF Real(in) THEN {Place} ELSE {}
        /\ repeats' \cap (Out(emitted') \cup Held(scroll', edit')) = {}
    <3>1. Place \notin repeats
      BY <1>4
    <3>2. QED
      BY <1>6, <2>1, <2>2, <3>1 DEF Coalesced
  <2>5. last' \in [Control -> [val : {0, 1, 2}, at : Nat]] /\ Out(emitted) \subseteq Out(emitted')
    BY <1>6, <2>1 DEF Coalescing
  <2>6. QED
    BY <1>6, <1>7, <1>9, <1>10, <1>12, <2>1, <2>3, <2>4, <2>5
<1>13. CASE Drops(in)
  <2>1. /\ emitted' = emitted \o Flushed(in.at) /\ hand' = Flushed(in.at)
        /\ last' = last /\ repeats' = repeats \cup {Place}
        /\ in.kind = "act" /\ Repeats(in) /\ Held(scroll', edit') = {}
    BY <1>13, HeldIs DEF Drops, Emit
  <2>2. Sorted(emitted', Held(scroll', edit'))
    BY <1>6, <2>1
  <2>3. /\ Out(emitted') \cup Held(scroll', edit') \cup repeats'
             = Out(emitted) \cup Held(scroll, edit) \cup repeats \cup IF Real(in) THEN {Place} ELSE {}
        /\ repeats' \cap (Out(emitted') \cup Held(scroll', edit')) = {}
    <3>1. Place \notin Out(emitted) \cup Held(scroll, edit)
      BY <1>4
    <3>2. QED
      BY <1>6, <2>1, <3>1 DEF Coalesced, Real
  <2>4. last' \in [Control -> [val : {0, 1, 2}, at : Nat]] /\ Out(emitted) \subseteq Out(emitted')
    BY <1>6, <2>1 DEF Coalescing
  <2>5. last[in.el].val = in.val /\ last[in.el].val # 0 /\ in.at - last[in.el].at <= DedupWindow
    BY <1>5, <2>1 DEF Repeats
  <2>6. IsRepeat(n)'
    <3>1. PICK j \in 1 .. Len(taken) :
            /\ j \in Out(emitted) /\ taken[j].at = last[in.el].at
            /\ \A k \in j .. Len(taken) :
                  taken[k].kind = "act" /\ taken[k].el = in.el => taken[k].val = last[in.el].val
      BY <1>5, <2>5 DEF Coalesced, LastKnown
    <3>2. j \in 1 .. Place - 1 /\ j \in Out(emitted') /\ taken'[j] = taken[j] /\ Len(taken) = Place - 1
          /\ Len(taken) \in Nat
      BY <1>4, <2>4, <3>1 DEF Coalescing, Place
    <3>3. ASSUME NEW k \in j .. Place, taken'[k].kind = "act", taken'[k].el = in.el
          PROVE  taken'[k].val = in.val
      <4>1. k = Place \/ (k \in j .. Len(taken) /\ k \in 1 .. Len(taken))
        BY <1>4, <3>2
      <4>2. QED
        BY <1>4, <2>5, <3>1, <3>3, <4>1
    <3>4. taken'[Place].at - taken'[j].at <= DedupWindow
      BY <1>4, <2>5, <3>1, <3>2
    <3>5. taken'[n] = in /\ j \in 1 .. n - 1 /\ taken'[n].at - taken'[j].at <= DedupWindow
      BY <1>4, <3>2, <3>4
    <3>6. \A k \in j .. n : taken'[k].kind = "act" /\ taken'[k].el = taken'[n].el
                              => taken'[k].val = taken'[n].val
      BY <3>3, <3>5
    <3>7. QED
      BY <3>2, <3>5, <3>6 DEF IsRepeat, Out
  <2>7. QED
    BY <1>6, <1>7, <1>9, <1>10, <2>1, <2>2, <2>3, <2>4, <2>5, <2>6
<1>14. CASE Emits(in)
  <2>1. PICK act \in Actions : act.places = {Place} /\ Emit(Append(Flushed(in.at), act))
    BY <1>14 DEF Emits
  <2>2. /\ hand' = Append(Flushed(in.at), act) /\ emitted' = emitted \o Append(Flushed(in.at), act)
        /\ last' = [last EXCEPT ![in.el] = [val |-> in.val, at |-> in.at]] /\ repeats' = repeats
        /\ in.kind = "act" /\ Held(scroll', edit') = {}
    BY <1>14, <2>1, HeldIs DEF Emits, Emit
  <2>3. emitted' = Append(emitted \o Flushed(in.at), act)
    <3>1. emitted \in Seq(Actions) /\ <<act>> \in Seq(Actions)
      BY DEF Coalescing
    <3>2. Append(Flushed(in.at), act) = Flushed(in.at) \o <<act>>
      BY <1>6, AppendIsConcat
    <3>3. Append(emitted \o Flushed(in.at), act) = (emitted \o Flushed(in.at)) \o <<act>>
      BY <1>6, AppendIsConcat
    <3>4. emitted \o (Flushed(in.at) \o <<act>>) = (emitted \o Flushed(in.at)) \o <<act>>
      BY <1>6, <3>1, ConcatAssociative
    <3>5. QED
      BY <2>2, <3>2, <3>3, <3>4
  <2>4. /\ emitted' \in Seq(Actions) /\ Sorted(emitted', Held(scroll', edit'))
        /\ Out(emitted') = Out(emitted) \cup Held(scroll, edit) \cup {Place}
    <3>1. Sorted(emitted \o Flushed(in.at), act.places)
      BY <1>6, <2>1
    <3>2. \A Q : Q = {} => \A p \in act.places, q \in Q : p < q
      OBVIOUS
    <3>3. /\ emitted' \in Seq(Actions) /\ Sorted(emitted', {})
          /\ Out(emitted') = Out(emitted \o Flushed(in.at)) \cup act.places
      BY <1>6, <2>3, <3>1, <3>2, EmitOne
    <3>4. QED
      BY <1>6, <2>1, <2>2, <3>3
  <2>5. hand' \in Seq(Actions)
    BY <1>6, <2>2, Added
  <2>6. /\ Out(emitted') \cup Held(scroll', edit') \cup repeats'
             = Out(emitted) \cup Held(scroll, edit) \cup repeats \cup IF Real(in) THEN {Place} ELSE {}
        /\ repeats' \cap (Out(emitted') \cup Held(scroll', edit')) = {}
    <3>1. Place \notin repeats
      BY <1>4
    <3>2. QED
      BY <2>2, <2>4, <3>1 DEF Coalesced, Real
  <2>7. last' \in [Control -> [val : {0, 1, 2}, at : Nat]] /\ last'[in.el] = [val |-> in.val, at |-> in.at]
        /\ \A c \in Control \ {in.el} : last'[c] = last[c]
    <3>1. [val |-> in.val, at |-> in.at] \in [val : {0, 1, 2}, at : Nat]
      BY <1>5
    <3>2. QED
      BY <1>5, <2>2, <3>1 DEF Coalescing
  <2>8. LastKnown'
    <3>1. ASSUME NEW c \in Control, last'[c].val # 0
          PROVE  \E j \in 1 .. Len(taken') :
                   /\ j \in Out(emitted') /\ taken'[j].at = last'[c].at
                   /\ \A k \in j .. Len(taken') :
                        taken'[k].kind = "act" /\ taken'[k].el = c => taken'[k].val = last'[c].val
      <4>1. CASE c = in.el
        <5>1. Place \in 1 .. Len(taken') /\ \A k \in Place .. Len(taken') : k = Place
          BY <1>4 DEF Coalescing, Place
        <5>2. Place \in Out(emitted') /\ taken'[Place].at = last'[c].at
              /\ taken'[Place].val = last'[c].val
          BY <1>4, <2>4, <2>7, <4>1
        <5>3. QED
          BY <5>1, <5>2
      <4>2. CASE c # in.el
        <5>1. Out(emitted) \subseteq Out(emitted')
          BY <2>4
        <5>2. last'[c] = last[c] /\ last[c].val # 0
          BY <2>7, <3>1, <4>2
        <5>3. taken' = Append(taken, in)
          BY <1>1
        <5>4. QED
          BY <4>2, <5>1, <5>2, <5>3, StillLast
      <4>3. QED
        BY <4>1, <4>2
    <3>2. QED
      BY <3>1 DEF LastKnown
  <2>9. QED
    BY <1>7, <1>9, <2>2, <2>4, <2>5, <2>6, <2>7, <2>8
<1>15. QED
  BY <1>1, <1>11, <1>12, <1>13, <1>14
-----------------------------------------------------------------------------
(* The state keeps its shape.                                               *)

(* The wall clock is only set when faults allow it, and the helper runs.     *)
Clocked == skew # 0 => lane = "helper" /\ "clock" \in Faults

Shape == Typed /\ Clocked

LEMMA ShapeInit == Init => Shape
<1>1. ASSUME Init PROVE Shape
  <2>1. [c \in Control |-> [val |-> 0, at |-> 0]] \in [Control -> [val : {0, 1, 2}, at : Nat]]
    OBVIOUS
  <2>2. Coalescing
    BY <1>1, <2>1 DEF Init, Coalescing, Maybe
  <2>3. QED
    BY <1>1, <2>2 DEF Init, Shape, Typed, Clocked
<1>2. QED
  BY <1>1

(* What the worker does leaves everything beyond its channel alone. *)
LEMMA ShapeHandled ==
    ASSUME Shape, Coalescing', raw' \in Seq(Event), target' \in App, out' \in Seq(Actions),
           UNCHANGED <<outside, lane, far, near, store>>
    PROVE  Shape'
BY DEF Shape, Typed, Clocked, outside, clock, far, near, store

LEMMA ShapeNear ==
    ASSUME Shape, UNCHANGED <<skew, thread, lane, out, far, store>>,
           now' \in Nat, front' \in App \cup {Self},
           cutoff' \in Nat \cup {Never}, pressed' \in Nat \cup {Never}
    PROVE  Shape'
BY DEF Shape, Typed, Clocked, Coalescing, thread, coalescer, far, store

LEMMA ShapeStep == Shape /\ Coalesced /\ [Next]_vars => Shape'
<1> SUFFICES ASSUME Shape, Coalesced, [Next]_vars PROVE Shape'
  OBVIOUS
<1>1. /\ now \in Nat /\ skew \in Int /\ lane \in Lanes
      /\ front \in App \cup {Self} /\ target \in App /\ raw \in Seq(Event)
      /\ Coalescing /\ out \in Seq(Actions)
      /\ writing \in Packets \cup {NoAction} /\ pipe \in Seq(Packets \cup {NoAction})
      /\ inbox \in Seq(Arrived) /\ stored \in Seq(Actions)
      /\ cutoff \in Nat \cup {Never} /\ pressed \in Nat \cup {Never}
      /\ OnePending /\ Typed
  BY DEF Shape, Typed, Coalesced
<1>2. hand \in Seq(Actions) /\ emitted \in Seq(Actions) /\ scroll \in Maybe /\ edit \in Maybe
  BY <1>1 DEF Coalescing
<1>3. ASSUME NEW in \in Input, Handle(in), hand = <<>> PROVE Coalescing'
  BY <1>1, <1>3, HandleCoalesced
<1>4. CASE Callback
  <2>1. PICK in \in Inputs[lane] :
          /\ in.kind \in Scoped => AppOf[in.el] = target
          /\ raw' = IF Len(raw) < QueueBound
                    THEN Append(raw, [kind |-> in.kind, el |-> in.el, val |-> in.val, at |-> now])
                    ELSE raw
    BY <1>4 DEF Callback
  <2>2. [kind |-> in.kind, el |-> in.el, val |-> in.val, at |-> now] \in Event
      BY <1>1, <2>1, WorkerConstants DEF Event
  <2>3. raw' \in Seq(Event)
    BY <1>1, <2>1, <2>2, Added
  <2>4. QED
    BY <1>1, <1>4, <2>3, ShapeHandled DEF Callback, Coalescing, coalescer
<1>5. CASE TakeScoped
  <2>1. PICK in \in Understood(Head(raw), target) : Handle(in)
    BY <1>5 DEF TakeScoped
  <2>2. raw # <<>> /\ hand = <<>>
    BY <1>5 DEF TakeScoped, Takes
  <2>3. Head(raw) \in Event /\ Tail(raw) \in Seq(Event)
    BY <1>1, <2>2, Taken
  <2>4. in \in Input
    BY <1>1, <2>1, <2>3, UnderstoodTyped
  <2>5. Coalescing'
    BY <1>3, <2>1, <2>2, <2>4
  <2>6. QED
    BY <1>1, <1>5, <2>3, <2>5, ShapeHandled DEF TakeScoped
<1>6. CASE TakeFocus
  <2>1. raw # <<>> /\ hand = <<>> /\ front \in App
    BY <1>1, <1>6 DEF TakeFocus, Takes
  <2>2. Head(raw) \in Event /\ Tail(raw) \in Seq(Event)
    BY <1>1, <2>1, Taken
  <2>3. Coalescing'
    <3>1. CASE \E in \in Understood(Head(raw), front) : Handle(in)
      BY <1>1, <1>3, <2>1, <2>2, <3>1, UnderstoodTyped
    <3>2. CASE UNCHANGED <<coalescer, hand>>
      BY <1>1, <3>2 DEF Coalescing, coalescer
    <3>3. QED
      BY <1>6, <3>1, <3>2 DEF TakeFocus
  <2>4. QED
    BY <1>1, <1>6, <2>1, <2>2, <2>3, ShapeHandled DEF TakeFocus
<1>7. CASE SkipFocus
  <2>1. Tail(raw) \in Seq(Event)
    BY <1>1, <1>7, Taken DEF SkipFocus, Takes
  <2>2. QED
    BY <1>1, <1>7, <2>1, ShapeHandled DEF SkipFocus, Coalescing, coalescer
<1>8. CASE FlushDue
  <2>1. scroll \in Actions /\ <<scroll>> \in Seq(Actions)
    BY <1>2, <1>8 DEF FlushDue, Maybe
  <2>2. emitted \o <<scroll>> \in Seq(Actions)
    BY <1>2, <2>1, ConcatProperties
  <2>3. Coalescing'
    BY <1>1, <1>8, <2>1, <2>2 DEF FlushDue, Emit, Coalescing, Maybe
  <2>4. QED
    BY <1>1, <1>8, <2>3, ShapeHandled DEF FlushDue
<1>9. CASE FlushAll
  <2>1. now \in Int
    BY <1>1
  <2>2. Flushed(now) \in Seq(Actions)
    BY <1>1, <2>1, FlushedIs
  <2>3. emitted \o Flushed(now) \in Seq(Actions)
    BY <1>2, <2>2, ConcatProperties
  <2>4. Coalescing'
    BY <1>1, <1>9, <2>2, <2>3 DEF FlushAll, Emit, Coalescing, Maybe
  <2>5. QED
    BY <1>1, <1>9, <2>4, ShapeHandled DEF FlushAll
<1>10. CASE SendAction
  <2>1. Head(hand) \in Actions /\ Tail(hand) \in Seq(Actions)
    BY <1>2, <1>10, Taken DEF SendAction
  <2>2. Append(out, Head(hand)) \in Seq(Actions)
    BY <1>1, <2>1, Added
  <2>3. QED
    BY <1>1, <1>10, <2>1, <2>2, ShapeHandled DEF SendAction, Coalescing, coalescer
<1>11. CASE EndWorker
  BY <1>1, <1>11, ShapeHandled DEF EndWorker, Coalescing, coalescer
<1>12. CASE WorkerPanics \/ HelperDies \/ Terminate
  <2>1. raw' = <<>> /\ hand' = <<>> /\ (out' = out \/ out' = <<>>)
        /\ (writing' = writing \/ writing' = NoAction)
        /\ UNCHANGED <<target, coalescer, clock, lane, pipe, inbox, stored, cutoff, pressed>>
    <3>1. CASE WorkerPanics
      BY <3>1 DEF WorkerPanics, KillWorker, far, near, store
    <3>2. CASE HelperDies
      BY <3>2 DEF HelperDies, KillHelper, KillWorker, near, store
    <3>3. CASE Terminate
      BY <3>3 DEF Terminate, KillHelper, KillWorker, outside, near, store
    <3>4. QED
      BY <1>12, <3>1, <3>2, <3>3
  <2>2. out' \in Seq(Actions) /\ writing' \in Packets \cup {NoAction}
    <3>1. out' \in Seq(Actions)
      BY <1>1, <2>1, NothingYet
    <3>2. writing' \in Packets \cup {NoAction}
      BY <1>1, <2>1
    <3>3. QED
      BY <3>1, <3>2
  <2>3. Coalescing'
    BY <1>1, <2>1, NothingYet DEF Coalescing, coalescer
  <2>4. raw' \in Seq(Event) /\ UNCHANGED <<now, skew, front>>
    BY <2>1, NothingYet DEF clock
  <2>5. Typed'
    BY <1>1, <2>1, <2>2, <2>3, <2>4 DEF Typed
  <2>6. Clocked'
    BY <2>1, <2>4 DEF Shape, Clocked
  <2>7. QED
    BY <2>5, <2>6 DEF Shape
<1>13. CASE HelperTake
  <2>1. Head(out) \in Actions /\ Tail(out) \in Seq(Actions)
    BY <1>1, <1>13, Taken DEF HelperTake
  <2>2. ToWire(Head(out)).at \in Int
    BY <1>1, <2>1 DEF ToWire, Actions
  <2>3. [act |-> Head(out), wire |-> ToWire(Head(out)).at] \in Packets
    BY <2>1, <2>2 DEF Packets
  <2>4. QED
    BY <1>1, <1>13, <2>1, <2>3 DEF HelperTake, Shape, Typed, Clocked, Coalescing, thread, coalescer,
       outside, clock, near, store
<1>14. CASE HelperWrite
  <2>1. Append(pipe, writing) \in Seq(Packets \cup {NoAction})
    BY <1>1, Added
  <2>2. QED
    BY <1>1, <1>14, <2>1 DEF HelperWrite, Shape, Typed, Clocked, Coalescing, thread, coalescer,
       outside, clock, near, store
<1>15. CASE HelperExits
  <2>1. Append(pipe, NoAction) \in Seq(Packets \cup {NoAction})
    BY <1>1, Added
  <2>2. pipe' \in Seq(Packets \cup {NoAction})
    BY <1>1, <1>15, <2>1 DEF HelperExits
  <2>3. QED
    BY <1>1, <1>15, <2>2 DEF HelperExits, Shape, Typed, Clocked, Coalescing, thread, coalescer,
       outside, clock, near, store
<1>16. CASE HelperWriteFails \/ HelperStops \/ BridgeEnds
  <2>1. (writing' = writing \/ writing' = NoAction) /\ (pipe' = pipe \/ pipe' = <<>>)
        /\ UNCHANGED <<clock, thread, out, lane, inbox, near, store>>
    <3>1. CASE HelperWriteFails \/ HelperStops
      BY <3>1 DEF HelperWriteFails, HelperStops, outside
    <3>2. CASE BridgeEnds
      BY <3>2 DEF BridgeEnds
    <3>3. QED
      BY <1>16, <3>1, <3>2
  <2>2. writing' \in Packets \cup {NoAction} /\ pipe' \in Seq(Packets \cup {NoAction})
    <3>1. pipe' \in Seq(Packets \cup {NoAction})
      BY <1>1, <2>1, NothingYet
    <3>2. writing' \in Packets \cup {NoAction}
      BY <1>1, <2>1
    <3>3. QED
      BY <3>1, <3>2
  <2>3. Coalescing'
    BY <1>1, <2>1 DEF Coalescing, thread, coalescer
  <2>4. QED
    BY <1>1, <2>1, <2>2, <2>3 DEF Shape, Typed, Clocked, thread, clock, near, store
<1>17. CASE BridgeReads
  <2>1. Head(pipe) \in Packets \cup {NoAction} /\ Tail(pipe) \in Seq(Packets \cup {NoAction})
    BY <1>1, <1>17, Taken DEF BridgeReads
  <2>2. inbox' \in Seq(Arrived)
    <3>1. CASE Head(pipe) = NoAction
      BY <1>1, <1>17, <3>1 DEF BridgeReads
    <3>2. CASE Head(pipe) # NoAction
      <4>1. Head(pipe).act \in Actions /\ Head(pipe).wire \in Int
        BY <2>1, <3>2 DEF Packets
      <4>2. [act |-> Head(pipe).act, at |-> FromWire(Head(pipe).wire)] \in Arrived
        BY <1>1, <4>1 DEF FromWire, Arrived
      <4>3. inbox' = Append(inbox, [act |-> Head(pipe).act, at |-> FromWire(Head(pipe).wire)])
        BY <1>17, <3>2 DEF BridgeReads
      <4>4. QED
        BY <1>1, <4>2, <4>3, Added
    <3>3. QED
      BY <3>1, <3>2
  <2>3. QED
    BY <1>1, <1>17, <2>1, <2>2 DEF BridgeReads, Shape, Typed, Clocked, Coalescing, thread, coalescer,
       outside, clock, near, store
<1>18. CASE WriterTakes
  <2>1. out' \in Seq(Actions) /\ inbox' \in Seq(Arrived) /\ stored' \in Seq(Actions)
    <3>1. CASE out # <<>> /\ Queue(Head(out), Head(out).at) /\ out' = Tail(out) /\ UNCHANGED inbox
      <4>1. Head(out) \in Actions /\ Tail(out) \in Seq(Actions)
        BY <1>1, <3>1, Taken
      <4>2. QED
        BY <1>1, <3>1, <4>1, Added DEF Queue
    <3>2. CASE /\ inbox # <<>> /\ Queue(Head(inbox).act, Head(inbox).at)
               /\ inbox' = Tail(inbox) /\ UNCHANGED out
      <4>1. Head(inbox) \in Arrived /\ Tail(inbox) \in Seq(Arrived)
        BY <1>1, <3>2, Taken
      <4>2. Head(inbox).act \in Actions
        BY <4>1 DEF Arrived
      <4>3. QED
        BY <1>1, <3>2, <4>1, <4>2, Added DEF Queue
    <3>3. QED
      BY <1>18, <3>1, <3>2 DEF WriterTakes
  <2>2. QED
    BY <1>1, <1>18, <2>1 DEF WriterTakes, Shape, Typed, Clocked, Coalescing, thread, coalescer,
       outside, clock, near
<1>19. CASE WriterCloses
  BY <1>1, <1>19 DEF WriterCloses, Shape, Typed, Clocked, Coalescing, thread, coalescer,
     outside, clock, far, near
<1>20. CASE AskStop \/ Panic \/ Frozen \/ HearStopped \/ Joined \/ Stall \/ Unstall \/ AppDies
  <2>1. UNCHANGED <<skew, thread, lane, out, far, store, now, front>>
    BY <1>20 DEF AskStop, Panic, Frozen, HearStopped, Joined, Stall, Unstall, AppDies, outside, clock
  <2>2. cutoff' \in Nat \cup {Never} /\ pressed' \in Nat \cup {Never}
    BY <1>1, <1>20 DEF AskStop, Panic, Frozen, HearStopped, Joined, Stall, Unstall, AppDies
  <2>3. QED
    BY <1>1, <2>1, <2>2, ShapeNear
<1>21. CASE Tick \/ Switch
  <2>1. now' \in Nat /\ front' \in App \cup {Self}
    BY <1>1, <1>21 DEF Tick, Switch
  <2>2. UNCHANGED <<skew, thread, lane, out, far, store, near>>
    BY <1>21 DEF Tick, Switch
  <2>3. QED
    BY <1>1, <2>1, <2>2, ShapeNear DEF near
<1>22. CASE WallStep
  <2>1. skew' \in Int
    BY <1>22, WorkerConstants DEF WallStep
  <2>2. QED
    BY <1>1, <1>22, <2>1 DEF WallStep, Fails, Shape, Typed, Clocked, Coalescing, thread, coalescer,
       far, near, store
<1>23. CASE UNCHANGED vars
  BY <1>1, <1>23 DEF vars, Shape, Typed, Clocked, Coalescing, thread, coalescer, outside, clock,
     far, near, store
<1>24. QED
  BY <1>4, <1>5, <1>6, <1>7, <1>8, <1>9, <1>10, <1>11, <1>12, <1>13, <1>14, <1>15, <1>16, <1>17,
     <1>18, <1>19, <1>20, <1>21, <1>22, <1>23
     DEF Next, WorkerNext, HelperNext, BridgeNext, WriterNext, TrayNext, Poll

-----------------------------------------------------------------------------
(* What the coalescer emits.                                                *)

LEMMA CoalescedStays ==
    ASSUME Coalesced, UNCHANGED coalescer PROVE Coalesced'
<1>1. Sorted(emitted, Held(scroll, edit))' = Sorted(emitted, Held(scroll, edit))
  BY DEF coalescer, Sorted, Held, PlacesOf
<1>2. RealActions' = RealActions /\ OnePending' = OnePending
  BY DEF coalescer, RealActions, OnePending
<1>3. Out(emitted') = Out(emitted) /\ Held(scroll', edit') = Held(scroll, edit)
  BY DEF coalescer
<1>4. \A i : IsRepeat(i)' = IsRepeat(i)
  BY DEF coalescer, IsRepeat
<1>5. LastKnown' = LastKnown
  BY <1>3 DEF coalescer, LastKnown
<1>6. QED
  BY <1>1, <1>2, <1>3, <1>4, <1>5 DEF coalescer, Coalesced

LEMMA CoalescedFlushed ==
    ASSUME Coalescing, Coalesced, NEW at \in Int, Emit(Flushed(at)),
           scroll' = NoAction, edit' = NoAction, UNCHANGED <<taken, last, repeats>>
    PROVE  Coalesced'
<1>1. emitted' = emitted \o Flushed(at) /\ Held(scroll', edit') = {} /\ OnePending'
  BY HeldIs DEF Emit, OnePending
<1>2. Sorted(emitted', {}) /\ Out(emitted') = Out(emitted) \cup Held(scroll, edit)
  <2>1. OnePending /\ Sorted(emitted, Held(scroll, edit))
    BY DEF Coalesced
  <2>2. \A Q : (\A p \in Out(emitted) \cup Held(scroll, edit), q \in Q : p < q) =>
           /\ Sorted(emitted \o Flushed(at), Q)
           /\ Out(emitted \o Flushed(at)) = Out(emitted) \cup Held(scroll, edit)
    BY <2>1, FlushMoves
  <2>3. \A p \in Out(emitted) \cup Held(scroll, edit), q \in {} : p < q
    OBVIOUS
  <2>4. QED
    BY <1>1, <2>2, <2>3
<1>3. RealActions' = RealActions
  BY DEF RealActions
<1>4. \A i : IsRepeat(i) => IsRepeat(i)'
  <2>1. Out(emitted) \subseteq Out(emitted')
    BY <1>2
  <2>2. QED
    BY <2>1 DEF IsRepeat, Out
<1>5. LastKnown'
  BY <1>2 DEF LastKnown, Coalesced
<1>6. QED
  BY <1>1, <1>2, <1>3, <1>4, <1>5 DEF Coalesced

LEMMA CoalescedInit == Init => Coalesced
<1> SUFFICES ASSUME Init PROVE Coalesced
  OBVIOUS
<1>1. scroll = NoAction /\ edit = NoAction /\ emitted = <<>> /\ repeats = {} /\ taken = <<>>
      /\ \A c \in Control : last[c].val = 0
  BY DEF Init
<1>2. Len(emitted) = 0 /\ Len(taken) = 0 /\ emitted \in Seq(Actions)
  BY <1>1
<1>3. Held(scroll, edit) = {}
  BY <1>1, HeldIs
<1>4. Out(emitted) = {}
  <2>1. \A p : p \in Out(emitted) <=> \E i \in 1 .. Len(emitted) : p \in emitted[i].places
    BY <1>2, OutIs
  <2>2. 1 .. Len(emitted) = {}
    BY <1>2
  <2>3. QED
    BY <2>1, <2>2
<1>5. RealActions = {}
  BY <1>2 DEF RealActions
<1>6. Sorted(emitted, Held(scroll, edit)) /\ OnePending /\ LastKnown
  BY <1>1, <1>2, <1>3 DEF Sorted, OnePending, LastKnown
<1>7. QED
  BY <1>1, <1>3, <1>4, <1>5, <1>6 DEF Coalesced

LEMMA CoalescedStep == Shape /\ Coalesced /\ [Next]_vars => Coalesced'
<1> SUFFICES ASSUME Shape, Coalesced, [Next]_vars PROVE Coalesced'
  OBVIOUS
<1>1. Typed /\ Coalescing /\ OnePending /\ now \in Nat /\ now \in Int
      /\ raw \in Seq(Event) /\ front \in App \cup {Self} /\ target \in App
  BY DEF Shape, Typed, Coalesced
<1>2. ASSUME raw # <<>>, hand = <<>>, NEW tgt \in App, NEW in \in Understood(Head(raw), tgt), Handle(in)
      PROVE  Coalesced'
  <2>1. Head(raw) \in Event
    BY <1>1, <1>2, Taken
  <2>2. in \in Input
    BY <1>1, <2>1, UnderstoodTyped
  <2>3. QED
    BY <1>1, <1>2, <2>2, HandleCoalesced
<1>3. CASE TakeScoped
  BY <1>1, <1>2, <1>3 DEF TakeScoped, Takes
<1>4. CASE TakeFocus
  <2>1. raw # <<>> /\ hand = <<>> /\ front \in App
    BY <1>1, <1>4 DEF TakeFocus, Takes
  <2>2. QED
    BY <1>2, <1>4, <2>1, CoalescedStays DEF TakeFocus
<1>5. CASE FlushDue
  <2>1. edit = NoAction /\ Flushed(now) = <<scroll>>
    BY <1>1, <1>5, FlushedIs DEF FlushDue, OnePending
  <2>2. QED
    BY <1>1, <1>5, <2>1, CoalescedFlushed DEF FlushDue
<1>6. CASE FlushAll
  BY <1>1, <1>6, CoalescedFlushed DEF FlushAll
<1>7. CASE UNCHANGED coalescer
  BY <1>7, CoalescedStays
<1>8. CASE Callback \/ SkipFocus \/ SendAction \/ EndWorker \/ WorkerPanics \/ HelperDies \/ Terminate
  BY <1>7, <1>8 DEF Callback, SkipFocus, SendAction, EndWorker, WorkerPanics, HelperDies, Terminate,
     KillHelper
<1>9. CASE HelperNext \/ BridgeNext \/ WriterNext
  BY <1>7, <1>9 DEF HelperNext, BridgeNext, WriterNext, HelperTake, HelperWrite, HelperWriteFails,
     HelperStops, HelperExits, BridgeReads, BridgeEnds, WriterTakes, WriterCloses, thread
<1>10. CASE \/ AskStop \/ Panic \/ Frozen \/ HearStopped \/ Joined \/ Stall \/ Unstall \/ AppDies
            \/ Tick \/ Switch \/ WallStep
  BY <1>7, <1>10 DEF AskStop, Panic, Frozen, HearStopped, Joined, Stall, Unstall, AppDies, Tick,
     Switch, WallStep, thread
<1>11. CASE UNCHANGED vars
  BY <1>7, <1>11 DEF vars, thread
<1>12. QED
  BY <1>3, <1>4, <1>5, <1>6, <1>8, <1>9, <1>10, <1>11
     DEF Next, WorkerNext, TrayNext, Poll

LEMMA CoalescedFaithful ==
    ASSUME Coalescing, Coalesced PROVE Faithful
<1>1. Out(emitted) = PlacesOf(ToSet(emitted)) /\ Held(scroll, edit) = PlacesOf(Pending)
  BY DEF Out, Held, Pending
<1>2. emitted \in Seq(Actions) /\ DOMAIN emitted = 1 .. Len(emitted)
  BY DEF Coalescing
<1>3. \A p \in Out(emitted), q \in Held(scroll, edit) : p < q
  BY <1>2, OutIs DEF Coalesced, Sorted
<1>4. Cardinality(Pending) <= 1
  <2>1. Pending = {} \/ \E x : Pending = {x}
    BY DEF Pending, Coalesced, OnePending
  <2>2. CASE Pending = {}
    BY <2>2, FS_EmptySet
  <2>3. CASE \E x : Pending = {x}
    <3>1. PICK x : Pending = {x}
      BY <2>3
    <3>2. Cardinality({x}) = 1
      BY FS_Singleton
    <3>3. QED
      BY <3>1, <3>2
  <2>4. QED
    BY <2>1, <2>2, <2>3
<1>5. InOrder
  BY <1>1, <1>2, <1>3, <1>4 DEF InOrder, Coalesced, Sorted
<1>6. QED
  BY <1>1, <1>5 DEF Faithful, Coalesced

(* The state has its shape and the coalescer is true to its inputs, always.  *)
THEOREM WorkerInvariant == Spec => [](Shape /\ Coalesced)
<1>1. Init => Shape /\ Coalesced
  BY ShapeInit, CoalescedInit
<1>2. Shape /\ Coalesced /\ [Next]_vars => (Shape /\ Coalesced)'
  BY ShapeStep, CoalescedStep
<1>3. QED
  BY <1>1, <1>2, PTL DEF Spec

(* The coalescer (ActionCoalescer::handle, flush_due, flush_all) loses no     *)
(* action, says none twice and keeps their order, whatever the lane reports,  *)
(* wherever the worker runs and however it ends.                              *)
THEOREM CoalescerIsFaithful == Spec => []Faithful
<1>1. Shape /\ Coalesced => Faithful
  BY CoalescedFaithful DEF Shape, Typed
<1>2. QED
  BY <1>1, WorkerInvariant, PTL

-----------------------------------------------------------------------------
(* The panic fence.                                                         *)

(* While the wall clock is not set, an action keeps its instant on its way   *)
(* through the helper, and no instant is in the future.                      *)
Past(t) == {a \in Actions : a.at <= t}
PastEvents(t) == {e \in Event : e.at <= t}
Sent(t) == {p \in Packets : p.act \in Past(t) /\ p.wire = p.act.at} \cup {NoAction}
Got(t) == {r \in Arrived : r.act \in Past(t) /\ r.at = r.act.at}

Timed ==
    /\ raw \in Seq(PastEvents(now))
    /\ scroll \in Past(now) \cup {NoAction} /\ edit \in Past(now) \cup {NoAction}
    /\ hand \in Seq(Past(now)) /\ out \in Seq(Past(now))
    /\ writing \in Sent(now) /\ pipe \in Seq(Sent(now)) /\ inbox \in Seq(Got(now))
    /\ stored \in Seq(Past(now))

(* The fence is lifted only when the recording is closed, and what was stored *)
(* before it was armed is older than the panic key.                          *)
Fenced ==
    /\ pressed # Never /\ open => cutoff = pressed
    /\ pressed # Never => stored \in Seq(Past(pressed))

LEMMA FlushedPast ==
    ASSUME Coalescing, OnePending, Timed, NEW at \in Int, at <= now
    PROVE  Flushed(at) \in Seq(Past(now)) /\ ScrollFlushed \in Seq(Past(now))
<1>1. CASE scroll = NoAction /\ edit = NoAction
  BY <1>1, FlushedIs DEF ScrollFlushed
<1>2. CASE scroll # NoAction
  <2>1. Flushed(at) = <<scroll>> /\ ScrollFlushed = <<scroll>>
    BY <1>2, FlushedIs
  <2>2. scroll \in Past(now)
    BY <1>2 DEF Timed
  <2>3. QED
    BY <2>1, <2>2
<1>3. CASE edit # NoAction
  <2> DEFINE x == [edit EXCEPT !.at = at]
  <2>1. Flushed(at) = <<x>> /\ ScrollFlushed = <<>> /\ x \in Actions /\ x.at = at
    BY <1>3, FlushedIs
  <2> HIDE DEF x
  <2>2. x \in Past(now)
    BY <2>1 DEF Past
  <2>3. QED
    BY <2>1, <2>2
<1>4. QED
  BY <1>1, <1>2, <1>3

LEMMA HandlePast ==
    ASSUME Coalescing, OnePending, Timed, now \in Nat, NEW in \in Input, in.at <= now, Handle(in)
    PROVE  /\ scroll' \in Past(now) \cup {NoAction} /\ edit' \in Past(now) \cup {NoAction}
           /\ hand' \in Seq(Past(now))
<1>1. /\ Joins \/ Keeps(in) \/ Drops(in) \/ Emits(in)
      /\ scroll' \in {a \in Actions : a.at = in.at} \cup {NoAction}
      /\ edit' \in {a \in Actions : a.at = in.at} \cup {NoAction}
  BY HandleIs
<1>2. in.at \in Int /\ in.at \in Nat
  BY DEF Input
<1>3. Flushed(in.at) \in Seq(Past(now))
  BY <1>2, FlushedPast
<1>4. scroll' \in Past(now) \cup {NoAction} /\ edit' \in Past(now) \cup {NoAction}
  BY <1>1 DEF Past
<1>5. CASE Joins
  BY <1>4, <1>5, NothingYet DEF Joins
<1>6. CASE Keeps(in)
  BY <1>3, <1>4, <1>6 DEF Keeps, Emit
<1>7. CASE Drops(in)
  BY <1>3, <1>4, <1>7 DEF Drops, Emit
<1>8. CASE Emits(in)
  <2>1. PICK act \in Actions : act.at = in.at /\ Emit(Append(Flushed(in.at), act))
    BY <1>8 DEF Emits
  <2>2. act \in Past(now)
    BY <2>1 DEF Past
  <2>3. hand' = Append(Flushed(in.at), act)
    BY <2>1 DEF Emit
  <2>4. QED
    BY <1>3, <1>4, <2>2, <2>3, Added
<1>9. QED
  BY <1>1, <1>5, <1>6, <1>7, <1>8

LEMMA TimedInit == Init => Timed /\ Fenced
<1> SUFFICES ASSUME Init PROVE Timed /\ Fenced
  OBVIOUS
<1>1. raw = <<>> /\ hand = <<>> /\ out = <<>> /\ pipe = <<>> /\ inbox = <<>> /\ stored = <<>>
      /\ scroll = NoAction /\ edit = NoAction /\ writing = NoAction /\ pressed = Never
  BY DEF Init
<1>2. QED
  BY <1>1, NothingYet DEF Timed, Fenced, Sent

(* Time passes, and what was past is. *)
LEMMA TimePasses ==
    ASSUME Typed, NEW t \in Nat, NEW u \in Nat, t <= u
    PROVE  /\ Past(t) \subseteq Past(u) /\ PastEvents(t) \subseteq PastEvents(u)
           /\ Sent(t) \subseteq Sent(u) /\ Got(t) \subseteq Got(u)
<1>1. Past(t) \subseteq Past(u)
  BY DEF Past, Actions
<1>2. PastEvents(t) \subseteq PastEvents(u)
  BY DEF PastEvents, Event
<1>3. QED
  BY <1>1, <1>2 DEF Sent, Got

LEMMA TimedWorker ==
    ASSUME Shape, Coalesced, Timed, WorkerNext \/ Callback PROVE Timed'
<1>1. Typed /\ Coalescing /\ OnePending /\ now \in Nat /\ now \in Int /\ now <= now
      /\ front \in App \cup {Self} /\ target \in App
  BY DEF Shape, Typed, Coalesced
<1>2. /\ raw \in Seq(PastEvents(now)) /\ hand \in Seq(Past(now)) /\ out \in Seq(Past(now))
      /\ scroll \in Past(now) \cup {NoAction} /\ edit \in Past(now) \cup {NoAction}
  BY DEF Timed
<1>3. /\ now' = now /\ writing' = writing /\ pipe' = pipe /\ inbox' = inbox /\ stored' = stored
  BY DEF WorkerNext, Callback, TakeScoped, TakeFocus, SkipFocus, FlushDue, FlushAll, SendAction,
     EndWorker, outside, clock, far, store
<1>4. ASSUME raw' \in Seq(PastEvents(now)), hand' \in Seq(Past(now)), out' \in Seq(Past(now)),
             scroll' \in Past(now) \cup {NoAction}, edit' \in Past(now) \cup {NoAction}
      PROVE  Timed'
  BY <1>3, <1>4 DEF Timed
<1>5. CASE Callback
  <2>1. PICK in \in Inputs[lane] :
          raw' = IF Len(raw) < QueueBound
                 THEN Append(raw, [kind |-> in.kind, el |-> in.el, val |-> in.val, at |-> now])
                 ELSE raw
    BY <1>5 DEF Callback
  <2>2. lane \in Lanes
    BY DEF Shape, Typed
  <2>3. [kind |-> in.kind, el |-> in.el, val |-> in.val, at |-> now] \in PastEvents(now)
    BY <1>1, <2>1, <2>2, WorkerConstants DEF Event, PastEvents
  <2>4. raw' \in Seq(PastEvents(now))
    BY <1>2, <2>1, <2>3, Added
  <2>5. QED
    BY <1>2, <1>4, <1>5, <2>4 DEF Callback, coalescer
<1>6. ASSUME raw # <<>>, hand = <<>>
      PROVE  /\ Tail(raw) \in Seq(PastEvents(now))
             /\ \A tgt \in App : \A in \in Understood(Head(raw), tgt) : Handle(in) =>
                   /\ scroll' \in Past(now) \cup {NoAction} /\ edit' \in Past(now) \cup {NoAction}
                   /\ hand' \in Seq(Past(now))
  <2>1. Head(raw) \in PastEvents(now) /\ Tail(raw) \in Seq(PastEvents(now))
    BY <1>2, <1>6, Taken
  <2>2. Head(raw) \in Event /\ Head(raw).at <= now
    BY <2>1 DEF PastEvents
  <2>3. \A tgt \in App : \A in \in Understood(Head(raw), tgt) : in \in Input /\ in.at <= now
    BY <1>1, <2>2, UnderstoodTyped
  <2>4. QED
    BY <1>1, <2>1, <2>3, HandlePast
<1>7. CASE TakeScoped
  BY <1>1, <1>2, <1>4, <1>6, <1>7 DEF TakeScoped, Takes
<1>8. CASE TakeFocus
  <2>1. raw # <<>> /\ hand = <<>> /\ front \in App
    BY <1>1, <1>8 DEF TakeFocus, Takes
  <2>2. CASE \E in \in Understood(Head(raw), front) : Handle(in)
    BY <1>2, <1>4, <1>6, <1>8, <2>1, <2>2 DEF TakeFocus
  <2>3. CASE UNCHANGED <<coalescer, hand>>
    BY <1>2, <1>4, <1>6, <1>8, <2>1, <2>3 DEF TakeFocus, coalescer
  <2>4. QED
    BY <1>8, <2>2, <2>3 DEF TakeFocus
<1>9. CASE SkipFocus
  <2>1. Tail(raw) \in Seq(PastEvents(now))
    BY <1>2, <1>9, Taken DEF SkipFocus, Takes
  <2>2. QED
    BY <1>2, <1>4, <1>9, <2>1 DEF SkipFocus, coalescer
<1>10. CASE FlushDue
  <2>1. scroll \in Past(now) /\ <<scroll>> \in Seq(Past(now))
    BY <1>2, <1>10 DEF FlushDue
  <2>2. QED
    BY <1>2, <1>4, <1>10, <2>1 DEF FlushDue, Emit
<1>11. CASE FlushAll
  <2>1. Flushed(now) \in Seq(Past(now))
    BY <1>1, FlushedPast
  <2>2. QED
    BY <1>2, <1>4, <1>11, <2>1, NothingYet DEF FlushAll, Emit
<1>12. CASE SendAction
  <2>1. Head(hand) \in Past(now) /\ Tail(hand) \in Seq(Past(now))
    BY <1>2, <1>12, Taken DEF SendAction
  <2>2. Append(out, Head(hand)) \in Seq(Past(now))
    BY <1>2, <2>1, Added
  <2>3. QED
    BY <1>2, <1>4, <1>12, <2>1, <2>2 DEF SendAction, coalescer
<1>13. CASE EndWorker
  BY <1>2, <1>4, <1>13 DEF EndWorker, coalescer
<1>14. QED
  BY <1>5, <1>7, <1>8, <1>9, <1>10, <1>11, <1>12, <1>13 DEF WorkerNext

LEMMA TimedLane ==
    ASSUME Shape, Timed, skew = 0, HelperNext \/ BridgeNext PROVE Timed'
<1>1. now \in Nat /\ now' = now /\ stored' = stored /\ raw' = raw /\ scroll' = scroll
      /\ edit' = edit /\ hand' = hand
  BY DEF Shape, Typed, HelperNext, BridgeNext, HelperTake, HelperWrite, HelperWriteFails, HelperStops,
     HelperExits, BridgeReads, BridgeEnds, outside, clock, thread, coalescer, store
<1>2. /\ out \in Seq(Past(now)) /\ writing \in Sent(now) /\ pipe \in Seq(Sent(now))
      /\ inbox \in Seq(Got(now)) /\ NoAction \in Sent(now)
  BY DEF Timed, Sent
<1>3. ASSUME out' \in Seq(Past(now)), writing' \in Sent(now), pipe' \in Seq(Sent(now)),
             inbox' \in Seq(Got(now))
      PROVE  Timed'
  BY <1>1, <1>3 DEF Timed
<1>4. CASE HelperTake
  <2>1. Head(out) \in Past(now) /\ Tail(out) \in Seq(Past(now))
    BY <1>2, <1>4, Taken DEF HelperTake
  <2>2. Head(out) \in Actions /\ ToWire(Head(out)).at = Head(out).at /\ Head(out).at \in Int
    BY <2>1 DEF ToWire, Past, Actions
  <2>3. [act |-> Head(out), wire |-> ToWire(Head(out)).at] \in Sent(now)
    BY <2>1, <2>2 DEF Sent, Packets
  <2>4. QED
    BY <1>2, <1>3, <1>4, <2>1, <2>3 DEF HelperTake
<1>5. CASE HelperWrite
  <2>1. Append(pipe, writing) \in Seq(Sent(now))
    BY <1>2, Added
  <2>2. QED
    BY <1>2, <1>3, <1>5, <2>1 DEF HelperWrite
<1>6. CASE HelperWriteFails \/ HelperStops
  BY <1>2, <1>3, <1>6 DEF HelperWriteFails, HelperStops
<1>7. CASE HelperExits
  <2>1. Append(pipe, NoAction) \in Seq(Sent(now))
    BY <1>2, Added
  <2>2. QED
    BY <1>2, <1>3, <1>7, <2>1, NothingYet DEF HelperExits
<1>8. CASE BridgeReads
  <2>1. Head(pipe) \in Sent(now) /\ Tail(pipe) \in Seq(Sent(now))
    BY <1>2, <1>8, Taken DEF BridgeReads
  <2>2. CASE Head(pipe) = NoAction
    BY <1>2, <1>3, <1>8, <2>1, <2>2 DEF BridgeReads
  <2>3. CASE Head(pipe) # NoAction
    <3>1. Head(pipe).act \in Past(now) /\ Head(pipe).wire = Head(pipe).act.at
      BY <2>1, <2>3 DEF Sent
    <3>2. Head(pipe).act \in Actions /\ Head(pipe).act.at \in Int /\ Head(pipe).act.at <= now
      BY <3>1 DEF Past, Actions
    <3>3. FromWire(Head(pipe).wire) = Head(pipe).act.at
      BY <1>1, <3>1, <3>2 DEF FromWire
    <3>4. [act |-> Head(pipe).act, at |-> FromWire(Head(pipe).wire)] \in Got(now)
      BY <3>1, <3>2, <3>3 DEF Got, Arrived
    <3>5. inbox' \in Seq(Got(now))
      <4>1. inbox' = Append(inbox, [act |-> Head(pipe).act, at |-> FromWire(Head(pipe).wire)])
        BY <1>8, <2>3 DEF BridgeReads
      <4>2. QED
        BY <1>2, <3>4, <4>1, Added
    <3>6. QED
      BY <1>2, <1>3, <1>8, <2>1, <3>5 DEF BridgeReads
  <2>4. QED
    BY <2>2, <2>3
<1>9. CASE BridgeEnds
  BY <1>2, <1>3, <1>9, NothingYet DEF BridgeEnds
<1>10. QED
  BY <1>4, <1>5, <1>6, <1>7, <1>8, <1>9 DEF HelperNext, BridgeNext

(* The writer stores what its lane gives it, unless the fence rejects it. *)
LEMMA TimedWriter ==
    ASSUME Shape, Timed, Fenced, WriterTakes PROVE Timed' /\ Fenced'
<1>1. /\ now \in Nat /\ out \in Seq(Past(now)) /\ inbox \in Seq(Got(now)) /\ stored \in Seq(Past(now))
      /\ stored \in Seq(Actions) /\ cutoff \in Nat \cup {Never} /\ pressed \in Nat \cup {Never}
  BY DEF Timed, Shape, Typed
<1>2. /\ now' = now /\ raw' = raw /\ scroll' = scroll /\ edit' = edit /\ hand' = hand
      /\ writing' = writing /\ pipe' = pipe /\ open' = open /\ cutoff' = cutoff /\ pressed' = pressed
  BY DEF WriterTakes, outside, clock, thread, coalescer, near
<1>3. ASSUME NEW act \in Past(now), Queue(act, act.at)
      PROVE  /\ stored' \in Seq(Past(now))
             /\ pressed # Never => stored' \in Seq(Past(pressed))
  <2>1. stored' \in Seq(Past(now))
    BY <1>1, <1>3, Added DEF Queue
  <2>2. ASSUME pressed # Never PROVE stored' \in Seq(Past(pressed))
    <3>1. stored \in Seq(Past(pressed))
      BY <2>2 DEF Fenced
    <3>2. CASE open /\ ~Rejects(act.at)
      <4>1. cutoff = pressed /\ cutoff \in Nat
        BY <1>1, <2>2, <3>2 DEF Fenced
      <4>2. act \in Actions /\ act.at \in Int
        BY DEF Past, Actions
      <4>3. act.at < cutoff
        BY <2>2, <3>2, <4>1, <4>2 DEF Rejects
      <4>4. act \in Past(pressed)
        BY <4>1, <4>2, <4>3 DEF Past
      <4>5. QED
        BY <1>3, <3>1, <3>2, <4>4, Added DEF Queue
    <3>3. CASE ~(open /\ ~Rejects(act.at))
      BY <1>3, <3>1, <3>3 DEF Queue
    <3>4. QED
      BY <3>2, <3>3
  <2>3. QED
    BY <2>1, <2>2
<1>4. ASSUME stored' \in Seq(Past(now)), pressed # Never => stored' \in Seq(Past(pressed)),
             out' \in Seq(Past(now)), inbox' \in Seq(Got(now))
      PROVE  Timed' /\ Fenced'
  <2>1. Timed'
    BY <1>2, <1>4 DEF Timed
  <2>2. Fenced'
    BY <1>2, <1>4 DEF Fenced
  <2>3. QED
    BY <2>1, <2>2
<1>5. CASE out # <<>> /\ Queue(Head(out), Head(out).at) /\ out' = Tail(out) /\ UNCHANGED inbox
  <2>1. Head(out) \in Past(now) /\ Tail(out) \in Seq(Past(now))
    BY <1>1, <1>5, Taken
  <2>2. QED
    BY <1>1, <1>3, <1>4, <1>5, <2>1
<1>6. CASE /\ inbox # <<>> /\ Queue(Head(inbox).act, Head(inbox).at)
           /\ inbox' = Tail(inbox) /\ UNCHANGED out
  <2>1. Head(inbox) \in Got(now) /\ Tail(inbox) \in Seq(Got(now))
    BY <1>1, <1>6, Taken
  <2>2. Head(inbox).act \in Past(now) /\ Head(inbox).at = Head(inbox).act.at
    BY <2>1 DEF Got
  <2>3. QED
    BY <1>1, <1>3, <1>4, <1>6, <2>1, <2>2
<1>7. QED
  BY <1>5, <1>6 DEF WriterTakes

LEMMA TimedStep ==
    Shape /\ Coalesced /\ Timed /\ Fenced /\ skew = 0 /\ [Next]_vars => Timed' /\ Fenced'
<1> SUFFICES ASSUME Shape, Coalesced, Timed, Fenced, skew = 0, [Next]_vars PROVE Timed' /\ Fenced'
  OBVIOUS
<1>1. now \in Nat /\ Typed
  BY DEF Shape, Typed
<1>2. /\ raw \in Seq(PastEvents(now))
      /\ scroll \in Past(now) \cup {NoAction} /\ edit \in Past(now) \cup {NoAction}
      /\ hand \in Seq(Past(now)) /\ out \in Seq(Past(now))
      /\ writing \in Sent(now) /\ pipe \in Seq(Sent(now)) /\ inbox \in Seq(Got(now))
      /\ stored \in Seq(Past(now)) /\ NoAction \in Sent(now)
  BY DEF Timed, Sent
<1>3. ASSUME UNCHANGED <<pressed, open, cutoff, stored>> PROVE Fenced'
  BY <1>3 DEF Fenced
<1>4. CASE WorkerNext \/ Callback
  <2>1. UNCHANGED <<pressed, open, cutoff, stored>>
    BY <1>4 DEF WorkerNext, Callback, TakeScoped, TakeFocus, SkipFocus, FlushDue, FlushAll,
       SendAction, EndWorker, near, store
  <2>2. QED
    BY <1>3, <1>4, <2>1, TimedWorker
<1>5. CASE HelperNext \/ BridgeNext
  <2>1. UNCHANGED <<pressed, open, cutoff, stored>>
    BY <1>5 DEF HelperNext, BridgeNext, HelperTake, HelperWrite, HelperWriteFails, HelperStops,
       HelperExits, BridgeReads, BridgeEnds, near, store
  <2>2. QED
    BY <1>3, <1>5, <2>1, TimedLane
<1>6. CASE WriterTakes
  BY <1>6, TimedWriter
<1>7. CASE WriterCloses
  <2>1. Timed'
    BY <1>2, <1>7 DEF WriterCloses, Timed, outside, clock, thread, coalescer, far
  <2>2. Fenced'
    BY <1>7 DEF WriterCloses, Fenced, near
  <2>3. QED
    BY <2>1, <2>2
<1>8. CASE WorkerPanics \/ HelperDies \/ Terminate
  <2>1. raw' = <<>> /\ hand' = <<>> /\ (out' = out \/ out' = <<>>)
        /\ (writing' = writing \/ writing' = NoAction)
        /\ UNCHANGED <<scroll, edit, now, pipe, inbox, stored, cutoff, pressed, open>>
    <3>1. CASE WorkerPanics
      BY <3>1 DEF WorkerPanics, KillWorker, coalescer, clock, far, near, store
    <3>2. CASE HelperDies
      BY <3>2 DEF HelperDies, KillHelper, KillWorker, coalescer, clock, near, store
    <3>3. CASE Terminate
      BY <3>3 DEF Terminate, KillHelper, KillWorker, coalescer, outside, clock, near, store
    <3>4. QED
      BY <1>8, <3>1, <3>2, <3>3
  <2>2. Timed'
    BY <1>2, <2>1, NothingYet DEF Timed
  <2>3. QED
    BY <1>3, <2>1, <2>2
(* The key: what is stored was seen before now, and now is the cutoff. *)
<1>9. CASE Panic
  <2>1. pressed' = now /\ cutoff' = now
        /\ UNCHANGED <<open, stored, now, raw, scroll, edit, hand, out, writing, pipe, inbox>>
    BY <1>9 DEF Panic, outside, clock, thread, coalescer, far, store
  <2>2. Timed'
    BY <1>2, <2>1 DEF Timed
  <2>3. Fenced'
    BY <1>2, <2>1 DEF Fenced
  <2>4. QED
    BY <2>2, <2>3
<1>10. CASE HearStopped
  <2>1. ~open
        /\ UNCHANGED <<pressed, open, stored, now, raw, scroll, edit, hand, out, writing, pipe, inbox>>
    BY <1>10 DEF HearStopped, outside, clock, thread, coalescer, far, store
  <2>2. Timed'
    BY <1>2, <2>1 DEF Timed
  <2>3. Fenced'
    BY <2>1 DEF Fenced
  <2>4. QED
    BY <2>2, <2>3
<1>11. CASE Tick
  <2>1. now' \in Nat /\ now <= now'
        /\ UNCHANGED <<pressed, open, cutoff, stored, raw, scroll, edit, hand, out, writing, pipe, inbox>>
    BY <1>1, <1>11 DEF Tick, thread, coalescer, far, near, store
  <2>2. /\ Past(now) \subseteq Past(now') /\ PastEvents(now) \subseteq PastEvents(now')
        /\ Sent(now) \subseteq Sent(now') /\ Got(now) \subseteq Got(now')
    BY <1>1, <2>1, TimePasses
  <2>3. /\ raw \in Seq(PastEvents(now'))
        /\ hand \in Seq(Past(now')) /\ out \in Seq(Past(now')) /\ stored \in Seq(Past(now'))
        /\ pipe \in Seq(Sent(now')) /\ inbox \in Seq(Got(now'))
    BY <1>2, <2>2, Widened
  <2>4. Timed'
    BY <1>2, <2>1, <2>2, <2>3 DEF Timed
  <2>5. QED
    BY <1>3, <2>1, <2>4
<1>12. CASE \/ AskStop \/ Frozen \/ Joined \/ Stall \/ Unstall \/ AppDies \/ Switch \/ WallStep
            \/ UNCHANGED vars
  <2>1. UNCHANGED <<pressed, open, stored, now, raw, scroll, edit, hand, out, writing, pipe, inbox>>
    BY <1>12 DEF AskStop, Frozen, Joined, Stall, Unstall, AppDies, Switch, WallStep, vars, outside,
       clock, thread, coalescer, far, near, store
  <2>2. cutoff' = cutoff
    BY <1>12 DEF AskStop, Frozen, Joined, Stall, Unstall, AppDies, Switch, WallStep, vars, near
  <2>3. Timed'
    BY <1>2, <2>1 DEF Timed
  <2>4. QED
    BY <1>3, <2>1, <2>2, <2>3
<1>13. QED
  BY <1>4, <1>5, <1>6, <1>7, <1>8, <1>9, <1>10, <1>11, <1>12
     DEF Next, WriterNext, TrayNext, Poll

LEMMA FenceHolds ==
    ASSUME Shape, Fenced PROVE PanicFence
<1>1. ASSUME pressed # Never, NEW a \in ToSet(stored) PROVE a.at <= pressed
  <2>1. stored \in Seq(Past(pressed))
    BY <1>1 DEF Fenced
  <2>2. a \in Past(pressed)
    BY <1>1, <2>1, Ranges
  <2>3. QED
    BY <2>2 DEF Past
<1>2. QED
  BY <1>1 DEF PanicFence

(* While the wall clock is not set, no action observed after the panic key is *)
(* stored, whatever lane it takes (PanicActionCutoff::arm and rejects,        *)
(* instant_to_unix_ms, unix_ms_to_instant).                                   *)
THEOREM PanicFenceUnderASteadyClock == Spec /\ [](skew = 0) => []PanicFence
<1>1. Init => Timed /\ Fenced
  BY TimedInit
<1>2. Shape /\ Coalesced /\ Timed /\ Fenced /\ skew = 0 /\ [Next]_vars => (Timed /\ Fenced)'
  BY TimedStep
<1>3. Shape /\ Fenced => PanicFence
  BY FenceHolds
<1>4. QED
  BY <1>1, <1>2, <1>3, WorkerInvariant, PTL DEF Spec

(* A worker in the tray hands its actions over by their instants, and needs   *)
(* no steady wall clock.                                                      *)
THEOREM PanicFenceInTheTray == Spec /\ [](lane = "tray") => []PanicFence
<1>1. Shape /\ lane = "tray" => skew = 0
  BY DEF Shape, Clocked
<1>2. QED
  BY <1>1, WorkerInvariant, PanicFenceUnderASteadyClock, PTL

(* The same for either lane when the wall clock is not among what fails.      *)
THEOREM PanicFenceWithoutClockSteps ==
    ASSUME "clock" \notin Faults PROVE Spec => []PanicFence
<1>1. Shape => skew = 0
  BY DEF Shape, Clocked
<1>2. QED
  BY <1>1, WorkerInvariant, PanicFenceUnderASteadyClock, PTL

===============================================================================
