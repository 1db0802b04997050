------------------------ MODULE RecordRequests_proofs ------------------------
(***************************************************************************)
(* For any number of requests, windows and upsets and any faults: there is  *)
(* one prompt at a time (OnePrompt), a request and its recording name each   *)
(* other (StartedOnce), a confirmed request has its start under way          *)
(* (ConfirmedInStart), what is decided stays decided (DecisionsFinal), and   *)
(* the answer of a cap prompt stops only a recording that has reached its    *)
(* cap (CapStopsOwn).                                                      *)
(*                                                                         *)
(* Each is the consequence of an invariant about what is on its way between *)
(* the threads: the start command belongs to the dialog that waits for it,   *)
(* the start of the writer to the request it has confirmed, and a cap stop   *)
(* on its way to a recording that has reached its cap.                      *)
(***************************************************************************)
EXTENDS RecordRequests, FiniteSetTheorems, SequenceTheorems, WellFoundedInduction, TLAPS

-----------------------------------------------------------------------------
(* The smallest of a set of ids is one of them. *)
LEMMA MinIn ==
    ASSUME NEW S \in SUBSET Nat, S # {}
    PROVE  Min(S) \in S /\ Min(S) \in Nat
<1>1. \E x \in S : \A y \in S : ~ (<<y, x>> \in OpToRel(<, Nat))
  BY NatLessThanWellFounded, WFMin
<1>2. PICK x \in S : \A y \in S : ~ (<<y, x>> \in OpToRel(<, Nat))
  BY <1>1
<1>3. \A y \in S : x <= y
  <2>1. ASSUME NEW y \in S PROVE ~(y < x)
    <3>1. <<y, x>> \in Nat \X Nat
      OBVIOUS
    <3>2. QED
      BY <1>2, <3>1 DEF OpToRel
  <2>2. QED
    BY <2>1
<1>4. QED
  BY <1>3 DEF Min

(* A sequence with other elements in its places. *)
LEMMA Replaced ==
    ASSUME NEW S, NEW T, NEW s \in Seq(S), NEW t, DOMAIN t = DOMAIN s,
           t = [i \in DOMAIN s |-> t[i]], \A i \in DOMAIN s : t[i] \in T
    PROVE  t \in Seq(T) /\ Len(t) = Len(s)
<1>1. Len(s) \in Nat /\ DOMAIN s = 1 .. Len(s)
  OBVIOUS
<1>2. t \in [1 .. Len(s) -> T]
  BY <1>1
<1>3. QED
  BY <1>1, <1>2

(* confirm_record_request and its like change the status of rows. *)
LEMMA StatusSet ==
    ASSUME reqs \in Seq(Request), NEW ids, NEW status
    PROVE  /\ DOMAIN WithStatus(ids, status) = DOMAIN reqs
           /\ \A id \in DOMAIN reqs :
                 /\ WithStatus(ids, status)[id].by = reqs[id].by
                 /\ WithStatus(ids, status)[id].token = reqs[id].token
                 /\ WithStatus(ids, status)[id].status
                       = IF id \in ids THEN status ELSE reqs[id].status
<1>1. \A id \in DOMAIN reqs : reqs[id] \in Request
  OBVIOUS
<1>2. \A row \in Request : /\ [row EXCEPT !.status = status].by = row.by
                            /\ [row EXCEPT !.status = status].token = row.token
                            /\ [row EXCEPT !.status = status].status = status
  BY DEF Request
<1>3. QED
  BY <1>1, <1>2 DEF WithStatus

LEMMA StatusTyped ==
    ASSUME reqs \in Seq(Request), NEW ids, NEW status \in Statuses
    PROVE  WithStatus(ids, status) \in Seq(Request)
<1> DEFINE rows == WithStatus(ids, status)
<1>1. /\ DOMAIN rows = DOMAIN reqs /\ rows = [id \in DOMAIN reqs |-> rows[id]]
      /\ \A id \in DOMAIN reqs :
            rows[id] = IF id \in ids THEN [reqs[id] EXCEPT !.status = status] ELSE reqs[id]
  BY DEF WithStatus
<1>2. \A id \in DOMAIN reqs : reqs[id] \in Request
  OBVIOUS
<1>3. \A id \in DOMAIN reqs : [reqs[id] EXCEPT !.status = status] \in Request
  BY <1>2 DEF Request
<1> HIDE DEF rows
<1>4. \A id \in DOMAIN reqs : rows[id] \in Request
  BY <1>1, <1>2, <1>3
<1>5. rows \in Seq(Request)
  BY <1>1, <1>4, Replaced
<1>6. QED
  BY <1>5 DEF rows

(* finalize_record_session closes the open ones among them. *)
LEMMA ClosedTyped ==
    ASSUME recs \in Seq(Recording), NEW ids, NEW reason \in Reasons
    PROVE  LET rows == Closed(ids, reason)
           IN  /\ rows \in Seq(Recording) /\ DOMAIN rows = DOMAIN recs
               /\ \A r \in DOMAIN recs :
                     /\ rows[r].request = recs[r].request /\ rows[r].windows = recs[r].windows
                     /\ rows[r].reason = recs[r].reason \/ (r \in ids /\ rows[r].reason = reason)
<1> DEFINE rows == Closed(ids, reason)
<1>1. /\ DOMAIN rows = DOMAIN recs /\ rows = [r \in DOMAIN recs |-> rows[r]]
      /\ \A r \in DOMAIN recs :
            rows[r] = IF r \in ids /\ recs[r].open
                      THEN [recs[r] EXCEPT !.open = FALSE, !.reason = reason] ELSE recs[r]
  BY DEF Closed
<1>2. \A r \in DOMAIN recs : recs[r] \in Recording
  OBVIOUS
<1> HIDE DEF rows
<1>3. ASSUME NEW r \in DOMAIN recs
      PROVE  /\ rows[r] \in Recording
             /\ rows[r].request = recs[r].request /\ rows[r].windows = recs[r].windows
             /\ rows[r].reason = recs[r].reason \/ (r \in ids /\ rows[r].reason = reason)
  <2>1. CASE r \in ids /\ recs[r].open
    BY <1>1, <1>2, <2>1 DEF Recording
  <2>2. CASE ~(r \in ids /\ recs[r].open)
    BY <1>1, <1>2, <2>2
  <2>3. QED
    BY <2>1, <2>2
<1>4. rows \in Seq(Recording)
  BY <1>1, <1>3, Replaced
<1>5. QED
  BY <1>1, <1>3, <1>4 DEF rows

(* What is put at the end of a queue, and what is taken from its head. *)
LEMMA Added ==
    ASSUME NEW S, NEW q \in Seq(S), NEW e \in S
    PROVE  /\ Append(q, e) \in Seq(S) /\ Len(Append(q, e)) = Len(q) + 1
           /\ DOMAIN Append(q, e) = DOMAIN q \cup {Len(q) + 1}
           /\ Append(q, e)[Len(q) + 1] = e
           /\ \A i \in DOMAIN q : Append(q, e)[i] = q[i]
           /\ Len(q) + 1 \notin DOMAIN q /\ Len(q) \in Nat
OBVIOUS

LEMMA Taken ==
    ASSUME NEW S, NEW q \in Seq(S), q # <<>>
    PROVE  /\ Head(q) \in S /\ Tail(q) \in Seq(S) /\ Len(Tail(q)) = Len(q) - 1
           /\ Head(q) = q[1] /\ 1 \in DOMAIN q
           /\ \A i \in DOMAIN Tail(q) : i + 1 \in DOMAIN q /\ Tail(q)[i] = q[i + 1] /\ i # 0
OBVIOUS

-----------------------------------------------------------------------------
(* What each step leaves alone. *)
LEMMA Frames ==
    /\ Poll => UNCHANGED <<recs, start, commands, events, prompting, acting, privacy,
           tray, dialog, capDialog, lane, stops, erased, unmarked, used>>
    /\ ConfirmStart => UNCHANGED <<recs, memory, requestSlot, capSlot, events,
           prompting, acting, privacy, tray, capDialog, lane, stops, erased, unmarked,
           used>>
    /\ OpenRecording => UNCHANGED <<requestSlot, capSlot, commands, events, prompting,
           acting, privacy, tray, capDialog, lane, stops, erased, unmarked, used>>
    /\ FailRecording => UNCHANGED <<recs, memory, requestSlot, capSlot, commands,
           events, prompting, acting, privacy, tray, capDialog, lane, stops, erased,
           used>>
    /\ Decline => UNCHANGED <<recs, start, requestSlot, capSlot, events, prompting,
           acting, privacy, tray, dialog, capDialog, lane, stops, erased, unmarked,
           used>>
    /\ StopRecording => UNCHANGED <<reqs, start, requestSlot, capSlot, events,
           prompting, acting, privacy, tray, dialog, capDialog, lane, erased, unmarked>>
    /\ Erase => UNCHANGED <<start, requestSlot, capSlot, events, prompting, acting,
           tray, dialog, capDialog, lane, stops, unmarked, used>>
    /\ TakeRequest => UNCHANGED <<reqs, recs, memory, start, capSlot, commands, events,
           privacy, tray, capDialog, lane, stops, erased, unmarked, used>>
    /\ ManualRequest => UNCHANGED <<reqs, recs, memory, start, requestSlot, capSlot,
           commands, events, privacy, tray, capDialog, lane, stops, erased, unmarked>>
    /\ TakeCap => UNCHANGED <<reqs, recs, memory, start, requestSlot, commands, events,
           acting, privacy, tray, dialog, lane, stops, erased, unmarked, used>>
    /\ AcceptStart => UNCHANGED <<reqs, recs, memory, start, requestSlot, capSlot,
           events, prompting, acting, privacy, tray, capDialog, lane, stops, erased,
           unmarked, used>>
    /\ RefuseStart => UNCHANGED <<reqs, recs, memory, start, requestSlot, capSlot,
           events, prompting, acting, privacy, tray, capDialog, lane, stops, erased,
           unmarked, used>>
    /\ ReportStart => UNCHANGED <<reqs, recs, memory, start, requestSlot, capSlot,
           commands, prompting, acting, privacy, tray, capDialog, lane, stops, erased,
           unmarked, used>>
    /\ EndDialog => UNCHANGED <<reqs, recs, memory, start, requestSlot, capSlot,
           commands, events, privacy, tray, capDialog, lane, stops, erased, unmarked,
           used>>
    /\ AnswerCap => UNCHANGED <<reqs, recs, memory, start, requestSlot, capSlot,
           commands, prompting, acting, privacy, tray, dialog, lane, stops, erased,
           unmarked, used>>
    /\ EndCapDialog => UNCHANGED <<reqs, recs, memory, start, requestSlot, capSlot,
           commands, events, acting, privacy, tray, dialog, lane, stops, erased,
           unmarked, used>>
    /\ HandleCapStop => UNCHANGED <<reqs, recs, memory, start, requestSlot, capSlot,
           commands, prompting, acting, privacy, dialog, capDialog, lane, erased,
           unmarked, used>>
    /\ HandleStarted => UNCHANGED <<reqs, recs, memory, start, requestSlot, capSlot,
           commands, prompting, acting, privacy, dialog, capDialog, lane, erased,
           unmarked, used>>
    /\ HandleStopped => UNCHANGED <<reqs, recs, memory, start, requestSlot, capSlot,
           commands, prompting, acting, privacy, dialog, capDialog, lane, stops, erased,
           unmarked, used>>
    /\ HandleFailed => UNCHANGED <<reqs, recs, memory, start, requestSlot, capSlot,
           commands, prompting, acting, privacy, dialog, capDialog, lane, erased,
           unmarked, used>>
    /\ StopPressed => UNCHANGED <<reqs, recs, memory, start, requestSlot, capSlot,
           commands, events, prompting, acting, privacy, dialog, capDialog, lane,
           erased, unmarked, used>>
    /\ PausePressed => UNCHANGED <<reqs, recs, memory, start, requestSlot, capSlot,
           commands, events, prompting, privacy, tray, dialog, capDialog, stops, erased,
           unmarked>>
    /\ EndLane => UNCHANGED <<reqs, recs, memory, start, requestSlot, capSlot, commands,
           prompting, privacy, tray, dialog, capDialog, stops, erased, unmarked, used>>
    /\ BeginPrivacy => UNCHANGED <<reqs, recs, memory, start, requestSlot, capSlot,
           commands, events, prompting, acting, tray, dialog, capDialog, lane, stops,
           erased, unmarked>>
    /\ ConfirmPrivacy => UNCHANGED <<reqs, recs, memory, start, requestSlot, capSlot,
           events, prompting, acting, tray, dialog, capDialog, lane, stops, erased,
           unmarked, used>>
    /\ EndPrivacy => UNCHANGED <<reqs, recs, memory, start, requestSlot, capSlot,
           commands, events, prompting, acting, tray, dialog, capDialog, lane, stops,
           erased, unmarked, used>>
    /\ RequestRecording => UNCHANGED <<recs, memory, start, requestSlot, capSlot,
           commands, events, prompting, acting, privacy, tray, dialog, capDialog, lane,
           stops, erased, unmarked>>
    /\ \A id \in DOMAIN reqs : (Overdue(id) => UNCHANGED <<recs, memory, start,
           requestSlot, capSlot, commands, events, prompting, acting, privacy, tray,
           dialog, capDialog, lane, stops, erased, unmarked, used>>)
    /\ \A r \in DOMAIN recs : (Elapse(r) => UNCHANGED <<reqs, memory, start, requestSlot,
           capSlot, commands, events, prompting, acting, privacy, tray, dialog,
           capDialog, lane, stops, erased, unmarked, used>>)
    /\ \A t \in stops : (SendStop(t) => UNCHANGED <<reqs, recs, memory, start,
           requestSlot, capSlot, events, prompting, acting, privacy, tray, dialog,
           capDialog, lane, erased, unmarked, used>>)
    /\ \A t \in stops : (ReportStop(t) => UNCHANGED <<reqs, recs, memory, start,
           requestSlot, capSlot, commands, prompting, acting, privacy, tray, dialog,
           capDialog, lane, erased, unmarked, used>>)
    /\ UNCHANGED vars => UNCHANGED <<reqs, recs, memory, start, requestSlot, capSlot,
           commands, events, prompting, acting, privacy, tray, dialog, capDialog, lane,
           stops, erased, unmarked, used>>
<1> USE DEF tables, bounds, slots, flags, threads
<1>1. Poll => UNCHANGED <<recs, start, commands, events, prompting, acting, privacy,
         tray, dialog, capDialog, lane, stops, erased, unmarked, used>>
  BY DEF Poll
<1>2. ConfirmStart => UNCHANGED <<recs, memory, requestSlot, capSlot, events,
         prompting, acting, privacy, tray, capDialog, lane, stops, erased, unmarked,
         used>>
  BY DEF ConfirmStart
<1>3. OpenRecording => UNCHANGED <<requestSlot, capSlot, commands, events, prompting,
         acting, privacy, tray, capDialog, lane, stops, erased, unmarked, used>>
  BY DEF OpenRecording
<1>4. FailRecording => UNCHANGED <<recs, memory, requestSlot, capSlot, commands,
         events, prompting, acting, privacy, tray, capDialog, lane, stops, erased,
         used>>
  BY DEF FailRecording
<1>5. Decline => UNCHANGED <<recs, start, requestSlot, capSlot, events, prompting,
         acting, privacy, tray, dialog, capDialog, lane, stops, erased, unmarked,
         used>>
  BY DEF Decline
<1>6. StopRecording => UNCHANGED <<reqs, start, requestSlot, capSlot, events,
         prompting, acting, privacy, tray, dialog, capDialog, lane, erased, unmarked>>
  BY DEF StopRecording
<1>7. Erase => UNCHANGED <<start, requestSlot, capSlot, events, prompting, acting,
         tray, dialog, capDialog, lane, stops, unmarked, used>>
  BY DEF Erase
<1>8. TakeRequest => UNCHANGED <<reqs, recs, memory, start, capSlot, commands, events,
         privacy, tray, capDialog, lane, stops, erased, unmarked, used>>
  BY DEF TakeRequest
<1>9. ManualRequest => UNCHANGED <<reqs, recs, memory, start, requestSlot, capSlot,
         commands, events, privacy, tray, capDialog, lane, stops, erased, unmarked>>
  BY DEF ManualRequest
<1>10. TakeCap => UNCHANGED <<reqs, recs, memory, start, requestSlot, commands, events,
         acting, privacy, tray, dialog, lane, stops, erased, unmarked, used>>
  BY DEF TakeCap
<1>11. AcceptStart => UNCHANGED <<reqs, recs, memory, start, requestSlot, capSlot,
         events, prompting, acting, privacy, tray, capDialog, lane, stops, erased,
         unmarked, used>>
  BY DEF AcceptStart
<1>12. RefuseStart => UNCHANGED <<reqs, recs, memory, start, requestSlot, capSlot,
         events, prompting, acting, privacy, tray, capDialog, lane, stops, erased,
         unmarked, used>>
  BY DEF RefuseStart
<1>13. ReportStart => UNCHANGED <<reqs, recs, memory, start, requestSlot, capSlot,
         commands, prompting, acting, privacy, tray, capDialog, lane, stops, erased,
         unmarked, used>>
  BY DEF ReportStart
<1>14. EndDialog => UNCHANGED <<reqs, recs, memory, start, requestSlot, capSlot,
         commands, events, privacy, tray, capDialog, lane, stops, erased, unmarked,
         used>>
  BY DEF EndDialog
<1>15. AnswerCap => UNCHANGED <<reqs, recs, memory, start, requestSlot, capSlot,
         commands, prompting, acting, privacy, tray, dialog, lane, stops, erased,
         unmarked, used>>
  BY DEF AnswerCap
<1>16. EndCapDialog => UNCHANGED <<reqs, recs, memory, start, requestSlot, capSlot,
         commands, events, acting, privacy, tray, dialog, lane, stops, erased,
         unmarked, used>>
  BY DEF EndCapDialog
<1>17. HandleCapStop => UNCHANGED <<reqs, recs, memory, start, requestSlot, capSlot,
         commands, prompting, acting, privacy, dialog, capDialog, lane, erased,
         unmarked, used>>
  BY DEF HandleCapStop
<1>18. HandleStarted => UNCHANGED <<reqs, recs, memory, start, requestSlot, capSlot,
         commands, prompting, acting, privacy, dialog, capDialog, lane, erased,
         unmarked, used>>
  BY DEF HandleStarted
<1>19. HandleStopped => UNCHANGED <<reqs, recs, memory, start, requestSlot, capSlot,
         commands, prompting, acting, privacy, dialog, capDialog, lane, stops, erased,
         unmarked, used>>
  BY DEF HandleStopped
<1>20. HandleFailed => UNCHANGED <<reqs, recs, memory, start, requestSlot, capSlot,
         commands, prompting, acting, privacy, dialog, capDialog, lane, erased,
         unmarked, used>>
  BY DEF HandleFailed
<1>21. StopPressed => UNCHANGED <<reqs, recs, memory, start, requestSlot, capSlot,
         commands, events, prompting, acting, privacy, dialog, capDialog, lane,
         erased, unmarked, used>>
  BY DEF StopPressed
<1>22. PausePressed => UNCHANGED <<reqs, recs, memory, start, requestSlot, capSlot,
         commands, events, prompting, privacy, tray, dialog, capDialog, stops, erased,
         unmarked>>
  BY DEF PausePressed
<1>23. EndLane => UNCHANGED <<reqs, recs, memory, start, requestSlot, capSlot, commands,
         prompting, privacy, tray, dialog, capDialog, stops, erased, unmarked, used>>
  BY DEF EndLane
<1>24. BeginPrivacy => UNCHANGED <<reqs, recs, memory, start, requestSlot, capSlot,
         commands, events, prompting, acting, tray, dialog, capDialog, lane, stops,
         erased, unmarked>>
  BY DEF BeginPrivacy
<1>25. ConfirmPrivacy => UNCHANGED <<reqs, recs, memory, start, requestSlot, capSlot,
         events, prompting, acting, tray, dialog, capDialog, lane, stops, erased,
         unmarked, used>>
  BY DEF ConfirmPrivacy
<1>26. EndPrivacy => UNCHANGED <<reqs, recs, memory, start, requestSlot, capSlot,
         commands, events, prompting, acting, tray, dialog, capDialog, lane, stops,
         erased, unmarked, used>>
  BY DEF EndPrivacy
<1>27. RequestRecording => UNCHANGED <<recs, memory, start, requestSlot, capSlot,
         commands, events, prompting, acting, privacy, tray, dialog, capDialog, lane,
         stops, erased, unmarked>>
  BY DEF RequestRecording
<1>28. \A id \in DOMAIN reqs : (Overdue(id) => UNCHANGED <<recs, memory, start,
         requestSlot, capSlot, commands, events, prompting, acting, privacy, tray,
         dialog, capDialog, lane, stops, erased, unmarked, used>>)
  BY DEF Overdue
<1>29. \A r \in DOMAIN recs : (Elapse(r) => UNCHANGED <<reqs, memory, start,
         requestSlot, capSlot, commands, events, prompting, acting, privacy, tray,
         dialog, capDialog, lane, stops, erased, unmarked, used>>)
  BY DEF Elapse
<1>30. \A t \in stops : (SendStop(t) => UNCHANGED <<reqs, recs, memory, start,
         requestSlot, capSlot, events, prompting, acting, privacy, tray, dialog,
         capDialog, lane, erased, unmarked, used>>)
  BY DEF SendStop
<1>31. \A t \in stops : (ReportStop(t) => UNCHANGED <<reqs, recs, memory, start,
         requestSlot, capSlot, commands, prompting, acting, privacy, tray, dialog,
         capDialog, lane, erased, unmarked, used>>)
  BY DEF ReportStop
<1>32. UNCHANGED vars => UNCHANGED <<reqs, recs, memory, start, requestSlot, capSlot,
         commands, events, prompting, acting, privacy, tray, dialog, capDialog, lane,
         stops, erased, unmarked, used>>
  BY DEF vars
<1>33. QED
  BY <1>1, <1>2, <1>3, <1>4, <1>5, <1>6, <1>7, <1>8, <1>9, <1>10, <1>11, <1>12,
     <1>13, <1>14, <1>15, <1>16, <1>17, <1>18, <1>19, <1>20, <1>21, <1>22, <1>23,
     <1>24, <1>25, <1>26, <1>27, <1>28, <1>29, <1>30, <1>31, <1>32

(* Who changes what. *)
LEMMA ChangesReqs ==
    [Next]_vars => UNCHANGED reqs \/ Poll \/ ConfirmStart \/ OpenRecording
                   \/ FailRecording \/ Decline \/ Erase \/ RequestRecording
                   \/ (\E id \in DOMAIN reqs : Overdue(id)) \/ Crash
BY Frames DEF Next, Writer, Pump, Dialog, CapDialog, StopLane, Privacy

LEMMA ChangesRecs ==
    [Next]_vars => UNCHANGED recs \/ OpenRecording \/ StopRecording \/ Erase
                   \/ (\E r \in DOMAIN recs : Elapse(r)) \/ Crash
BY Frames DEF Next, Writer, Pump, Dialog, CapDialog, StopLane, Privacy

LEMMA ChangesMemory ==
    [Next]_vars => UNCHANGED memory \/ Poll \/ OpenRecording \/ Decline \/ StopRecording
                   \/ Erase \/ Crash
BY Frames DEF Next, Writer, Pump, Dialog, CapDialog, StopLane, Privacy

LEMMA ChangesStart ==
    [Next]_vars => UNCHANGED start \/ ConfirmStart \/ OpenRecording \/ FailRecording
                   \/ Crash
BY Frames DEF Next, Writer, Pump, Dialog, CapDialog, StopLane, Privacy

LEMMA ChangesRequestSlot ==
    [Next]_vars => UNCHANGED requestSlot \/ Poll \/ TakeRequest \/ Crash
BY Frames DEF Next, Writer, Pump, Dialog, CapDialog, StopLane, Privacy

LEMMA ChangesCapSlot ==
    [Next]_vars => UNCHANGED capSlot \/ Poll \/ TakeCap \/ Crash
BY Frames DEF Next, Writer, Pump, Dialog, CapDialog, StopLane, Privacy

LEMMA ChangesCommands ==
    [Next]_vars => UNCHANGED commands \/ ConfirmStart \/ Decline \/ StopRecording
                   \/ Erase \/ AcceptStart \/ RefuseStart
                   \/ (\E t \in stops : SendStop(t)) \/ ConfirmPrivacy \/ Crash
BY Frames DEF Next, Writer, Pump, Dialog, CapDialog, StopLane, Privacy

LEMMA ChangesEvents ==
    [Next]_vars => UNCHANGED events \/ ReportStart \/ AnswerCap \/ HandleCapStop
                   \/ HandleStarted \/ HandleStopped \/ HandleFailed \/ EndLane
                   \/ (\E t \in stops : ReportStop(t)) \/ Crash
BY Frames DEF Next, Writer, Pump, Dialog, CapDialog, StopLane, Privacy

LEMMA ChangesPrompting ==
    [Next]_vars => UNCHANGED prompting \/ TakeRequest \/ ManualRequest \/ TakeCap
                   \/ EndDialog \/ EndCapDialog \/ Crash
BY Frames DEF Next, Writer, Pump, Dialog, CapDialog, StopLane, Privacy

LEMMA ChangesActing ==
    [Next]_vars => UNCHANGED acting \/ TakeRequest \/ ManualRequest \/ EndDialog
                   \/ PausePressed \/ EndLane \/ Crash
BY Frames DEF Next, Writer, Pump, Dialog, CapDialog, StopLane, Privacy

LEMMA ChangesPrivacy ==
    [Next]_vars => UNCHANGED privacy \/ Erase \/ BeginPrivacy \/ ConfirmPrivacy
                   \/ EndPrivacy \/ Crash
BY Frames DEF Next, Writer, Pump, Dialog, CapDialog, StopLane, Privacy

LEMMA ChangesTray ==
    [Next]_vars => UNCHANGED tray \/ HandleCapStop \/ HandleStarted \/ HandleStopped
                   \/ HandleFailed \/ StopPressed \/ Crash
BY Frames DEF Next, Writer, Pump, Dialog, CapDialog, StopLane, Privacy

LEMMA ChangesDialog ==
    [Next]_vars => UNCHANGED dialog \/ ConfirmStart \/ OpenRecording \/ FailRecording
                   \/ TakeRequest \/ ManualRequest \/ AcceptStart \/ RefuseStart
                   \/ ReportStart \/ EndDialog \/ Crash
BY Frames DEF Next, Writer, Pump, Dialog, CapDialog, StopLane, Privacy

LEMMA ChangesCapDialog ==
    [Next]_vars => UNCHANGED capDialog \/ TakeCap \/ AnswerCap \/ EndCapDialog \/ Crash
BY Frames DEF Next, Writer, Pump, Dialog, CapDialog, StopLane, Privacy

LEMMA ChangesLane ==
    [Next]_vars => UNCHANGED lane \/ PausePressed \/ EndLane \/ Crash
BY Frames DEF Next, Writer, Pump, Dialog, CapDialog, StopLane, Privacy

LEMMA ChangesStops ==
    [Next]_vars => UNCHANGED stops \/ StopRecording \/ HandleCapStop \/ HandleStarted
                   \/ HandleFailed \/ StopPressed \/ (\E t \in stops : SendStop(t))
                   \/ (\E t \in stops : ReportStop(t)) \/ Crash
BY Frames DEF Next, Writer, Pump, Dialog, CapDialog, StopLane, Privacy

LEMMA ChangesErased ==
    [Next]_vars => UNCHANGED erased \/ Erase
BY Frames DEF Next, Writer, Pump, Dialog, CapDialog, StopLane, Privacy, Crash

LEMMA ChangesUnmarked ==
    [Next]_vars => UNCHANGED unmarked \/ FailRecording \/ Crash
BY Frames DEF Next, Writer, Pump, Dialog, CapDialog, StopLane, Privacy

LEMMA ChangesUsed ==
    [Next]_vars => UNCHANGED used \/ StopRecording \/ ManualRequest \/ PausePressed
                   \/ BeginPrivacy \/ RequestRecording \/ Crash
BY Frames DEF Next, Writer, Pump, Dialog, CapDialog, StopLane, Privacy

-----------------------------------------------------------------------------
(* What is among the commands. *)
Has(q, kind) == \E i \in DOMAIN q : q[i].kind = kind
AtMostOne(q, kind) == \A i, j \in DOMAIN q : q[i].kind = kind /\ q[j].kind = kind => i = j

LEMMA HasAdded ==
    ASSUME NEW q \in Seq(Command), NEW c \in Command, NEW kind
    PROVE  /\ Has(Append(q, c), kind) <=> Has(q, kind) \/ c.kind = kind
           /\ AtMostOne(q, kind) /\ (c.kind # kind \/ ~Has(q, kind))
                 => AtMostOne(Append(q, c), kind)
<1> DEFINE p == Append(q, c)
           n == Len(q) + 1
<1>1. /\ DOMAIN p = DOMAIN q \cup {n} /\ p[n] = c /\ n \notin DOMAIN q
      /\ \A i \in DOMAIN q : p[i] = q[i]
  BY Added
<1> HIDE DEF p, n
<1>2. Has(p, kind) <=> Has(q, kind) \/ c.kind = kind
  BY <1>1 DEF Has
<1>3. AtMostOne(q, kind) /\ (c.kind # kind \/ ~Has(q, kind)) => AtMostOne(p, kind)
  BY <1>1 DEF Has, AtMostOne
<1>4. QED
  BY <1>2, <1>3 DEF p

LEMMA HasTaken ==
    ASSUME NEW q \in Seq(Command), q # <<>>, NEW kind
    PROVE  /\ Has(q, Head(q).kind)
           /\ Has(Tail(q), kind) => Has(q, kind)
           /\ AtMostOne(q, kind) => AtMostOne(Tail(q), kind)
           /\ AtMostOne(q, kind) /\ Head(q).kind = kind => ~Has(Tail(q), kind)
<1>1. /\ Head(q) = q[1] /\ 1 \in DOMAIN q
      /\ \A i \in DOMAIN Tail(q) : i + 1 \in DOMAIN q /\ Tail(q)[i] = q[i + 1] /\ i \in Nat /\ i # 0
  BY Taken
<1>2. \A i, j \in DOMAIN Tail(q) : (i + 1 = j + 1 => i = j) /\ i + 1 # 1
  BY <1>1
<1>3. QED
  BY <1>1, <1>2 DEF Has, AtMostOne

(* A start command belongs to the dialog that waits for it, and so does the   *)
(* start of the writer: no other one is on its way.  An erase command belongs *)
(* to the privacy operation that is under way.                              *)
Prompt ==
    /\ OnePrompt
    /\ start # Idle => dialog.pc = "waiting" /\ ~Has(commands, "start")
    /\ Has(commands, "start") => dialog.pc = "waiting"
    /\ Has(commands, "erase") => privacy = "erasing"
    /\ AtMostOne(commands, "start") /\ AtMostOne(commands, "erase")

(* What a step does to the tables keeps their type. *)
LEMMA ReqsTyped ==
    ASSUME TypeOK, [Next]_vars
    PROVE  reqs' \in Seq(Request)
<1>0. reqs \in Seq(Request) /\ recs \in Seq(Recording) /\ used.asked \in Nat
  BY DEF TypeOK
<1>1. \A id \in DOMAIN reqs : reqs[id] \in Request
  BY <1>0
<1>2. CASE Poll
  <2>1. PICK expires \in BOOLEAN :
           LET late == {id \in DOMAIN reqs : Waiting(id) /\ reqs[id].overdue}
               rows == IF expires THEN WithStatus(late, "expired") ELSE reqs
               oldest == Oldest(rows)
           IN  reqs' = rows \/ reqs' = [rows EXCEPT ![oldest].status = "failed"]
    BY <1>2 DEF Poll
  <2> DEFINE late == {id \in DOMAIN reqs : Waiting(id) /\ reqs[id].overdue}
             rows == IF expires THEN WithStatus(late, "expired") ELSE reqs
             oldest == Oldest(rows)
  <2>2. rows \in Seq(Request)
    BY <1>0, <1>0, StatusTyped DEF Statuses, Pending
  <2>3. reqs' = rows \/ reqs' = [rows EXCEPT ![oldest].status = "failed"]
    BY <2>1
  <2> HIDE DEF rows, oldest
  <2>4. ASSUME reqs' = [rows EXCEPT ![oldest].status = "failed"]
        PROVE  reqs' \in Seq(Request)
    <3>1. \A id \in DOMAIN rows : rows[id] \in Request
      BY <2>2
    <3>2. \A id \in DOMAIN rows : [rows[id] EXCEPT !.status = "failed"] \in Request
      BY <3>1 DEF Request, Statuses, Pending
    <3>3. DOMAIN reqs' = DOMAIN rows /\ reqs' = [id \in DOMAIN rows |-> reqs'[id]]
      BY <2>4
    <3>4. \A id \in DOMAIN rows :
             reqs'[id] = IF id = oldest THEN [rows[id] EXCEPT !.status = "failed"]
                         ELSE rows[id]
      BY <2>4
    <3>5. ASSUME NEW id \in DOMAIN rows
          PROVE  reqs'[id] \in Request
      <4>1. CASE id = oldest
        BY <3>2, <3>4, <4>1
      <4>2. CASE id # oldest
        BY <3>1, <3>4, <4>2
      <4>3. QED
        BY <4>1, <4>2
    <3>6. QED
      BY <2>2, <3>3, <3>5, Replaced
  <2>5. QED
    BY <2>2, <2>3, <2>4
<1>3. CASE ConfirmStart
  BY <1>0, <1>3, StatusTyped DEF ConfirmStart, Statuses, Pending
<1>4. CASE OpenRecording
  <2> DEFINE r == Len(recs) + 1
  <2>1. reqs' = [i \in DOMAIN reqs |-> IF i = start.id
                                       THEN [reqs[i] EXCEPT !.status = "started", !.by = r]
                                       ELSE reqs[i]]
    BY <1>4 DEF OpenRecording
  <2>2. r \in Nat
    BY <1>0
  <2> HIDE DEF r
  <2>3. \A id \in DOMAIN reqs : [reqs[id] EXCEPT !.status = "started", !.by = r] \in Request
    BY <1>1, <2>2 DEF Request, Statuses
  <2>4. DOMAIN reqs' = DOMAIN reqs /\ reqs' = [id \in DOMAIN reqs |-> reqs'[id]]
    BY <2>1
  <2>5. \A id \in DOMAIN reqs : reqs'[id] \in Request
    BY <1>1, <2>1, <2>3
  <2>6. QED
    BY <1>0, <2>4, <2>5, Replaced
<1>5. CASE FailRecording
  BY <1>0, <1>5, StatusTyped DEF FailRecording, Statuses, Pending
<1>6. CASE Decline
  BY <1>0, <1>6, StatusTyped DEF Decline, Statuses, Pending
<1>7. CASE Erase
  <2>1. reqs' = <<>> \/ reqs' = reqs
    BY <1>7 DEF Erase, tables
  <2>2. <<>> \in Seq(Request)
    OBVIOUS
  <2>3. QED
    BY <1>0, <2>1, <2>2, Zenon
<1>8. CASE RequestRecording
  <2>1. PICK valid \in BOOLEAN :
           reqs' = Append(reqs, [status |-> "requested", overdue |-> FALSE, valid |-> valid,
                                 token |-> used.asked + 1, by |-> None])
    BY <1>8 DEF RequestRecording
  <2>2. [status |-> "requested", overdue |-> FALSE, valid |-> valid,
         token |-> used.asked + 1, by |-> None] \in Request
    BY <1>0 DEF Request, Statuses, Pending, None
  <2>3. QED
    BY <1>0, <2>1, <2>2
<1>9. CASE \E id \in DOMAIN reqs : Overdue(id)
  <2>1. PICK id \in DOMAIN reqs : reqs' = [reqs EXCEPT ![id].overdue = TRUE]
    BY <1>9 DEF Overdue
  <2>2. [reqs[id] EXCEPT !.overdue = TRUE] \in Request
    BY <1>1 DEF Request
  <2>3. QED
    BY <1>0, <2>1, <2>2
<1>10. CASE Crash
  BY <1>0, <1>10, StatusTyped DEF Crash, Reconciled, Statuses, Pending
<1>11. QED
  BY <1>0, <1>2, <1>3, <1>4, <1>5, <1>6, <1>7, <1>8, <1>9, <1>10, ChangesReqs

LEMMA RecsTyped ==
    ASSUME TypeOK, [Next]_vars
    PROVE  recs' \in Seq(Recording)
<1>0. reqs \in Seq(Request) /\ recs \in Seq(Recording) /\ commands \in Seq(Command)
  BY DEF TypeOK
<1>1. CASE OpenRecording
  <2>1. start.id \in Nat /\ start.token \in Nat
    BY <1>1 DEF OpenRecording, TypeOK
  <2>2. (IF start.id \in DOMAIN reqs THEN reqs[start.id].token ELSE None) \in Nat
    <3>1. \A id \in DOMAIN reqs : reqs[id] \in Request
      BY <1>0
    <3>2. \A id \in DOMAIN reqs : reqs[id].token \in Nat
      BY <3>1 DEF Request
    <3>3. QED
      BY <3>2 DEF None
  <2> DEFINE row == [request |-> start.id, asked |-> start.token,
                     token |-> IF start.id \in DOMAIN reqs THEN reqs[start.id].token ELSE None,
                     open |-> TRUE, windows |-> 0, reason |-> "none"]
  <2>3. row \in Recording
    BY <2>1, <2>2 DEF Recording, Reasons
  <2>4. recs' = Append(recs, row)
    BY <1>1 DEF OpenRecording
  <2> HIDE DEF row
  <2>5. QED
    BY <1>0, <2>3, <2>4
<1>2. CASE StopRecording
  <2>1. Head(commands) \in Command
    BY <1>0, <1>2, Taken DEF StopRecording, Next1
  <2>2. Head(commands).reason \in Reasons
    BY <1>2, <2>1 DEF StopRecording, Next1, Command
  <2>3. QED
    BY <1>0, <1>2, <2>2, ClosedTyped DEF StopRecording
<1>3. CASE Erase
  <2>1. recs' = <<>> \/ recs' = recs \/ recs' = Closed(OpenRecs, "app_shutdown")
    BY <1>3 DEF Erase, tables
  <2>2. "app_shutdown" \in Reasons
    BY DEF Reasons
  <2>3. <<>> \in Seq(Recording) /\ Closed(OpenRecs, "app_shutdown") \in Seq(Recording)
    BY <1>0, <2>2, ClosedTyped
  <2>4. QED
    BY <1>0, <2>1, <2>3, Zenon
<1>4. CASE \E r \in DOMAIN recs : Elapse(r)
  <2>1. PICK r \in DOMAIN recs : recs' = [recs EXCEPT ![r].windows = @ + 1]
    BY <1>4 DEF Elapse
  <2>2. recs[r] \in Recording
    BY <1>0
  <2>3. [recs[r] EXCEPT !.windows = @ + 1] \in Recording
    BY <2>2 DEF Recording
  <2>4. QED
    BY <1>0, <2>1, <2>3
<1>5. CASE Crash
  BY <1>0, <1>5, ClosedTyped DEF Crash, Reasons
<1>6. QED
  BY <1>0, <1>1, <1>2, <1>3, <1>4, <1>5, ChangesRecs

(* What the writer remembers. *)
LEMMA MemoryTyped ==
    ASSUME memory \in [surfaced : Nat, active : Nat, prompted : [DOMAIN memory.prompted -> Nat]],
           reqs \in Seq(Request), recs \in Seq(Recording), [Next]_vars
    PROVE  memory' \in [surfaced : Nat, active : Nat, prompted : [DOMAIN memory'.prompted -> Nat]]
<1> DEFINE Typed(m) == m \in [surfaced : Nat, active : Nat, prompted : [DOMAIN m.prompted -> Nat]]
<1>1. /\ memory.surfaced \in Nat /\ memory.active \in Nat
      /\ \A r \in DOMAIN memory.prompted : memory.prompted[r] \in Nat
      /\ memory.prompted = [r \in DOMAIN memory.prompted |-> memory.prompted[r]]
      /\ memory = [surfaced |-> memory.surfaced, active |-> memory.active,
                   prompted |-> memory.prompted]
  OBVIOUS
<1>2. \A s \in Nat, a \in Nat : \A p : p \in [DOMAIN p -> Nat] =>
         Typed([surfaced |-> s, active |-> a, prompted |-> p])
  OBVIOUS
<1>3. \A r : [q \in DOMAIN memory.prompted \ {r} |-> memory.prompted[q]]
                \in [DOMAIN memory.prompted \ {r} -> Nat]
  BY <1>1
<1>4. \A D, p : p \in [D -> Nat] => p \in [DOMAIN p -> Nat]
  OBVIOUS
<1>5. <<>> \in [DOMAIN <<>> -> Nat]
  OBVIOUS
<1> HIDE DEF Typed
<1>6. CASE Poll
  <2>1. PICK s, p :
           /\ memory' = [memory EXCEPT !.surfaced = s, !.prompted = p]
           /\ \E rows : /\ DOMAIN rows = DOMAIN reqs
                        /\ s \in {Oldest(rows), Rearmed(rows)}
           /\ p = memory.prompted \/ (CapDue # {} /\ p = Prompts(Min(CapDue)))
    BY <1>6 DEF Poll, WithStatus
  <2>2. ASSUME NEW rows, DOMAIN rows = DOMAIN reqs PROVE Oldest(rows) \in Nat
    <3> DEFINE pending == {id \in DOMAIN rows : rows[id].status = "requested" /\ ~rows[id].overdue}
    <3>1. pending \in SUBSET Nat
      BY <2>2
    <3> HIDE DEF pending
    <3>2. pending # {} => Min(pending) \in Nat
      BY <3>1, MinIn
    <3>3. QED
      BY <3>2 DEF Oldest, pending, None
  <2>3. \A rows : Rearmed(rows) \in Nat
    BY <1>1 DEF Rearmed, None
  <2>4. CapDue # {} => Prompts(Min(CapDue)) \in [DOMAIN Prompts(Min(CapDue)) -> Nat]
    <3> SUFFICES ASSUME CapDue # {}
                 PROVE  Prompts(Min(CapDue)) \in [DOMAIN Prompts(Min(CapDue)) -> Nat]
      OBVIOUS
    <3>1. CapDue \in SUBSET Nat /\ CapDue \subseteq DOMAIN recs
      BY DEF CapDue, OpenRecs
    <3>2. Min(CapDue) \in DOMAIN recs
      BY <3>1, MinIn
    <3>3. recs[Min(CapDue)] \in Recording
      BY <3>2
    <3>4. recs[Min(CapDue)].windows \in Nat
      BY <3>3 DEF Recording
    <3>5. QED
      BY <1>1, <3>4 DEF Prompts
  <2>5. s \in Nat /\ p \in [DOMAIN p -> Nat]
    BY <1>1, <2>1, <2>2, <2>3, <2>4
  <2>6. memory' = [surfaced |-> s, active |-> memory.active, prompted |-> p]
    BY <1>1, <2>1
  <2>7. QED
    BY <1>1, <1>2, <2>5, <2>6 DEF Typed
<1>7. CASE OpenRecording
  <2>1. /\ memory'.surfaced \in {None, memory.surfaced} /\ memory'.active = Len(recs) + 1
        /\ memory'.prompted = [q \in DOMAIN memory.prompted \ {Len(recs) + 1} |-> memory.prompted[q]]
        /\ memory' = [surfaced |-> memory'.surfaced, active |-> memory'.active,
                      prompted |-> memory'.prompted]
    BY <1>1, <1>7 DEF OpenRecording
  <2>2. memory'.surfaced \in Nat /\ memory'.active \in Nat
    BY <1>1, <2>1 DEF None
  <2>3. memory'.prompted \in [DOMAIN memory'.prompted -> Nat]
    BY <1>3, <1>4, <2>1
  <2>4. QED
    BY <1>2, <2>1, <2>2, <2>3 DEF Typed
<1>8. CASE Decline
  <2>1. /\ memory'.surfaced \in {None, memory.surfaced}
        /\ memory' = [surfaced |-> memory'.surfaced, active |-> memory.active,
                      prompted |-> memory.prompted]
    BY <1>1, <1>8 DEF Decline
  <2>2. QED
    BY <1>1, <1>2, <2>1 DEF Typed, None
<1>9. CASE StopRecording
  <2> DEFINE r == Head(commands).rec
  <2>1. \/ UNCHANGED memory
        \/ memory' = [memory EXCEPT !.active = IF @ = r THEN None ELSE @,
                                    !.prompted = [q \in DOMAIN @ \ {r} |-> @[q]]]
    BY <1>9 DEF StopRecording
  <2> HIDE DEF r
  <2>2. CASE UNCHANGED memory
    BY <2>2, Zenon
  <2>3. CASE memory' = [memory EXCEPT !.active = IF @ = r THEN None ELSE @,
                                      !.prompted = [q \in DOMAIN @ \ {r} |-> @[q]]]
    <3>1. /\ memory'.active \in {None, memory.active}
          /\ memory'.prompted = [q \in DOMAIN memory.prompted \ {r} |-> memory.prompted[q]]
          /\ memory' = [surfaced |-> memory.surfaced, active |-> memory'.active,
                        prompted |-> memory'.prompted]
      BY <1>1, <2>3
    <3>2. memory'.active \in Nat
      BY <1>1, <3>1 DEF None
    <3>3. memory'.prompted \in [DOMAIN memory'.prompted -> Nat]
      BY <1>3, <1>4, <3>1
    <3>4. QED
      BY <1>1, <1>2, <3>1, <3>2, <3>3 DEF Typed
  <2>4. QED
    BY <2>1, <2>2, <2>3
<1>10. CASE Erase
  <2>1. \/ UNCHANGED memory
        \/ memory' = [surfaced |-> memory.surfaced, active |-> memory.active, prompted |-> <<>>]
    BY <1>1, <1>10 DEF Erase
  <2>2. CASE UNCHANGED memory
    BY <2>2, Zenon
  <2>3. CASE memory' = [surfaced |-> memory.surfaced, active |-> memory.active, prompted |-> <<>>]
    BY <1>1, <1>2, <1>5, <2>3 DEF Typed
  <2>4. QED
    BY <2>1, <2>2, <2>3
<1>11. CASE Crash
  BY <1>2, <1>5, <1>11 DEF Crash, FreshMemory, None, Typed
<1>12. QED
  BY <1>6, <1>7, <1>8, <1>9, <1>10, <1>11, ChangesMemory

(* What the head of the commands carries. *)
LEMMA HeadTyped ==
    ASSUME commands \in Seq(Command), commands # <<>>
    PROVE  /\ Tail(commands) \in Seq(Command) /\ Len(Tail(commands)) = Len(commands) - 1
           /\ Head(commands) \in Command
           /\ Head(commands).kind = "start" =>
                 Head(commands).id \in Nat /\ Head(commands).token \in Nat
           /\ Head(commands).kind = "decline" => Head(commands).id \in Nat
           /\ Head(commands).kind = "stop" =>
                 Head(commands).rec \in Nat /\ Head(commands).reason \in Reasons
<1>1. Head(commands) \in Command
  BY Taken
<1>2. \A c \in Command :
         /\ c.kind = "start" => c.id \in Nat /\ c.token \in Nat
         /\ c.kind = "decline" => c.id \in Nat
         /\ c.kind = "stop" => c.rec \in Nat /\ c.reason \in Reasons
  BY DEF Command
<1>3. QED
  BY <1>1, <1>2, Taken

Confirmed == [pc : {"confirmed"}, id : Nat, token : Nat]
Asked == [pc : {"open", "waiting", "replied", "done"}, id : Nat, token : Nat, rec : Nat]

LEMMA StartTyped ==
    ASSUME commands \in Seq(Command), start \in {Idle} \cup Confirmed, [Next]_vars
    PROVE  start' \in {Idle} \cup Confirmed
<1>1. CASE ConfirmStart
  <2>1. Head(commands).id \in Nat /\ Head(commands).token \in Nat
    BY <1>1, HeadTyped DEF ConfirmStart, Next1
  <2>2. \/ start' = [pc |-> "confirmed", id |-> Head(commands).id, token |-> Head(commands).token]
        \/ start' = start
    BY <1>1 DEF ConfirmStart
  <2>3. QED
    BY <2>1, <2>2 DEF Confirmed
<1>2. CASE OpenRecording \/ FailRecording \/ Crash
  BY <1>2 DEF OpenRecording, FailRecording, Crash
<1>3. QED
  BY <1>1, <1>2, ChangesStart

LEMMA SlotsTyped ==
    ASSUME requestSlot \in Seq([id : Nat, token : Nat]), capSlot \in Seq(Nat),
           {Len(requestSlot), Len(capSlot)} \subseteq {0, 1}, reqs \in Seq(Request),
           recs \in Seq(Recording), [Next]_vars
    PROVE  /\ requestSlot' \in Seq([id : Nat, token : Nat]) /\ capSlot' \in Seq(Nat)
           /\ {Len(requestSlot'), Len(capSlot')} \subseteq {0, 1}
<1>1. \A e \in [id : Nat, token : Nat] :
         <<e>> \in Seq([id : Nat, token : Nat]) /\ Len(<<e>>) = 1
  OBVIOUS
<1>2. \A e \in Nat : <<e>> \in Seq(Nat) /\ Len(<<e>>) = 1
  OBVIOUS
<1>3. <<>> \in Seq([id : Nat, token : Nat]) /\ <<>> \in Seq(Nat) /\ Len(<<>>) = 0
  OBVIOUS
<1>4. requestSlot' \in Seq([id : Nat, token : Nat]) /\ Len(requestSlot') \in {0, 1}
  <2>1. CASE Poll
    <3> DEFINE late == {id \in DOMAIN reqs : Waiting(id) /\ reqs[id].overdue}
    <3>1. PICK expires \in BOOLEAN :
             LET rows == IF expires THEN WithStatus(late, "expired") ELSE reqs
             IN  \/ UNCHANGED requestSlot
                 \/ /\ Oldest(rows) # None
                    /\ requestSlot' = <<[id |-> Oldest(rows), token |-> rows[Oldest(rows)].token]>>
      BY <2>1 DEF Poll
    <3> DEFINE rows == IF expires THEN WithStatus(late, "expired") ELSE reqs
               oldest == Oldest(rows)
               pending == {id \in DOMAIN rows : rows[id].status = "requested" /\ ~rows[id].overdue}
    <3>2. rows \in Seq(Request)
      BY StatusTyped DEF Statuses, Pending
    <3>3. \/ UNCHANGED requestSlot
          \/ oldest # None /\ requestSlot' = <<[id |-> oldest, token |-> rows[oldest].token]>>
      BY <3>1
    <3> HIDE DEF rows
    <3>4. pending \in SUBSET Nat /\ pending \subseteq DOMAIN rows
      BY <3>2
    <3>5. oldest # None => pending # {} /\ oldest = Min(pending)
      BY DEF Oldest
    <3> HIDE DEF pending, oldest
    <3>6. oldest # None => oldest \in DOMAIN rows /\ oldest \in Nat
      BY <3>4, <3>5, MinIn
    <3>7. oldest # None => rows[oldest] \in Request
      BY <3>2, <3>6
    <3>8. oldest # None => [id |-> oldest, token |-> rows[oldest].token] \in [id : Nat, token : Nat]
      BY <3>6, <3>7 DEF Request
    <3>9. CASE UNCHANGED requestSlot
      BY <3>9
    <3>10. CASE oldest # None /\ requestSlot' = <<[id |-> oldest, token |-> rows[oldest].token]>>
      BY <1>1, <3>8, <3>10, Zenon
    <3>11. QED
      BY <3>3, <3>9, <3>10
  <2>2. CASE TakeRequest \/ Crash
    BY <1>3, <2>2 DEF TakeRequest, Crash
  <2>3. QED
    BY <2>1, <2>2, ChangesRequestSlot
<1>5. capSlot' \in Seq(Nat) /\ Len(capSlot') \in {0, 1}
  <2>1. CASE Poll
    <3>1. UNCHANGED capSlot \/ (CapDue # {} /\ capSlot' = <<Min(CapDue)>>)
      BY <2>1 DEF Poll
    <3>2. CapDue \in SUBSET Nat
      BY DEF CapDue, OpenRecs
    <3>3. ASSUME CapDue # {}, capSlot' = <<Min(CapDue)>>
          PROVE  capSlot' \in Seq(Nat) /\ Len(capSlot') \in {0, 1}
      BY <1>2, <3>2, <3>3, MinIn
    <3>4. QED
      BY <3>1, <3>3
  <2>2. CASE TakeCap \/ Crash
    BY <1>3, <2>2 DEF TakeCap, Crash
  <2>3. QED
    BY <2>1, <2>2, ChangesCapSlot
<1>6. QED
  BY <1>4, <1>5

Waits == [pc : {"open", "done"}, rec : Nat]

(* The queues between the threads. *)
LEMMA CommandsTyped ==
    ASSUME commands \in Seq(Command), Len(commands) <= CommandBound,
           dialog \in {Idle} \cup Asked, stops \subseteq StopThread, [Next]_vars
    PROVE  commands' \in Seq(Command) /\ Len(commands') <= CommandBound
<1>1. ASSUME NEW c \in Command, Send(c)
      PROVE  commands' \in Seq(Command) /\ Len(commands') <= CommandBound
  <2>1. Len(commands) < CommandBound /\ commands' = Append(commands, c) /\ CommandBound = 4
    BY <1>1 DEF Send, CommandBound
  <2>2. commands' \in Seq(Command) /\ Len(commands') = Len(commands) + 1 /\ Len(commands) \in Nat
    BY <2>1, Added
  <2>3. QED
    BY <2>1, <2>2
<1>2. CASE ConfirmStart \/ Decline \/ StopRecording \/ Erase
  <2>1. commands # <<>> /\ commands' = Tail(commands)
    BY <1>2 DEF ConfirmStart, Decline, StopRecording, Erase, Next1
  <2>2. commands' \in Seq(Command) /\ Len(commands') = Len(commands) - 1 /\ Len(commands) \in Nat
    BY <2>1, Taken
  <2>3. QED
    BY <2>2 DEF CommandBound
<1>3. CASE AcceptStart
  <2>1. dialog.id \in Nat /\ dialog.token \in Nat
    BY <1>3 DEF AcceptStart, Asked, Idle
  <2>2. [kind |-> "start", id |-> dialog.id, token |-> dialog.token] \in Command
    BY <2>1 DEF Command
  <2>3. QED
    BY <1>1, <1>3, <2>2 DEF AcceptStart
<1>4. CASE RefuseStart
  <2>1. dialog.id \in Nat
    BY <1>4 DEF RefuseStart, Asked, Idle
  <2>2. [kind |-> "decline", id |-> dialog.id] \in Command
    BY <2>1 DEF Command
  <2>3. QED
    BY <1>1, <1>4, <2>2 DEF RefuseStart
<1>5. CASE \E t \in stops : SendStop(t)
  <2>1. PICK t \in stops : Send([kind |-> "stop", rec |-> t.rec, reason |-> t.reason])
    BY <1>5 DEF SendStop
  <2>2. t.rec \in Nat /\ t.reason \in Reasons
    BY DEF StopThread
  <2>3. [kind |-> "stop", rec |-> t.rec, reason |-> t.reason] \in Command
    BY <2>2 DEF Command
  <2>4. QED
    BY <1>1, <2>1, <2>3
<1>6. CASE ConfirmPrivacy
  <2>1. [kind |-> "erase"] \in Command
    BY DEF Command
  <2>2. QED
    BY <1>1, <1>6, <2>1 DEF ConfirmPrivacy
<1>7. CASE Crash
  BY <1>7 DEF Crash, CommandBound
<1>8. QED
  BY <1>2, <1>3, <1>4, <1>5, <1>6, <1>7, ChangesCommands

LEMMA EventsTyped ==
    ASSUME events \in Seq(Event), dialog \in {Idle} \cup Asked, capDialog \in {Idle} \cup Waits,
           tray \in [active : Nat, stopping : Nat], stops \subseteq StopThread, [Next]_vars
    PROVE  events' \in Seq(Event)
<1>1. ASSUME NEW e \in Event, Tell(e)
      PROVE  events' \in Seq(Event)
  BY <1>1 DEF Tell
<1>2. \A kind \in {"started", "failed", "stopped", "stop_for_safety_cap"}, r \in Nat :
         [kind |-> kind, rec |-> r] \in Event
  BY DEF Event
<1>3. CASE ReportStart
  <2>1. dialog.rec \in Nat
    BY <1>3 DEF ReportStart, Asked, Idle
  <2>2. QED
    BY <1>1, <1>2, <1>3, <2>1 DEF ReportStart, None
<1>4. CASE AnswerCap
  <2>1. capDialog.rec \in Nat
    BY <1>4 DEF AnswerCap, Waits, Idle
  <2>2. QED
    BY <1>1, <1>2, <1>4, <2>1 DEF AnswerCap
<1>5. CASE HandleCapStop \/ HandleStarted \/ HandleStopped \/ HandleFailed
  <2>1. events # <<>> /\ events' = Tail(events)
    BY <1>5 DEF HandleCapStop, HandleStarted, HandleStopped, HandleFailed
  <2>2. QED
    BY <2>1
<1>6. CASE EndLane
  BY <1>1, <1>2, <1>6 DEF EndLane
<1>7. CASE \E t \in stops : ReportStop(t)
  <2>1. PICK t \in stops : t.pc \in {"stopped", "failed"} /\ Tell([kind |-> t.pc, rec |-> t.rec])
    BY <1>7 DEF ReportStop
  <2>2. t.rec \in Nat
    BY DEF StopThread
  <2>3. QED
    BY <1>1, <1>2, <2>1, <2>2
<1>8. CASE Crash
  BY <1>8 DEF Crash
<1>9. QED
  BY <1>3, <1>4, <1>5, <1>6, <1>7, <1>8, ChangesEvents

(* The head of the events. *)
LEMMA EventTyped ==
    ASSUME events \in Seq(Event), events # <<>>
    PROVE  Head(events) \in Event /\ Head(events).rec \in Nat /\ Tail(events) \in Seq(Event)
<1>1. Head(events) \in Event
  BY Taken
<1>2. QED
  BY <1>1, Taken DEF Event

(* The threads. *)
LEMMA DialogTyped ==
    ASSUME TypeOK, Prompt, [Next]_vars
    PROVE  dialog' \in {Idle} \cup Asked
<1>1. dialog \in {Idle} \cup Asked
  BY DEF TypeOK, Asked
<1>2. \A pc \in {"open", "waiting", "replied", "done"}, r \in Nat :
         dialog \in Asked => [dialog EXCEPT !.pc = pc, !.rec = r] \in Asked
                             /\ [dialog EXCEPT !.pc = pc] \in Asked
  BY DEF Asked
<1>3. \A id \in Nat, token \in Nat : Asking(id, token) \in Asked
  BY DEF Asking, Asked, None
<1>4. Idle.pc = "idle"
  BY DEF Idle
<1>5. CASE ConfirmStart
  <2>1. commands # <<>> /\ Head(commands).kind = "start"
    BY <1>5 DEF ConfirmStart, Next1
  <2>2. Has(commands, "start")
    BY <2>1, HasTaken DEF TypeOK
  <2>3. dialog.pc = "waiting"
    BY <2>2 DEF Prompt
  <2>4. QED
    BY <1>1, <1>2, <1>4, <1>5, <2>3 DEF ConfirmStart, None
<1>6. CASE OpenRecording \/ FailRecording
  <2>1. dialog.pc = "waiting"
    BY <1>6 DEF Prompt, OpenRecording, FailRecording
  <2>2. Len(recs) + 1 \in Nat
    BY DEF TypeOK
  <2>3. QED
    BY <1>1, <1>2, <1>4, <1>6, <2>1, <2>2 DEF OpenRecording, FailRecording, None
<1>7. CASE TakeRequest
  <2>1. Head(requestSlot).id \in Nat /\ Head(requestSlot).token \in Nat
    <3>1. requestSlot \in Seq([id : Nat, token : Nat]) /\ requestSlot # <<>>
      BY <1>7 DEF TakeRequest, TypeOK
    <3>2. Head(requestSlot) \in [id : Nat, token : Nat]
      BY <3>1, Taken
    <3>3. QED
      BY <3>2
  <2>2. QED
    BY <1>1, <1>3, <1>7, <2>1 DEF TakeRequest, SpawnDialog
<1>8. CASE ManualRequest
  BY <1>1, <1>3, <1>8 DEF ManualRequest, SpawnDialog, None
<1>9. CASE AcceptStart \/ RefuseStart \/ ReportStart
  BY <1>1, <1>2, <1>4, <1>9 DEF AcceptStart, RefuseStart, ReportStart
<1>10. CASE EndDialog \/ Crash
  BY <1>10 DEF EndDialog, Crash
<1>11. QED
  BY <1>1, <1>5, <1>6, <1>7, <1>8, <1>9, <1>10, ChangesDialog

LEMMA CapDialogTyped ==
    ASSUME capDialog \in {Idle} \cup Waits, capSlot \in Seq(Nat), [Next]_vars
    PROVE  capDialog' \in {Idle} \cup Waits
<1>1. CASE TakeCap
  <2>1. Head(capSlot) \in Nat
    BY <1>1 DEF TakeCap
  <2>2. QED
    BY <1>1, <2>1 DEF TakeCap, Waits
<1>2. CASE AnswerCap
  BY <1>2 DEF AnswerCap, Waits, Idle
<1>3. CASE EndCapDialog \/ Crash
  BY <1>3 DEF EndCapDialog, Crash
<1>4. QED
  BY <1>1, <1>2, <1>3, ChangesCapDialog

LEMMA StopsTyped ==
    ASSUME stops \subseteq StopThread, tray \in [active : Nat, stopping : Nat],
           events \in Seq(Event), [Next]_vars
    PROVE  stops' \subseteq StopThread
<1>1. ASSUME NEW r, NEW from, NEW to \in {"waiting", "stopped", "failed"}
      PROVE  Step(stops, r, from, to) \subseteq StopThread
  BY DEF Step, StopThread
<1>2. ASSUME NEW r \in Nat, NEW reason \in Reasons, SpawnStop(r, reason)
      PROVE  stops' \subseteq StopThread
  BY <1>2 DEF SpawnStop, StopThread
<1>3. {"safety_cap_stop", "error", "user_stop"} \subseteq Reasons
  BY DEF Reasons
<1>4. CASE StopRecording
  BY <1>1, <1>4 DEF StopRecording
<1>5. CASE HandleCapStop \/ HandleStarted \/ HandleFailed
  <2>1. Head(events).rec \in Nat
    BY <1>5, EventTyped DEF HandleCapStop, HandleStarted, HandleFailed
  <2>2. \/ UNCHANGED stops
        \/ \E reason \in Reasons : SpawnStop(Head(events).rec, reason)
    BY <1>3, <1>5 DEF HandleCapStop, HandleStarted, HandleFailed, Stop
  <2>3. QED
    BY <1>2, <2>1, <2>2
<1>6. CASE StopPressed
  <2>1. UNCHANGED stops \/ SpawnStop(tray.active, "user_stop")
    BY <1>6 DEF StopPressed, Stop
  <2>2. QED
    BY <1>2, <1>3, <2>1
<1>7. CASE (\E t \in stops : SendStop(t)) \/ (\E t \in stops : ReportStop(t))
  <2>1. \/ \E t \in stops : stops' = Step(stops, t.rec, "sending", "waiting")
        \/ \E t \in stops : stops' = stops \ {t}
    BY <1>7 DEF SendStop, ReportStop
  <2>2. QED
    BY <1>1, <2>1
<1>8. CASE Crash
  BY <1>8 DEF Crash
<1>9. QED
  BY <1>4, <1>5, <1>6, <1>7, <1>8, ChangesStops

LEMMA TrayTyped ==
    ASSUME tray \in [active : Nat, stopping : Nat], tray.stopping \in {None, tray.active},
           events \in Seq(Event), [Next]_vars
    PROVE  tray' \in [active : Nat, stopping : Nat] /\ tray'.stopping \in {None, tray'.active}
<1>1. FreshTray \in [active : Nat, stopping : Nat] /\ FreshTray.stopping = None
  BY DEF FreshTray, None
<1>2. ASSUME NEW r \in Nat, tray.active = r, tray' = [tray EXCEPT !.stopping = r]
      PROVE  tray' \in [active : Nat, stopping : Nat] /\ tray'.stopping = tray'.active
  BY <1>2
<1>3. CASE HandleCapStop
  <2>1. UNCHANGED tray \/ (tray.active = Head(events).rec
                            /\ tray' = [tray EXCEPT !.stopping = Head(events).rec])
    BY <1>3 DEF HandleCapStop, Stop
  <2>2. QED
    BY <1>2, <2>1
<1>4. CASE HandleStarted
  <2>1. Head(events).rec \in Nat
    BY <1>4, EventTyped DEF HandleStarted
  <2>2. QED
    BY <1>4, <2>1 DEF HandleStarted, None
<1>5. CASE HandleStopped \/ HandleFailed
  BY <1>1, <1>5 DEF HandleStopped, HandleFailed
<1>6. CASE StopPressed
  <2>1. UNCHANGED tray \/ tray' = [tray EXCEPT !.stopping = tray.active]
    BY <1>6 DEF StopPressed, Stop
  <2>2. QED
    BY <1>2, <2>1
<1>7. CASE Crash
  BY <1>1, <1>7 DEF Crash
<1>8. QED
  BY <1>3, <1>4, <1>5, <1>6, <1>7, ChangesTray

LEMMA FlagsTyped ==
    ASSUME TypeOK, [Next]_vars
    PROVE  /\ prompting' \in BOOLEAN /\ acting' \in BOOLEAN /\ lane' \in BOOLEAN
           /\ erased' \in BOOLEAN /\ unmarked' \in BOOLEAN
           /\ privacy' \in {"idle", "asking", "erasing", "answered"}
           /\ used' \in [asked : Nat, upsets : Nat]
<1>1. /\ prompting \in BOOLEAN /\ acting \in BOOLEAN /\ lane \in BOOLEAN
      /\ erased \in BOOLEAN /\ unmarked \in BOOLEAN
      /\ privacy \in {"idle", "asking", "erasing", "answered"}
      /\ used \in [asked : Nat, upsets : Nat]
  BY DEF TypeOK
<1>2. prompting' \in BOOLEAN
  BY <1>1, ChangesPrompting
  DEF TakeRequest, ManualRequest, SpawnDialog, TakeCap, EndDialog, EndCapDialog, Crash
<1>3. acting' \in BOOLEAN
  BY <1>1, ChangesActing
  DEF TakeRequest, ManualRequest, SpawnDialog, EndDialog, PausePressed, EndLane, Crash
<1>4. lane' \in BOOLEAN
  BY <1>1, ChangesLane DEF PausePressed, EndLane, Crash
<1>5. erased' \in BOOLEAN
  BY <1>1, ChangesErased DEF Erase
<1>6. unmarked' \in BOOLEAN
  BY <1>1, ChangesUnmarked DEF FailRecording, Crash
<1>7. privacy' \in {"idle", "asking", "erasing", "answered"}
  BY <1>1, ChangesPrivacy DEF Erase, BeginPrivacy, ConfirmPrivacy, EndPrivacy, Crash
<1>8. used' \in [asked : Nat, upsets : Nat]
  <2>1. \/ used' = used
        \/ used' = [used EXCEPT !.upsets = @ + 1]
        \/ used' = [used EXCEPT !.asked = @ + 1]
    BY ChangesUsed
    DEF StopRecording, ManualRequest, PausePressed, BeginPrivacy, RequestRecording, Crash
  <2>2. QED
    BY <1>1, <2>1
<1>9. QED
  BY <1>2, <1>3, <1>4, <1>5, <1>6, <1>7, <1>8

LEMMA TypeStep ==
    ASSUME TypeOK, Prompt, [Next]_vars
    PROVE  TypeOK'
<1> USE DEF Confirmed, Asked, Waits
<1>1. reqs' \in Seq(Request) /\ recs' \in Seq(Recording)
  BY ReqsTyped, RecsTyped
<1>2. memory' \in [surfaced : Nat, active : Nat, prompted : [DOMAIN memory'.prompted -> Nat]]
  BY MemoryTyped DEF TypeOK
<1>3. start' \in {Idle} \cup Confirmed
  BY StartTyped DEF TypeOK
<1>4. /\ requestSlot' \in Seq([id : Nat, token : Nat]) /\ capSlot' \in Seq(Nat)
      /\ {Len(requestSlot'), Len(capSlot')} \subseteq {0, 1}
  BY SlotsTyped DEF TypeOK
<1>5. commands' \in Seq(Command) /\ Len(commands') <= CommandBound
  BY CommandsTyped DEF TypeOK
<1>6. events' \in Seq(Event)
  BY EventsTyped DEF TypeOK
<1>7. dialog' \in {Idle} \cup Asked
  BY DialogTyped
<1>8. capDialog' \in {Idle} \cup Waits
  BY CapDialogTyped DEF TypeOK
<1>9. stops' \subseteq StopThread
  BY StopsTyped DEF TypeOK
<1>10. tray' \in [active : Nat, stopping : Nat] /\ tray'.stopping \in {None, tray'.active}
  BY TrayTyped DEF TypeOK
<1>11. QED
  BY <1>1, <1>2, <1>3, <1>4, <1>5, <1>6, <1>7, <1>8, <1>9, <1>10, FlagsTyped DEF TypeOK

-----------------------------------------------------------------------------
(* A dialog that goes on is under way. *)
Goes(d, pc, e) == e = [d EXCEPT !.pc = pc] \/ \E r : e = [d EXCEPT !.pc = pc, !.rec = r]

LEMMA Moved ==
    ASSUME NEW d \in Asked, NEW pc \in {"open", "waiting", "replied", "done"}, NEW e, Goes(d, pc, e)
    PROVE  d # Idle /\ e # Idle /\ e.pc = pc
<1>1. Idle.pc = "idle" /\ pc # "idle" /\ d.pc # "idle"
  BY DEF Idle, Asked
<1>2. e.pc = pc
  BY DEF Asked, Goes
<1>3. QED
  BY <1>1, <1>2

LEMMA MovedCap ==
    ASSUME NEW d \in Waits
    PROVE  d # Idle /\ [d EXCEPT !.pc = "done"] # Idle
<1>1. Idle.pc = "idle" /\ d.pc # "idle" /\ [d EXCEPT !.pc = "done"].pc = "done"
  BY DEF Idle, Waits
<1>2. QED
  BY <1>1

(* One prompt at a time. *)
LEMMA PromptStep ==
    ASSUME TypeOK, Prompt, [Next]_vars
    PROVE  Prompt'
<1> DEFINE Kept(kind) == /\ Has(commands', kind) => Has(commands, kind)
                         /\ AtMostOne(commands, kind) => AtMostOne(commands', kind)
           Sent(c) == \A kind : /\ Has(commands', kind) <=> Has(commands, kind) \/ c.kind = kind
                                /\ AtMostOne(commands, kind) /\ (c.kind # kind \/ ~Has(commands, kind))
                                      => AtMostOne(commands', kind)
<1>1. /\ commands \in Seq(Command) /\ dialog \in {Idle} \cup Asked
      /\ capDialog \in {Idle} \cup Waits /\ stops \subseteq StopThread
      /\ dialog' \in {Idle} \cup Asked /\ Idle.pc = "idle"
  BY DialogTyped DEF TypeOK, Asked, Waits, Idle
<1>2. \A pc \in {"open", "waiting", "replied", "done"} :
         dialog \in Asked /\ Goes(dialog, pc, dialog')
            => dialog # Idle /\ dialog' # Idle /\ dialog'.pc = pc
  BY Moved
<1>3. \A id, token : Asking(id, token).pc = "open" /\ Asking(id, token) # Idle
  BY DEF Asking, Idle
<1>4. \A r : [pc |-> "open", rec |-> r] # Idle
  BY DEF Idle
<1>5. capDialog \in Waits => capDialog # Idle /\ [capDialog EXCEPT !.pc = "done"] # Idle
  BY MovedCap
<1>6. (ConfirmStart \/ Decline \/ StopRecording \/ Erase) =>
         /\ \A kind : Kept(kind)
         /\ \A kind : AtMostOne(commands, kind) /\ Head(commands).kind = kind => ~Has(commands', kind)
         /\ Has(commands, Head(commands).kind)
  <2> SUFFICES ASSUME ConfirmStart \/ Decline \/ StopRecording \/ Erase
               PROVE  /\ \A kind : Kept(kind)
                      /\ \A kind : AtMostOne(commands, kind) /\ Head(commands).kind = kind
                                      => ~Has(commands', kind)
                      /\ Has(commands, Head(commands).kind)
    OBVIOUS
  <2>1. commands # <<>> /\ commands' = Tail(commands)
    BY DEF ConfirmStart, Decline, StopRecording, Erase, Next1
  <2>2. QED
    BY <1>1, <2>1, HasTaken
<1>7. ASSUME NEW c \in Command, Send(c) PROVE Sent(c)
  BY <1>1, <1>7, HasAdded DEF Send
<1>8. CASE ConfirmStart
  <2>1. /\ UNCHANGED <<prompting, privacy, capDialog>>
        /\ Head(commands).kind = "start"
        /\ \/ start' # Idle /\ dialog' = dialog
           \/ start' = start /\ start = Idle /\ Goes(dialog, "replied", dialog')
    <3>1. \A id, token : [pc |-> "confirmed", id |-> id, token |-> token] # Idle
      BY DEF Idle
    <3>2. \A d : d = [dialog EXCEPT !.pc = "replied", !.rec = None] => Goes(dialog, "replied", d)
      BY DEF Goes
    <3>3. UNCHANGED <<prompting, privacy, capDialog>> /\ Head(commands).kind = "start"
      BY <1>8, Frames DEF ConfirmStart, Next1
    <3>4. QED
      BY <1>8, <3>1, <3>2, <3>3 DEF ConfirmStart, Next1
  <2>2. dialog.pc = "waiting" /\ dialog \in Asked
    BY <1>1, <1>6, <1>8, <2>1 DEF Prompt
  <2>3. ~Has(commands', "start")
    BY <1>6, <1>8, <2>1 DEF Prompt
  <2>4. OnePrompt' /\ dialog'.pc \in {"waiting", "replied"} /\ (start' # Idle => dialog'.pc = "waiting")
    BY <1>2, <2>1, <2>2 DEF Prompt, OnePrompt
  <2>5. QED
    BY <1>6, <1>8, <2>1, <2>3, <2>4 DEF Prompt
<1>9. CASE OpenRecording \/ FailRecording
  <2>1. UNCHANGED <<prompting, privacy, capDialog, commands>> /\ start # Idle /\ start' = Idle
    BY <1>9, Frames DEF OpenRecording, FailRecording
  <2>2. dialog.pc = "waiting" /\ dialog \in Asked /\ ~Has(commands, "start")
    BY <1>1, <2>1 DEF Prompt
  <2>3. Goes(dialog, "replied", dialog')
    BY <1>9 DEF Goes, OpenRecording, FailRecording
  <2>4. OnePrompt'
    BY <1>2, <2>1, <2>2, <2>3 DEF Prompt, OnePrompt
  <2>5. QED
    BY <2>1, <2>2, <2>4 DEF Prompt
<1>10. CASE Decline \/ StopRecording
  <2>1. UNCHANGED <<prompting, privacy, dialog, capDialog, start>>
    BY <1>10, Frames
  <2>2. QED
    BY <1>6, <1>10, <2>1 DEF Prompt, OnePrompt
<1>11. CASE Erase
  <2>1. /\ UNCHANGED <<prompting, dialog, capDialog, start>>
        /\ Head(commands).kind = "erase" /\ privacy' = "answered"
    BY <1>11, Frames DEF Erase, Next1
  <2>2. privacy = "erasing" /\ ~Has(commands', "erase")
    BY <1>6, <1>11, <2>1 DEF Prompt
  <2>3. QED
    BY <1>6, <1>11, <2>1, <2>2 DEF Prompt, OnePrompt
<1>12. CASE TakeRequest \/ ManualRequest
  <2>1. /\ UNCHANGED <<privacy, capDialog, start, commands>>
        /\ \/ UNCHANGED <<prompting, dialog>>
           \/ /\ privacy = "idle" /\ ~prompting /\ prompting'
              /\ \E id, token : dialog' = Asking(id, token)
    BY <1>12, Frames DEF TakeRequest, ManualRequest, SpawnDialog
  <2>2. CASE UNCHANGED <<prompting, dialog>>
    BY <2>1, <2>2 DEF Prompt, OnePrompt
  <2>3. CASE ~UNCHANGED <<prompting, dialog>>
    <3>1. dialog = Idle /\ capDialog = Idle /\ dialog' # Idle
      BY <1>3, <2>1, <2>3 DEF Prompt, OnePrompt
    <3>2. start = Idle /\ ~Has(commands, "start")
      BY <1>1, <3>1 DEF Prompt
    <3>3. QED
      BY <2>1, <2>3, <3>1, <3>2 DEF Prompt, OnePrompt
  <2>4. QED
    BY <2>2, <2>3
<1>13. CASE AcceptStart
  <2>1. /\ UNCHANGED <<prompting, privacy, capDialog, start>>
        /\ dialog.pc = "open" /\ Goes(dialog, "waiting", dialog')
    BY <1>13, Frames DEF AcceptStart, Goes
  <2>2. dialog \in Asked
    BY <1>1, <2>1
  <2>3. Sent([kind |-> "start", id |-> dialog.id, token |-> dialog.token])
    <3>1. [kind |-> "start", id |-> dialog.id, token |-> dialog.token] \in Command
      BY <2>2 DEF Asked, Command
    <3>2. QED
      BY <1>7, <1>13, <3>1 DEF AcceptStart
  <2>4. start = Idle /\ ~Has(commands, "start")
    BY <2>1 DEF Prompt
  <2>5. dialog'.pc = "waiting" /\ OnePrompt'
    BY <1>2, <2>1, <2>2 DEF Prompt, OnePrompt
  <2>6. QED
    BY <2>1, <2>3, <2>4, <2>5 DEF Prompt
<1>14. CASE RefuseStart \/ ReportStart
  <2>1. /\ UNCHANGED <<prompting, privacy, capDialog, start>>
        /\ dialog.pc \in {"open", "replied"} /\ Goes(dialog, "done", dialog')
    BY <1>14, Frames DEF RefuseStart, ReportStart, Goes
  <2>2. dialog \in Asked
    BY <1>1, <2>1
  <2>3. \A kind \in {"start", "erase"} : Kept(kind)
    <3>1. CASE UNCHANGED commands
      BY <3>1, Zenon
    <3>2. CASE Send([kind |-> "decline", id |-> dialog.id])
      <4>1. [kind |-> "decline", id |-> dialog.id] \in Command
        BY <2>2 DEF Asked, Command
      <4>2. QED
        BY <1>7, <3>2, <4>1
    <3>3. QED
      BY <1>14, <3>1, <3>2, Frames DEF RefuseStart
  <2>4. start = Idle /\ ~Has(commands, "start")
    BY <2>1 DEF Prompt
  <2>5. OnePrompt'
    BY <1>2, <2>1, <2>2 DEF Prompt, OnePrompt
  <2>6. QED
    BY <2>1, <2>3, <2>4, <2>5 DEF Prompt
<1>15. CASE EndDialog
  <2>1. /\ UNCHANGED <<privacy, capDialog, start, commands>>
        /\ dialog.pc = "done" /\ dialog' = Idle /\ ~prompting'
    BY <1>15, Frames DEF EndDialog
  <2>2. dialog # Idle /\ start = Idle /\ ~Has(commands, "start")
    BY <1>1, <2>1 DEF Prompt
  <2>3. QED
    BY <2>1, <2>2 DEF Prompt, OnePrompt
<1>16. CASE TakeCap
  <2>1. /\ UNCHANGED <<privacy, dialog, start, commands>>
        /\ \/ UNCHANGED <<prompting, capDialog>>
           \/ ~prompting /\ prompting' /\ \E r : capDialog' = [pc |-> "open", rec |-> r]
    BY <1>16, Frames DEF TakeCap
  <2>2. QED
    BY <1>4, <2>1 DEF Prompt, OnePrompt
<1>17. CASE AnswerCap
  <2>1. /\ UNCHANGED <<prompting, privacy, dialog, start, commands>>
        /\ capDialog.pc = "open" /\ capDialog' = [capDialog EXCEPT !.pc = "done"]
    BY <1>17, Frames DEF AnswerCap
  <2>2. capDialog \in Waits
    BY <1>1, <2>1
  <2>3. capDialog # Idle /\ capDialog' # Idle
    BY <1>5, <2>1, <2>2
  <2>4. QED
    BY <2>1, <2>3 DEF Prompt, OnePrompt
<1>18. CASE EndCapDialog
  <2>1. /\ UNCHANGED <<privacy, dialog, start, commands>>
        /\ capDialog.pc = "done" /\ capDialog' = Idle /\ ~prompting'
    BY <1>18, Frames DEF EndCapDialog
  <2>2. capDialog # Idle
    BY <1>1, <2>1
  <2>3. QED
    BY <2>1, <2>2 DEF Prompt, OnePrompt
<1>19. CASE \E t \in stops : SendStop(t)
  <2>1. PICK t \in stops : SendStop(t)
    BY <1>19
  <2>2. UNCHANGED <<prompting, privacy, dialog, capDialog, start>>
    BY <2>1, Frames
  <2>3. [kind |-> "stop", rec |-> t.rec, reason |-> t.reason] \in Command
    <3>1. t \in StopThread
      BY <1>1
    <3>2. QED
      BY <3>1 DEF StopThread, Command
  <2>4. Sent([kind |-> "stop", rec |-> t.rec, reason |-> t.reason])
    BY <1>7, <2>1, <2>3 DEF SendStop
  <2>5. QED
    BY <2>2, <2>4 DEF Prompt, OnePrompt
<1>20. CASE BeginPrivacy \/ EndPrivacy
  <2>1. /\ UNCHANGED <<prompting, dialog, capDialog, start, commands>>
        /\ privacy \in {"idle", "answered"} /\ (privacy' # "idle" => ~prompting)
    BY <1>20, Frames DEF BeginPrivacy, EndPrivacy
  <2>2. QED
    BY <2>1 DEF Prompt, OnePrompt
<1>21. CASE ConfirmPrivacy
  <2>1. UNCHANGED <<prompting, dialog, capDialog, start>> /\ privacy = "asking" /\ privacy' # "idle"
    BY <1>21, Frames DEF ConfirmPrivacy
  <2>2. [kind |-> "erase"] \in Command
    BY DEF Command
  <2>3. \/ privacy' = "erasing" /\ Sent([kind |-> "erase"])
        \/ UNCHANGED commands
    BY <1>7, <1>21, <2>2 DEF ConfirmPrivacy
  <2>4. ~Has(commands, "erase")
    BY <2>1 DEF Prompt
  <2>5. QED
    BY <2>1, <2>3, <2>4 DEF Prompt, OnePrompt
<1>22. CASE Crash
  <2>1. /\ dialog' = Idle /\ capDialog' = Idle /\ privacy' = "idle" /\ ~prompting'
        /\ start' = Idle /\ commands' = <<>>
    BY <1>22 DEF Crash
  <2>2. \A kind : ~Has(<<>>, kind) /\ AtMostOne(<<>>, kind)
    BY DEF Has, AtMostOne
  <2>3. QED
    BY <2>1, <2>2 DEF Prompt, OnePrompt
<1>23. CASE UNCHANGED <<prompting, privacy, dialog, capDialog, start, commands>>
  BY <1>23 DEF Prompt, OnePrompt
<1>24. QED
  BY <1>8, <1>9, <1>10, <1>11, <1>12, <1>13, <1>14, <1>15, <1>16, <1>17, <1>18, <1>19, <1>20,
     <1>21, <1>22, <1>23, ChangesPrompting, ChangesPrivacy, ChangesDialog, ChangesCapDialog,
     ChangesStart, ChangesCommands

-----------------------------------------------------------------------------
(* A request and its recording name each other, and what the writer is about *)
(* to start is the request it has confirmed.                                *)
ReqInv ==
    /\ StartedOnce
    /\ \A id \in DOMAIN reqs : reqs[id].by # None => reqs[id].by \in DOMAIN recs
    /\ ConfirmedInStart
    /\ start # Idle => start.id = None
                       \/ (start.id \in DOMAIN reqs /\ reqs[start.id].status = "confirmed")

(* The rows are decided: what was pending may be decided otherwise than by a  *)
(* recording, and none but new is confirmed.                                *)
Decided(rows, new) ==
    /\ DOMAIN rows = DOMAIN reqs
    /\ \A id \in DOMAIN reqs :
          /\ rows[id].by = reqs[id].by /\ rows[id].token = reqs[id].token
          /\ \/ rows[id].status = reqs[id].status
             \/ /\ reqs[id].status \in Pending /\ rows[id].status # "started"
                /\ rows[id].status = "confirmed" => id = new

LEMMA StatusDecided ==
    ASSUME reqs \in Seq(Request), NEW ids, NEW status, NEW new,
           \A id \in DOMAIN reqs \cap ids :
              reqs[id].status \in Pending /\ status # "started" /\ (status = "confirmed" => id = new)
    PROVE  Decided(WithStatus(ids, status), new)
BY StatusSet DEF Decided

(* Which steps decide. *)
LEMMA Decisions ==
    ASSUME TypeOK, ReqInv, [Next]_vars
    PROVE  /\ (Poll \/ FailRecording \/ Decline \/ (\E id \in DOMAIN reqs : Overdue(id)) \/ Crash)
                => Decided(reqs', None)
           /\ ConfirmStart =>
                \/ UNCHANGED <<reqs, start>>
                \/ /\ start' # Idle /\ Decided(reqs', start'.id)
                   /\ \/ start'.id = None
                      \/ start'.id \in DOMAIN reqs /\ reqs'[start'.id].status = "confirmed"
           /\ (\E id \in DOMAIN reqs : Overdue(id)) =>
                \A id \in DOMAIN reqs : reqs'[id].status = reqs[id].status
<1>1. reqs \in Seq(Request) /\ Pending = {"requested", "confirmed"} /\ None \notin DOMAIN reqs
  BY DEF TypeOK, Pending, None
<1>2. ASSUME Poll PROVE Decided(reqs', None)
  <2> DEFINE late == {id \in DOMAIN reqs : Waiting(id) /\ reqs[id].overdue}
  <2>1. PICK expires \in BOOLEAN :
           LET rows == IF expires THEN WithStatus(late, "expired") ELSE reqs
               oldest == Oldest(rows)
           IN  reqs' = rows \/ (oldest # None /\ reqs' = [rows EXCEPT ![oldest].status = "failed"])
    BY <1>2 DEF Poll
  <2> DEFINE rows == IF expires THEN WithStatus(late, "expired") ELSE reqs
             oldest == Oldest(rows)
             pending == {id \in DOMAIN rows : rows[id].status = "requested" /\ ~rows[id].overdue}
  <2>2. reqs' = rows \/ (oldest # None /\ reqs' = [rows EXCEPT ![oldest].status = "failed"])
    BY <2>1
  <2>3. \A id \in DOMAIN reqs \cap late : reqs[id].status \in Pending
    BY <1>1 DEF Waiting
  <2> HIDE DEF late
  <2>4. Decided(WithStatus(late, "expired"), None)
    BY <1>1, <2>3, StatusDecided
  <2>5. Decided(reqs, None)
    BY DEF Decided
  <2>6. Decided(rows, None)
    BY <2>4, <2>5
  <2>7. rows \in Seq(Request)
    BY <1>1, StatusTyped DEF Statuses
  <2> HIDE DEF rows
  <2>8. oldest # None => oldest \in DOMAIN rows /\ rows[oldest].status = "requested"
    <3>1. pending \in SUBSET Nat
      BY <2>7
    <3>2. oldest # None => pending # {} /\ oldest = Min(pending)
      BY DEF Oldest
    <3> HIDE DEF oldest
    <3>3. oldest # None => oldest \in pending
      BY <3>1, <3>2, MinIn
    <3>4. QED
      BY <3>3
  <2>9. ASSUME oldest # None, reqs' = [rows EXCEPT ![oldest].status = "failed"]
        PROVE  Decided(reqs', None)
    <3> HIDE DEF oldest
    <3>1. \A id \in DOMAIN rows : rows[id] \in Request
      BY <2>7
    <3>2. DOMAIN reqs' = DOMAIN rows
      BY <2>9
    <3>3. ASSUME NEW id \in DOMAIN rows
          PROVE  /\ reqs'[id].by = rows[id].by /\ reqs'[id].token = rows[id].token
                 /\ reqs'[id].status = IF id = oldest THEN "failed" ELSE rows[id].status
      BY <2>9, <3>1 DEF Request
    <3>4. QED
      BY <1>1, <2>6, <2>8, <3>2, <3>3 DEF Decided
  <2>10. QED
    BY <2>2, <2>6, <2>9, Zenon
<1>3. ASSUME FailRecording PROVE Decided(reqs', None)
  <2>1. reqs' = WithStatus({start.id}, "failed") \/ reqs' = reqs
    BY <1>3 DEF FailRecording
  <2>2. start # Idle
    BY <1>3 DEF FailRecording
  <2>3. \A id \in DOMAIN reqs \cap {start.id} : reqs[id].status \in Pending
    BY <1>1, <2>2 DEF ReqInv
  <2>4. Decided(WithStatus({start.id}, "failed"), None)
    BY <1>1, <2>3, StatusDecided
  <2>5. Decided(reqs, None)
    BY DEF Decided
  <2>6. QED
    BY <2>1, <2>4, <2>5, Zenon
<1>4. ASSUME Decline PROVE Decided(reqs', None)
  <2> DEFINE ids == {i \in DOMAIN reqs : i = Head(commands).id /\ reqs[i].status \in Pending}
  <2>1. reqs' = WithStatus(ids, "cancelled")
    BY <1>4 DEF Decline
  <2>2. \A id \in DOMAIN reqs \cap ids : reqs[id].status \in Pending
    OBVIOUS
  <2> HIDE DEF ids
  <2>3. QED
    BY <1>1, <2>1, <2>2, StatusDecided
<1>5. ASSUME \E id \in DOMAIN reqs : Overdue(id) PROVE Decided(reqs', None)
  <2>1. PICK id0 \in DOMAIN reqs : reqs' = [reqs EXCEPT ![id0].overdue = TRUE]
    BY <1>5 DEF Overdue
  <2>2. DOMAIN reqs' = DOMAIN reqs /\ \A id \in DOMAIN reqs : reqs[id] \in Request
    BY <1>1, <2>1
  <2>3. \A id \in DOMAIN reqs : /\ reqs'[id].by = reqs[id].by /\ reqs'[id].token = reqs[id].token
                                /\ reqs'[id].status = reqs[id].status
    BY <2>1, <2>2 DEF Request
  <2>4. QED
    BY <2>2, <2>3 DEF Decided
<1>6. ASSUME Crash PROVE Decided(reqs', None)
  <2> DEFINE ids == {id \in DOMAIN reqs : reqs[id].status = "confirmed"}
  <2>1. reqs' = WithStatus(ids, "expired")
    BY <1>6 DEF Crash, Reconciled
  <2>2. \A id \in DOMAIN reqs \cap ids : reqs[id].status \in Pending
    BY <1>1
  <2> HIDE DEF ids
  <2>3. QED
    BY <1>1, <2>1, <2>2, StatusDecided
<1>7. ASSUME ConfirmStart
      PROVE  \/ UNCHANGED <<reqs, start>>
             \/ /\ start' # Idle /\ Decided(reqs', start'.id)
                /\ \/ start'.id = None
                   \/ start'.id \in DOMAIN reqs /\ reqs'[start'.id].status = "confirmed"
  <2> DEFINE id0 == Head(commands).id
  <2>1. \/ UNCHANGED <<reqs, start>>
        \/ /\ Confirmable(id0) /\ reqs' = WithStatus({id0}, "confirmed")
           /\ start' = [pc |-> "confirmed", id |-> id0, token |-> Head(commands).token]
    BY <1>7 DEF ConfirmStart
  <2> HIDE DEF id0
  <2>2. CASE UNCHANGED <<reqs, start>>
    BY <2>2
  <2>3. CASE ~UNCHANGED <<reqs, start>>
    <3>1. start' # Idle /\ start'.id = id0
      BY <2>1, <2>3 DEF Idle
    <3>2. id0 = None \/ (id0 \in DOMAIN reqs /\ reqs[id0].status = "requested")
      BY <2>1, <2>3 DEF Confirmable, Waiting
    <3>3. Decided(WithStatus({id0}, "confirmed"), id0)
      BY <1>1, <3>2, StatusDecided
    <3>4. id0 = None \/ (id0 \in DOMAIN reqs /\ reqs'[id0].status = "confirmed")
      BY <1>1, <2>1, <2>3, <3>2, StatusSet
    <3>5. QED
      BY <2>1, <2>3, <3>1, <3>3, <3>4
  <2>4. QED
    BY <2>2, <2>3
<1>8. (\E id \in DOMAIN reqs : Overdue(id)) =>
          \A id \in DOMAIN reqs : reqs'[id].status = reqs[id].status
  <2>1. ASSUME NEW id0 \in DOMAIN reqs, Overdue(id0), NEW id \in DOMAIN reqs
        PROVE  reqs'[id].status = reqs[id].status
    <3>1. reqs' = [reqs EXCEPT ![id0].overdue = TRUE] /\ reqs[id] \in Request
      BY <1>1, <2>1 DEF Overdue
    <3>2. QED
      BY <3>1 DEF Request
  <2>2. QED
    BY <2>1
<1>9. QED
  BY <1>2, <1>3, <1>4, <1>5, <1>6, <1>7, <1>8

(* What becomes of the recordings. *)
Kept ==
    /\ DOMAIN recs' = DOMAIN recs
    /\ \A r \in DOMAIN recs : /\ recs'[r].request = recs[r].request
                              /\ recs[r].windows > 0 => recs'[r].windows > 0

LEMMA RecsKept ==
    ASSUME TypeOK, [Next]_vars
    PROVE  \/ OpenRecording
           \/ Erase /\ reqs' = <<>> /\ recs' = <<>> /\ erased'
           \/ Kept /\ (Erase => UNCHANGED reqs)
<1>1. recs \in Seq(Recording) /\ \A r \in DOMAIN recs : recs[r] \in Recording
  BY DEF TypeOK
<1>2. UNCHANGED recs => Kept
  BY DEF Kept
<1>3. \A ids, reason : reason \in Reasons /\ recs' = Closed(ids, reason) => Kept
  BY <1>1, ClosedTyped DEF Kept
<1>4. CASE StopRecording
  <2>1. commands # <<>> /\ Head(commands).kind = "stop" /\ commands \in Seq(Command)
    BY <1>4 DEF StopRecording, Next1, TypeOK
  <2>2. Head(commands).reason \in Reasons
    BY <2>1, HeadTyped
  <2>3. UNCHANGED <<recs, reqs>> \/ (recs' = Closed({Head(commands).rec}, Head(commands).reason)
                                       /\ UNCHANGED reqs)
    BY <1>4, Frames DEF StopRecording
  <2>4. QED
    BY <1>2, <1>3, <2>2, <2>3
<1>5. CASE Erase
  <2>1. \/ reqs' = <<>> /\ recs' = <<>> /\ erased'
        \/ UNCHANGED <<reqs, recs>>
        \/ UNCHANGED reqs /\ recs' = Closed(OpenRecs, "app_shutdown")
    BY <1>5 DEF Erase, tables
  <2>2. "app_shutdown" \in Reasons
    BY DEF Reasons
  <2>3. QED
    BY <1>2, <1>3, <1>5, <2>1, <2>2
<1>6. CASE \E r \in DOMAIN recs : Elapse(r)
  <2>1. PICK r \in DOMAIN recs : Elapse(r)
    BY <1>6
  <2>2. recs' = [recs EXCEPT ![r].windows = @ + 1] /\ UNCHANGED reqs
    BY <2>1, Frames DEF Elapse
  <2>3. \A q \in DOMAIN recs : recs[q].windows \in Nat
    BY <1>1 DEF Recording
  <2>4. DOMAIN recs' = DOMAIN recs
    BY <2>2
  <2>5. \A q \in DOMAIN recs : /\ recs'[q].request = recs[q].request
                               /\ recs[q].windows > 0 => recs'[q].windows > 0
    BY <1>1, <2>2, <2>3, SMTT(20) DEF Recording
  <2>6. QED
    BY <2>2, <2>4, <2>5 DEF Kept
<1>7. CASE Crash
  <2>1. recs' = Closed(OpenRecs, "error") /\ "error" \in Reasons
    BY <1>7 DEF Crash, Reasons
  <2>2. Kept /\ ~Erase
    BY <1>3, <1>7, <2>1 DEF Crash, Erase
  <2>3. QED
    BY <2>2
<1>8. QED
  BY <1>2, <1>4, <1>5, <1>6, <1>7, ChangesRecs

LEMMA StartedKept ==
    ASSUME StartedOnce, \A id \in DOMAIN reqs : reqs[id].by # None => reqs[id].by \in DOMAIN recs,
           NEW new, Decided(reqs', new), Kept
    PROVE  StartedOnce' /\ \A id \in DOMAIN reqs' : reqs'[id].by # None => reqs'[id].by \in DOMAIN recs'
<1>1. \A id \in DOMAIN reqs' :
         /\ id \in DOMAIN reqs /\ reqs'[id].by = reqs[id].by
         /\ reqs'[id].status = "started" <=> reqs[id].status = "started"
  BY DEF Decided, Pending
<1>2. DOMAIN reqs' = DOMAIN reqs
  BY DEF Decided
<1>3. \A id \in DOMAIN reqs' :
         /\ reqs'[id].status = "started" <=> reqs'[id].by # None
         /\ reqs'[id].by # None => reqs'[id].by \in DOMAIN recs' /\ recs'[reqs'[id].by].request = id
  BY <1>1 DEF StartedOnce, Kept
<1>4. \A r \in DOMAIN recs' : recs'[r].request # None =>
         recs'[r].request \in DOMAIN reqs' /\ reqs'[recs'[r].request].by = r
  BY <1>1, <1>2 DEF StartedOnce, Kept
<1>5. QED
  BY <1>3, <1>4 DEF StartedOnce

LEMMA ReqStep ==
    ASSUME TypeOK, ReqInv, [Next]_vars
    PROVE  ReqInv'
<1>1. /\ reqs \in Seq(Request) /\ recs \in Seq(Recording) /\ None \notin DOMAIN reqs
      /\ None \notin DOMAIN recs
  BY DEF TypeOK, None
<1>2. Kept \/ OpenRecording \/ (Erase /\ reqs' = <<>> /\ recs' = <<>>)
  BY RecsKept
<1>3. CASE OpenRecording
  <2> DEFINE r == Len(recs) + 1
             id0 == start.id
  <2>1. r \notin DOMAIN recs /\ r # None /\ r \in Nat
    BY <1>1 DEF None
  <2>2. PICK row : recs' = Append(recs, row) /\ row \in Recording /\ row.request = id0
    <3> DEFINE row == [request |-> id0, asked |-> start.token,
                       token |-> IF id0 \in DOMAIN reqs THEN reqs[id0].token ELSE None,
                       open |-> TRUE, windows |-> 0, reason |-> "none"]
    <3>1. recs' = Append(recs, row) /\ row.request = id0
      BY <1>3 DEF OpenRecording
    <3>2. recs' \in Seq(Recording)
      BY RecsTyped
    <3> HIDE DEF row, id0
    <3>3. recs'[r] = row /\ r \in DOMAIN recs'
      BY <1>1, <3>1
    <3>4. row \in Recording
      BY <3>2, <3>3
    <3>5. QED
      BY <3>1, <3>4
  <2>3. reqs' = [i \in DOMAIN reqs |-> IF i = id0
                                       THEN [reqs[i] EXCEPT !.status = "started", !.by = r]
                                       ELSE reqs[i]]
    BY <1>3 DEF OpenRecording
  <2>4. start # Idle /\ start' = Idle /\ UNCHANGED unmarked
    BY <1>3, Frames DEF OpenRecording
  <2> HIDE DEF r, id0
  <2>5. /\ DOMAIN recs' = DOMAIN recs \cup {r} /\ recs'[r].request = id0
        /\ \A q \in DOMAIN recs : recs'[q] = recs[q]
    BY <1>1, <2>2, Added DEF r
  <2>6. \A i \in DOMAIN reqs : reqs[i] \in Request
    BY <1>1
  <2>7. \A i \in DOMAIN reqs : i = id0 => reqs'[i].status = "started" /\ reqs'[i].by = r
    BY <2>3, <2>6 DEF Request
  <2>8. DOMAIN reqs' = DOMAIN reqs /\ \A i \in DOMAIN reqs : i # id0 => reqs'[i] = reqs[i]
    BY <2>3
  <2>9. id0 = None \/ (id0 \in DOMAIN reqs /\ reqs[id0].status = "confirmed")
    BY <2>4 DEF ReqInv, id0
  <2>10. \A i \in DOMAIN reqs' :
            /\ reqs'[i].status = "started" <=> reqs'[i].by # None
            /\ reqs'[i].by # None => reqs'[i].by \in DOMAIN recs' /\ recs'[reqs'[i].by].request = i
    <3>1. ASSUME NEW i \in DOMAIN reqs, i = id0
          PROVE  /\ reqs'[i].status = "started" <=> reqs'[i].by # None
                 /\ reqs'[i].by # None => reqs'[i].by \in DOMAIN recs' /\ recs'[reqs'[i].by].request = i
      BY <2>1, <2>5, <2>7, <3>1
    <3>2. ASSUME NEW i \in DOMAIN reqs, i # id0
          PROVE  /\ reqs'[i].status = "started" <=> reqs'[i].by # None
                 /\ reqs'[i].by # None => reqs'[i].by \in DOMAIN recs' /\ recs'[reqs'[i].by].request = i
      BY <2>5, <2>8, <3>2 DEF ReqInv, StartedOnce
    <3>3. QED
      BY <2>8, <3>1, <3>2
  <2>11. \A q \in DOMAIN recs' : recs'[q].request # None =>
            recs'[q].request \in DOMAIN reqs' /\ reqs'[recs'[q].request].by = q
    <3>1. ASSUME NEW q \in DOMAIN recs, recs[q].request # None
          PROVE  recs'[q].request \in DOMAIN reqs' /\ reqs'[recs'[q].request].by = q
      <4>1. recs[q].request \in DOMAIN reqs /\ reqs[recs[q].request].by = q
        BY <3>1 DEF ReqInv, StartedOnce
      <4>2. reqs[recs[q].request].status = "started"
        BY <1>1, <4>1 DEF ReqInv, StartedOnce
      <4>3. QED
        BY <1>1, <2>5, <2>8, <2>9, <4>1, <4>2
    <3>2. recs'[r].request # None =>
             recs'[r].request \in DOMAIN reqs' /\ reqs'[recs'[r].request].by = r
      BY <2>5, <2>7, <2>8, <2>9
    <3>3. QED
      BY <2>5, <3>1, <3>2
  <2>12. ConfirmedInStart'
    <3>1. ASSUME NEW i \in DOMAIN reqs', reqs'[i].status = "confirmed" PROVE unmarked'
      <4>1. i # id0 /\ i \in DOMAIN reqs /\ reqs[i].status = "confirmed"
        BY <2>7, <2>8, <3>1
      <4>2. QED
        BY <2>4, <4>1 DEF ReqInv, ConfirmedInStart, id0
    <3>2. QED
      BY <3>1 DEF ConfirmedInStart
  <2>13. QED
    BY <2>4, <2>10, <2>11, <2>12 DEF ReqInv, StartedOnce
<1>4. CASE Erase /\ reqs' = <<>> /\ recs' = <<>>
  <2>1. start' = Idle
    BY <1>4, Frames DEF Erase, Next1
  <2>2. DOMAIN reqs' = {} /\ DOMAIN recs' = {}
    BY <1>4
  <2>3. QED
    BY <2>1, <2>2 DEF ReqInv, StartedOnce, ConfirmedInStart
<1>5. CASE Kept /\ ~OpenRecording /\ ~(Erase /\ reqs' = <<>> /\ recs' = <<>>)
  <2>1. CASE RequestRecording
    <3>1. PICK row : reqs' = Append(reqs, row) /\ row \in Request
                     /\ row.by = None /\ row.status = "requested"
      <4>1. PICK valid \in BOOLEAN :
               reqs' = Append(reqs, [status |-> "requested", overdue |-> FALSE, valid |-> valid,
                                     token |-> used.asked + 1, by |-> None])
        BY <2>1 DEF RequestRecording
      <4>2. used.asked \in Nat
        BY DEF TypeOK
      <4>3. [status |-> "requested", overdue |-> FALSE, valid |-> valid,
             token |-> used.asked + 1, by |-> None] \in Request
        BY <4>2 DEF Request, Statuses, Pending, None
      <4>4. QED
        BY <4>1, <4>3
    <3> DEFINE n == Len(reqs) + 1
    <3>2. /\ DOMAIN reqs' = DOMAIN reqs \cup {n} /\ reqs'[n] = row /\ n \notin DOMAIN reqs
          /\ \A i \in DOMAIN reqs : reqs'[i] = reqs[i]
      BY <1>1, <3>1, Added
    <3> HIDE DEF n
    <3>3. UNCHANGED <<start, unmarked, recs>>
      BY <2>1, Frames
    <3>4. \A i \in DOMAIN reqs' :
             /\ reqs'[i].status = "started" <=> reqs'[i].by # None
             /\ reqs'[i].by # None => reqs'[i].by \in DOMAIN recs /\ recs[reqs'[i].by].request = i
      BY <3>1, <3>2 DEF ReqInv, StartedOnce
    <3>5. \A q \in DOMAIN recs : recs[q].request # None =>
             recs[q].request \in DOMAIN reqs' /\ reqs'[recs[q].request].by = q
      BY <3>2 DEF ReqInv, StartedOnce
    <3>6. ConfirmedInStart'
      BY <3>1, <3>2, <3>3 DEF ReqInv, ConfirmedInStart
    <3>7. start # Idle => start.id = None
                          \/ (start.id \in DOMAIN reqs' /\ reqs'[start.id].status = "confirmed")
      BY <3>2 DEF ReqInv
    <3>8. QED
      BY <3>3, <3>4, <3>5, <3>6, <3>7 DEF ReqInv, StartedOnce
  <2>2. CASE ConfirmStart
    <3>1. UNCHANGED unmarked /\ start = Idle
      BY <2>2, Frames DEF ConfirmStart, Next1
    <3>2. CASE UNCHANGED <<reqs, start>>
      <4>1. Decided(reqs', None)
        BY <3>2 DEF Decided
      <4>2. StartedOnce' /\ \A id \in DOMAIN reqs' : reqs'[id].by # None => reqs'[id].by \in DOMAIN recs'
        BY <1>5, <4>1, StartedKept DEF ReqInv
      <4>3. QED
        BY <3>1, <3>2, <4>2 DEF ReqInv, ConfirmedInStart
    <3>3. CASE ~UNCHANGED <<reqs, start>>
      <4>1. /\ start' # Idle /\ Decided(reqs', start'.id)
            /\ \/ start'.id = None
               \/ start'.id \in DOMAIN reqs /\ reqs'[start'.id].status = "confirmed"
        BY <2>2, <3>3, Decisions
      <4>2. StartedOnce' /\ \A id \in DOMAIN reqs' : reqs'[id].by # None => reqs'[id].by \in DOMAIN recs'
        BY <1>5, <4>1, StartedKept DEF ReqInv
      <4>3. ConfirmedInStart'
        BY <3>1, <4>1 DEF ReqInv, ConfirmedInStart, Decided
      <4>4. QED
        BY <4>1, <4>2, <4>3 DEF ReqInv, Decided
    <3>4. QED
      BY <3>2, <3>3
  <2>3. CASE ~RequestRecording /\ ~ConfirmStart
    <3>1. Decided(reqs', None)
      <4>1. CASE UNCHANGED reqs
        BY <4>1 DEF Decided
      <4>2. QED
        BY <1>5, <2>3, <4>1, Decisions, ChangesReqs, RecsKept
    <3>2. StartedOnce' /\ \A id \in DOMAIN reqs' : reqs'[id].by # None => reqs'[id].by \in DOMAIN recs'
      BY <1>5, <3>1, StartedKept DEF ReqInv
    <3>3. \A id \in DOMAIN reqs' : reqs'[id].status = "confirmed" =>
             id \in DOMAIN reqs /\ reqs[id].status = "confirmed"
      BY <1>1, <3>1 DEF Decided
    <3>4. CASE FailRecording
      <4>1. start' = Idle /\ start # Idle
        BY <3>4 DEF FailRecording
      <4>2. (reqs' = WithStatus({start.id}, "failed") /\ UNCHANGED unmarked) \/ unmarked'
        BY <3>4 DEF FailRecording
      <4>3. ASSUME NEW id \in DOMAIN reqs', reqs'[id].status = "confirmed", ~unmarked'
            PROVE  FALSE
        <5>1. id \in DOMAIN reqs /\ reqs[id].status = "confirmed" /\ ~unmarked
          BY <3>3, <4>2, <4>3
        <5>2. id = start.id
          BY <5>1 DEF ReqInv, ConfirmedInStart
        <5>3. reqs'[id].status = "failed"
          BY <1>1, <4>2, <4>3, <5>1, <5>2, StatusSet
        <5>4. QED
          BY <4>3, <5>3
      <4>4. ConfirmedInStart'
        BY <4>3 DEF ConfirmedInStart
      <4>5. QED
        BY <3>2, <4>1, <4>4 DEF ReqInv
    <3>5. CASE Crash
      <4>1. start' = Idle
        BY <3>5 DEF Crash
      <4>2. reqs' = WithStatus({id \in DOMAIN reqs : reqs[id].status = "confirmed"}, "expired")
        BY <3>5 DEF Crash, Reconciled
      <4>3. \A id \in DOMAIN reqs' : reqs'[id].status # "confirmed"
        BY <1>1, <4>2, StatusSet
      <4>4. QED
        BY <3>2, <4>1, <4>3 DEF ReqInv, ConfirmedInStart
    <3>6. CASE ~FailRecording /\ ~Crash
      <4>1. UNCHANGED <<start, unmarked>>
        BY <1>5, <2>3, <3>6, ChangesStart, ChangesUnmarked
      <4>2. ConfirmedInStart'
        BY <3>3, <4>1 DEF ReqInv, ConfirmedInStart
      <4>3. start # Idle => \A id \in DOMAIN reqs : id \in DOMAIN reqs' /\ reqs'[id].status = reqs[id].status
        <5>1. CASE UNCHANGED reqs
          BY <5>1
        <5>2. CASE \E id \in DOMAIN reqs : Overdue(id)
          BY <3>1, <5>2, Decisions DEF Decided
        <5>3. Poll \/ Decline \/ Erase => start = Idle
          BY DEF Poll, Decline, Erase, Next1
        <5>4. QED
          BY <1>5, <2>3, <3>6, <5>1, <5>2, <5>3, ChangesReqs
      <4>4. start' # Idle => start'.id = None
                             \/ (start'.id \in DOMAIN reqs' /\ reqs'[start'.id].status = "confirmed")
        BY <4>1, <4>3 DEF ReqInv
      <4>5. QED
        BY <3>2, <4>2, <4>4 DEF ReqInv
    <3>7. QED
      BY <3>4, <3>5, <3>6
  <2>4. QED
    BY <2>1, <2>2, <2>3
<1>6. QED
  BY <1>2, <1>3, <1>4, <1>5

-----------------------------------------------------------------------------
(* What stops a recording for the safety cap, wherever it is on its way, is   *)
(* about one that has reached it.                                           *)
Capped == {r \in DOMAIN recs : recs[r].windows > 0}

CapEvent(e, S) == e.kind = "stop_for_safety_cap" => e.rec \in S
CapCommand(c, S) == c.kind = "stop" /\ c.reason = "safety_cap_stop" => c.rec \in S

CapsOnTheirWay ==
    /\ \A i \in DOMAIN capSlot : capSlot[i] \in Capped
    /\ capDialog # Idle => capDialog.rec \in Capped
    /\ \A i \in DOMAIN events : CapEvent(events[i], Capped)
    /\ \A t \in stops : t.reason = "safety_cap_stop" => t.rec \in Capped
    /\ \A i \in DOMAIN commands : CapCommand(commands[i], Capped)

CapInv == CapStopsOwn /\ (~erased => CapsOnTheirWay)

(* Without a deletion of the tables a recording stays as far as it has got. *)
LEMMA CappedKept ==
    ASSUME TypeOK, [Next]_vars, ~erased'
    PROVE  ~erased /\ Capped \subseteq Capped'
<1>1. ~erased
  BY ChangesErased DEF Erase
<1>2. CASE OpenRecording
  <2>1. PICK row : recs' = Append(recs, row)
    BY <1>2 DEF OpenRecording
  <2>2. \A r \in DOMAIN recs : r \in DOMAIN recs' /\ recs'[r] = recs[r]
    <3>1. recs \in Seq(Recording) /\ recs' \in Seq(Recording)
      BY RecsTyped DEF TypeOK
    <3>2. QED
      BY <2>1, <3>1
  <2>3. QED
    BY <1>1, <2>2 DEF Capped
<1>3. CASE Kept
  BY <1>1, <1>3 DEF Kept, Capped
<1>4. QED
  BY <1>1, <1>2, <1>3, RecsKept

LEMMA CapStep ==
    ASSUME TypeOK, TypeOK', CapInv, [Next]_vars
    PROVE  CapInv'
<1> SUFFICES ASSUME ~erased' PROVE CapStopsOwn' /\ CapsOnTheirWay'
  BY DEF CapInv, CapStopsOwn
<1>1. CapsOnTheirWay /\ CapStopsOwn /\ ~erased /\ Capped \subseteq Capped'
  BY CappedKept DEF CapInv
<1>2. /\ capSlot \in Seq(Nat) /\ events \in Seq(Event) /\ commands \in Seq(Command)
      /\ recs \in Seq(Recording) /\ recs' \in Seq(Recording)
      /\ stops \subseteq StopThread /\ dialog \in {Idle} \cup Asked
      /\ capDialog \in {Idle} \cup Waits /\ Idle.pc = "idle" /\ tray.active \in Nat
  BY DEF TypeOK, Asked, Waits, Idle
<1>3. \A i \in DOMAIN capSlot' : capSlot'[i] \in Capped'
  <2>1. CASE Poll
    <3>1. UNCHANGED capSlot \/ (CapDue # {} /\ capSlot' = <<Min(CapDue)>>)
      BY <2>1 DEF Poll
    <3>2. CapDue \in SUBSET Nat /\ CapDue \subseteq Capped
      BY <1>2 DEF CapDue, OpenRecs, Capped
    <3>3. CapDue # {} => Min(CapDue) \in Capped
      BY <3>2, MinIn
    <3>4. CASE UNCHANGED capSlot
      BY <1>1, <3>4 DEF CapsOnTheirWay
    <3>5. CASE CapDue # {} /\ capSlot' = <<Min(CapDue)>>
      <4>1. DOMAIN capSlot' = {1} /\ capSlot'[1] = Min(CapDue)
        BY <3>5
      <4>2. QED
        BY <1>1, <3>3, <3>5, <4>1
    <3>6. QED
      BY <3>1, <3>4, <3>5
  <2>2. CASE TakeCap \/ Crash
    BY <2>2 DEF TakeCap, Crash
  <2>3. CASE UNCHANGED capSlot
    BY <1>1, <2>3 DEF CapsOnTheirWay
  <2>4. QED
    BY <2>1, <2>2, <2>3, ChangesCapSlot
<1>4. capDialog' # Idle => capDialog'.rec \in Capped'
  <2>1. CASE TakeCap
    <3>1. UNCHANGED capDialog \/ capDialog'.rec = Head(capSlot)
      BY <2>1 DEF TakeCap
    <3>2. Head(capSlot) \in Capped
      BY <1>1, <1>2, <2>1, Taken DEF TakeCap, CapsOnTheirWay
    <3>3. QED
      BY <1>1, <3>1, <3>2 DEF CapsOnTheirWay
  <2>2. CASE AnswerCap
    <3>1. capDialog # Idle /\ capDialog \in Waits
      BY <1>2, <2>2 DEF AnswerCap
    <3>2. capDialog'.rec = capDialog.rec
      BY <2>2, <3>1 DEF AnswerCap, Waits
    <3>3. QED
      BY <1>1, <3>1, <3>2 DEF CapsOnTheirWay
  <2>3. CASE EndCapDialog \/ Crash
    BY <2>3 DEF EndCapDialog, Crash
  <2>4. CASE UNCHANGED capDialog
    BY <1>1, <2>4 DEF CapsOnTheirWay
  <2>5. QED
    BY <2>1, <2>2, <2>3, <2>4, ChangesCapDialog
<1>5. \A i \in DOMAIN events' : CapEvent(events'[i], Capped')
  <2>1. \A e : CapEvent(e, Capped) => CapEvent(e, Capped')
    BY <1>1 DEF CapEvent
  <2>2. ASSUME NEW e \in Event, Tell(e), CapEvent(e, Capped)
        PROVE  \A i \in DOMAIN events' : CapEvent(events'[i], Capped')
    <3>1. /\ DOMAIN events' = DOMAIN events \cup {Len(events) + 1}
          /\ events'[Len(events) + 1] = e /\ \A i \in DOMAIN events : events'[i] = events[i]
      BY <1>2, <2>2, Added DEF Tell
    <3>2. QED
      BY <1>1, <2>1, <2>2, <3>1 DEF CapsOnTheirWay
  <2>3. \A kind \in {"started", "failed", "stopped"} : \A r :
           CapEvent([kind |-> kind, rec |-> r], Capped)
    BY DEF CapEvent
  <2>4. \A kind \in {"started", "failed", "stopped", "stop_for_safety_cap"}, r \in Nat :
           [kind |-> kind, rec |-> r] \in Event
    BY DEF Event
  <2>5. CASE ReportStart
    <3>1. dialog.rec \in Nat
      BY <1>2, <2>5 DEF ReportStart, Asked
    <3>2. QED
      BY <2>2, <2>3, <2>4, <2>5, <3>1 DEF ReportStart, None
  <2>6. CASE AnswerCap
    <3>1. capDialog.rec \in Nat /\ capDialog # Idle
      BY <1>2, <2>6 DEF AnswerCap, Waits
    <3>2. CapEvent([kind |-> "stop_for_safety_cap", rec |-> capDialog.rec], Capped)
      BY <1>1, <3>1 DEF CapEvent, CapsOnTheirWay
    <3>3. UNCHANGED events \/ Tell([kind |-> "stop_for_safety_cap", rec |-> capDialog.rec])
      BY <2>6 DEF AnswerCap
    <3>4. UNCHANGED events => \A i \in DOMAIN events' : CapEvent(events'[i], Capped')
      BY <1>1, <2>1 DEF CapsOnTheirWay
    <3>5. QED
      BY <2>2, <2>4, <3>1, <3>2, <3>3, <3>4
  <2>7. CASE HandleCapStop \/ HandleStarted \/ HandleStopped \/ HandleFailed
    <3>1. events # <<>> /\ events' = Tail(events)
      BY <2>7 DEF HandleCapStop, HandleStarted, HandleStopped, HandleFailed
    <3>2. \A i \in DOMAIN events' : i + 1 \in DOMAIN events /\ events'[i] = events[i + 1]
      BY <1>2, <3>1, Taken
    <3>3. QED
      BY <1>1, <2>1, <3>2 DEF CapsOnTheirWay
  <2>8. CASE EndLane
    <3>1. UNCHANGED events \/ Tell([kind |-> "failed", rec |-> tray.active])
      BY <2>8 DEF EndLane
    <3>3. UNCHANGED events => \A i \in DOMAIN events' : CapEvent(events'[i], Capped')
      BY <1>1, <2>1 DEF CapsOnTheirWay
    <3>4. QED
      BY <1>2, <2>2, <2>3, <2>4, <3>1, <3>3
  <2>9. CASE \E t \in stops : ReportStop(t)
    <3>1. PICK t \in stops : t.pc \in {"stopped", "failed"} /\ Tell([kind |-> t.pc, rec |-> t.rec])
      BY <2>9 DEF ReportStop
    <3>2. t.rec \in Nat
      BY <1>2 DEF StopThread
    <3>3. QED
      BY <2>2, <2>3, <2>4, <3>1, <3>2
  <2>10. CASE Crash
    BY <2>10 DEF Crash
  <2>11. CASE UNCHANGED events
    BY <1>1, <2>1, <2>11 DEF CapsOnTheirWay
  <2>12. QED
    BY <2>5, <2>6, <2>7, <2>8, <2>9, <2>10, <2>11, ChangesEvents
<1>6. \A t \in stops' : t.reason = "safety_cap_stop" => t.rec \in Capped'
  <2> DEFINE Own(t) == t.reason = "safety_cap_stop" => t.rec \in Capped'
  <2>1. \A t \in stops : Own(t)
    BY <1>1 DEF CapsOnTheirWay
  <2>2. ASSUME NEW r, NEW from, NEW to, NEW t \in Step(stops, r, from, to)
        PROVE  Own(t)
    <3>1. PICK u \in stops : t = u \/ t = [u EXCEPT !.pc = to]
      BY <2>2 DEF Step
    <3>2. u \in StopThread
      BY <1>2
    <3>3. t.rec = u.rec /\ t.reason = u.reason
      BY <3>1, <3>2 DEF StopThread
    <3>4. QED
      BY <2>1, <3>3
  <2>3. ASSUME NEW r, NEW reason, SpawnStop(r, reason),
               reason = "safety_cap_stop" => r \in Capped'
        PROVE  \A t \in stops' : Own(t)
    BY <2>1, <2>3 DEF SpawnStop
  <2>4. CASE HandleCapStop
    <3>1. Head(events).rec \in Capped
      <4>1. CapEvent(Head(events), Capped) /\ Head(events).kind = "stop_for_safety_cap"
        BY <1>1, <1>2, <2>4, Taken DEF HandleCapStop, CapsOnTheirWay
      <4>2. QED
        BY <4>1 DEF CapEvent
    <3>2. UNCHANGED stops \/ SpawnStop(Head(events).rec, "safety_cap_stop")
      BY <2>4 DEF HandleCapStop, Stop
    <3>3. QED
      BY <1>1, <2>1, <2>3, <3>1, <3>2
  <2>5. CASE HandleStarted \/ HandleFailed \/ StopPressed
    <3>1. UNCHANGED stops \/ \E r, reason : SpawnStop(r, reason) /\ reason # "safety_cap_stop"
      BY <2>5 DEF HandleStarted, HandleFailed, StopPressed, Stop
    <3>2. QED
      BY <2>1, <2>3, <3>1
  <2>6. CASE StopRecording
    BY <2>2, <2>6 DEF StopRecording
  <2>7. CASE (\E t \in stops : SendStop(t)) \/ (\E t \in stops : ReportStop(t))
    <3>1. \/ \E t \in stops : stops' = Step(stops, t.rec, "sending", "waiting")
          \/ \E t \in stops : stops' = stops \ {t}
      BY <2>7 DEF SendStop, ReportStop
    <3>2. QED
      BY <2>1, <2>2, <3>1
  <2>8. CASE Crash
    BY <2>8 DEF Crash
  <2>9. CASE UNCHANGED stops
    BY <2>1, <2>9
  <2>10. QED
    BY <2>4, <2>5, <2>6, <2>7, <2>8, <2>9, ChangesStops
<1>7. \A i \in DOMAIN commands' : CapCommand(commands'[i], Capped')
  <2>1. \A c : CapCommand(c, Capped) => CapCommand(c, Capped')
    BY <1>1 DEF CapCommand
  <2>2. ASSUME NEW c \in Command, Send(c), CapCommand(c, Capped)
        PROVE  \A i \in DOMAIN commands' : CapCommand(commands'[i], Capped')
    <3>1. /\ DOMAIN commands' = DOMAIN commands \cup {Len(commands) + 1}
          /\ commands'[Len(commands) + 1] = c
          /\ \A i \in DOMAIN commands : commands'[i] = commands[i]
      BY <1>2, <2>2, Added DEF Send
    <3>2. QED
      BY <1>1, <2>1, <2>2, <3>1 DEF CapsOnTheirWay
  <2>3. UNCHANGED commands => \A i \in DOMAIN commands' : CapCommand(commands'[i], Capped')
    BY <1>1, <2>1 DEF CapsOnTheirWay
  <2>4. CASE ConfirmStart \/ Decline \/ StopRecording \/ Erase
    <3>1. commands # <<>> /\ commands' = Tail(commands)
      BY <2>4 DEF ConfirmStart, Decline, StopRecording, Erase, Next1
    <3>2. \A i \in DOMAIN commands' : i + 1 \in DOMAIN commands /\ commands'[i] = commands[i + 1]
      BY <1>2, <3>1, Taken
    <3>3. QED
      BY <1>1, <2>1, <3>2 DEF CapsOnTheirWay
  <2>5. CASE AcceptStart
    <3>1. dialog.id \in Nat /\ dialog.token \in Nat
      BY <1>2, <2>5 DEF AcceptStart, Asked
    <3>2. /\ [kind |-> "start", id |-> dialog.id, token |-> dialog.token] \in Command
          /\ CapCommand([kind |-> "start", id |-> dialog.id, token |-> dialog.token], Capped)
      BY <3>1 DEF Command, CapCommand
    <3>3. QED
      BY <2>2, <2>5, <3>2 DEF AcceptStart
  <2>6. CASE RefuseStart
    <3>1. dialog.id \in Nat
      BY <1>2, <2>6 DEF RefuseStart, Asked
    <3>2. /\ [kind |-> "decline", id |-> dialog.id] \in Command
          /\ CapCommand([kind |-> "decline", id |-> dialog.id], Capped)
      BY <3>1 DEF Command, CapCommand
    <3>3. QED
      BY <2>2, <2>3, <2>6, <3>2 DEF RefuseStart
  <2>7. CASE \E t \in stops : SendStop(t)
    <3>1. PICK t \in stops : Send([kind |-> "stop", rec |-> t.rec, reason |-> t.reason])
      BY <2>7 DEF SendStop
    <3>2. t \in StopThread
      BY <1>2
    <3>3. [kind |-> "stop", rec |-> t.rec, reason |-> t.reason] \in Command
      BY <3>2 DEF StopThread, Command
    <3>4. CapCommand([kind |-> "stop", rec |-> t.rec, reason |-> t.reason], Capped)
      BY <1>1 DEF CapCommand, CapsOnTheirWay
    <3>5. QED
      BY <2>2, <3>1, <3>3, <3>4
  <2>8. CASE ConfirmPrivacy
    <3>1. [kind |-> "erase"] \in Command /\ CapCommand([kind |-> "erase"], Capped)
      BY DEF Command, CapCommand
    <3>2. UNCHANGED commands \/ Send([kind |-> "erase"])
      BY <2>8 DEF ConfirmPrivacy
    <3>3. QED
      BY <2>2, <2>3, <3>1, <3>2
  <2>9. CASE Crash
    BY <2>9 DEF Crash
  <2>10. QED
    BY <2>3, <2>4, <2>5, <2>6, <2>7, <2>8, <2>9, ChangesCommands
<1>8. \A r \in DOMAIN recs' : recs'[r].reason = "safety_cap_stop" => recs'[r].windows > 0
  <2>1. \A r \in DOMAIN recs : recs[r].reason = "safety_cap_stop" => recs[r].windows > 0
    BY <1>1 DEF CapStopsOwn
  <2>2. ASSUME NEW ids, NEW reason \in Reasons, recs' = Closed(ids, reason),
               reason = "safety_cap_stop" => \A r \in ids \cap DOMAIN recs : recs[r].windows > 0
        PROVE  \A r \in DOMAIN recs' :
                  recs'[r].reason = "safety_cap_stop" => recs'[r].windows > 0
    BY <1>2, <2>1, <2>2, ClosedTyped
  <2>3. CASE OpenRecording
    <3> DEFINE row == [request |-> start.id, asked |-> start.token,
                       token |-> IF start.id \in DOMAIN reqs THEN reqs[start.id].token ELSE None,
                       open |-> TRUE, windows |-> 0, reason |-> "none"]
    <3>1. recs' = Append(recs, row) /\ row.reason = "none"
      BY <2>3 DEF OpenRecording
    <3> HIDE DEF row
    <3>2. /\ DOMAIN recs' = DOMAIN recs \cup {Len(recs) + 1}
          /\ recs'[Len(recs) + 1] = row
          /\ \A r \in DOMAIN recs : recs'[r] = recs[r]
      BY <1>2, <3>1
    <3>3. QED
      BY <2>1, <3>1, <3>2
  <2>4. CASE StopRecording
    <3>1. commands # <<>> /\ Head(commands).kind = "stop"
      BY <2>4 DEF StopRecording, Next1
    <3>2. CapCommand(Head(commands), Capped)
      BY <1>1, <1>2, <3>1, Taken DEF CapsOnTheirWay
    <3>3. Head(commands).reason \in Reasons
      BY <1>2, <3>1, HeadTyped
    <3>4. UNCHANGED recs \/ recs' = Closed({Head(commands).rec}, Head(commands).reason)
      BY <2>4 DEF StopRecording
    <3>5. Head(commands).reason = "safety_cap_stop" =>
             \A r \in {Head(commands).rec} \cap DOMAIN recs : recs[r].windows > 0
      BY <3>1, <3>2 DEF CapCommand, Capped
    <3>6. QED
      BY <2>1, <2>2, <3>3, <3>4, <3>5
  <2>5. CASE Erase
    <3>1. UNCHANGED recs \/ recs' = Closed(OpenRecs, "app_shutdown")
      BY <2>5 DEF Erase, tables
    <3>2. QED
      BY <2>1, <2>2, <3>1 DEF Reasons
  <2>6. CASE \E r \in DOMAIN recs : Elapse(r)
    <3>1. PICK r \in DOMAIN recs : recs' = [recs EXCEPT ![r].windows = @ + 1]
      BY <2>6 DEF Elapse
    <3>2. \A q \in DOMAIN recs : recs[q] \in Recording
      BY <1>2
    <3>3. \A q \in DOMAIN recs : recs[q].windows \in Nat
      BY <3>2 DEF Recording
    <3>4. \A q \in DOMAIN recs :
             /\ recs'[q].reason = recs[q].reason
             /\ recs[q].windows > 0 => recs'[q].windows > 0
      BY <3>1, <3>2, <3>3 DEF Recording
    <3>5. QED
      BY <2>1, <3>1, <3>4
  <2>7. CASE Crash
    <3>1. recs' = Closed(OpenRecs, "error")
      BY <2>7 DEF Crash
    <3>2. QED
      BY <2>2, <3>1 DEF Reasons
  <2>8. CASE UNCHANGED recs
    BY <2>1, <2>8
  <2>9. QED
    BY <2>3, <2>4, <2>5, <2>6, <2>7, <2>8, ChangesRecs
<1>9. QED
  BY <1>3, <1>4, <1>5, <1>6, <1>7, <1>8 DEF CapsOnTheirWay, CapStopsOwn

-----------------------------------------------------------------------------
(* What is decided stays decided. *)
LEMMA FinalStep ==
    ASSUME TypeOK, ReqInv, [Next]_vars
    PROVE  \A id \in DOMAIN reqs \cap DOMAIN reqs' :
              reqs[id].status \notin Pending /\ reqs[id].token = reqs'[id].token
                 => reqs'[id].status = reqs[id].status
<1>1. \A new : Decided(reqs', new) => \A id \in DOMAIN reqs :
         reqs[id].status \notin Pending => reqs'[id].status = reqs[id].status
  BY DEF Decided
<1>2. CASE ConfirmStart
  BY <1>1, <1>2, Decisions
<1>3. CASE OpenRecording
  <2>1. start # Idle /\ reqs' = [i \in DOMAIN reqs |->
                                   IF i = start.id
                                   THEN [reqs[i] EXCEPT !.status = "started", !.by = Len(recs) + 1]
                                   ELSE reqs[i]]
    BY <1>3 DEF OpenRecording
  <2>2. start.id \in DOMAIN reqs => reqs[start.id].status \in Pending
    <3>1. None \notin DOMAIN reqs
      BY DEF TypeOK, None
    <3>2. start.id \in DOMAIN reqs => reqs[start.id].status = "confirmed"
      BY <2>1, <3>1 DEF ReqInv
    <3>3. QED
      BY <3>2 DEF Pending
  <2>3. \A id \in DOMAIN reqs : id # start.id => reqs'[id] = reqs[id]
    BY <2>1
  <2>4. QED
    BY <2>2, <2>3
<1>4. CASE RequestRecording
  <2>1. PICK row : reqs' = Append(reqs, row)
    BY <1>4 DEF RequestRecording
  <2>2. reqs \in Seq(Request) /\ reqs' \in Seq(Request)
    BY ReqsTyped DEF TypeOK
  <2>3. \A id \in DOMAIN reqs : reqs'[id] = reqs[id]
    BY <2>1, <2>2
  <2>4. QED
    BY <2>3
<1>5. CASE Erase
  <2>1. reqs' = <<>> \/ reqs' = reqs
    BY <1>5 DEF Erase, tables
  <2>2. QED
    BY <2>1
<1>6. CASE UNCHANGED reqs
  BY <1>6
<1>7. QED
  BY <1>1, <1>2, <1>3, <1>4, <1>5, <1>6, Decisions, ChangesReqs

-----------------------------------------------------------------------------
(* The inductive invariant. *)
IInv == TypeOK /\ Prompt /\ ReqInv /\ CapInv

LEMMA Start ==
    ASSUME Init
    PROVE  IInv
<1>1. TypeOK
  <2>1. /\ <<>> \in Seq(Request) /\ <<>> \in Seq(Recording) /\ <<>> \in Seq(Nat)
        /\ <<>> \in Seq([id : Nat, token : Nat]) /\ <<>> \in Seq(Command) /\ <<>> \in Seq(Event)
        /\ Len(<<>>) = 0 /\ 0 <= CommandBound
    BY DEF CommandBound
  <2>2. FreshMemory \in [surfaced : Nat, active : Nat,
                         prompted : [DOMAIN FreshMemory.prompted -> Nat]]
    BY DEF FreshMemory, None
  <2>3. FreshTray \in [active : Nat, stopping : Nat] /\ FreshTray.stopping = None
    BY DEF FreshTray, None
  <2>4. [asked |-> 0, upsets |-> 0] \in [asked : Nat, upsets : Nat]
    OBVIOUS
  <2>5. QED
    BY <2>1, <2>2, <2>3, <2>4 DEF Init, TypeOK
<1>2. Prompt
  BY DEF Init, Prompt, OnePrompt, Has, AtMostOne
<1>3. ReqInv
  BY DEF Init, ReqInv, StartedOnce, ConfirmedInStart
<1>4. CapInv
  BY DEF Init, CapInv, CapStopsOwn, CapsOnTheirWay
<1>5. QED
  BY <1>1, <1>2, <1>3, <1>4 DEF IInv

THEOREM Invariant == Spec => []IInv
<1>1. Init => IInv
  BY Start
<1>2. IInv /\ [Next]_vars => IInv'
  <2> SUFFICES ASSUME IInv, [Next]_vars PROVE IInv'
    OBVIOUS
  <2>1. TypeOK /\ Prompt /\ ReqInv /\ CapInv
    BY DEF IInv
  <2>2. TypeOK'
    BY <2>1, TypeStep
  <2>3. Prompt'
    BY <2>1, PromptStep
  <2>4. ReqInv'
    BY <2>1, ReqStep
  <2>5. CapInv'
    BY <2>1, <2>2, CapStep
  <2>6. QED
    BY <2>2, <2>3, <2>4, <2>5 DEF IInv
<1>3. QED
  BY <1>1, <1>2, PTL DEF Spec

(* Every variable of the requests, the mailboxes, the queues and the threads  *)
(* has its type: in particular the reply of the writer never meets a dialog  *)
(* that has ended.                                                         *)
THEOREM TypeCorrect == Spec => []TypeOK
<1>1. IInv => TypeOK
  BY DEF IInv
<1>2. QED
  BY <1>1, Invariant, PTL

(* One prompt at a time, and none while a privacy operation asks, although    *)
(* the writer, the dialogs and the privacy worker each set and read           *)
(* prompt_in_flight in a thread of their own.                               *)
THEOREM PromptsAlone == Spec => []OnePrompt
<1>1. IInv => OnePrompt
  BY DEF IInv, Prompt
<1>2. QED
  BY <1>1, Invariant, PTL

(* A request is started by one recording, which names it, whoever answers it  *)
(* and whatever fails or crashes.                                           *)
THEOREM RequestsStartedOnce == Spec => []StartedOnce
<1>1. IInv => StartedOnce
  BY DEF IInv, ReqInv
<1>2. QED
  BY <1>1, Invariant, PTL

(* No crash leaves a request confirmed that nothing will decide: one that is  *)
(* confirmed is the one the writer is about to start, unless the failure of  *)
(* its start could not be marked.                                           *)
THEOREM ConfirmedWhileStarting == Spec => []ConfirmedInStart
<1>1. IInv => ConfirmedInStart
  BY DEF IInv, ReqInv
<1>2. QED
  BY <1>1, Invariant, PTL

(* Until the tables are deleted, no recording is stopped for a safety cap it  *)
(* has not reached, however late the prompt is answered.                    *)
THEOREM CapsStopTheirOwn == Spec => []CapStopsOwn
<1>1. IInv => CapStopsOwn
  BY DEF IInv, CapInv
<1>2. QED
  BY <1>1, Invariant, PTL

(* The status of a request is changed by compare-and-swap: a late answer, a   *)
(* second dialog, the expiry of the poll or a crash changes no decision.     *)
THEOREM DecidedOnce == Spec => DecisionsFinal
<1>1. IInv /\ [Next]_vars => [\A id \in DOMAIN reqs \cap DOMAIN reqs' :
          reqs[id].status \notin Pending /\ reqs[id].token = reqs'[id].token
              => reqs'[id].status = reqs[id].status]_vars
  BY FinalStep DEF IInv
<1>2. QED
  BY <1>1, Invariant, PTL DEF Spec, DecisionsFinal
=============================================================================
