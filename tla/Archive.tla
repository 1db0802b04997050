------------------------------- MODULE Archive -------------------------------
(***************************************************************************)
(* Archive and reset, portable exports, and the erase of the archives: the  *)
(* steps of the writer between the activity database and the files of the   *)
(* archive directory, each of which may fail, with crashes between them and *)
(* damage to the files at any time.                                        *)
(*                                                                         *)
(* A sealed file is a header and a sequence of frames. A frame opens only   *)
(* under the key, the position, the end mark and the header it was sealed   *)
(* with; these are what a frame records here, and the cipher is abstracted  *)
(* to the comparison. A frame that does not open is one that was altered.   *)
(***************************************************************************)
EXTENDS Integers, Sequences, SequencesExt, FiniteSetsExt

CONSTANTS
    None,       \* "no file", "no header"
    Faults,     \* the steps that may fail
    MaxRows,    \* bound: rows recorded
    MaxRuns,    \* bound: archive and reset, exports and erases together
    MaxHurts    \* bound: damages to a sealed file

ASSUME ArchiveConstants ==
    /\ Faults \subseteq {"vacuum", "seal", "scrub", "rename", "delete",
                         "session", "remove", "crash", "hurt"}
    /\ {MaxRows, MaxRuns, MaxHurts} \subseteq Nat

VARIABLES
    live,       \* the rows of the activity database
    uuid,       \* its identity, minted anew by every reset
    lastRow,    \* the rows ever recorded
    phase,      \* the step archive_and_reset is at
    staging,    \* plaintext staging files: name -> what is on the disk
    pending,    \* the sealed file not yet published and its name, or None
    archives,   \* published archives: name -> file
    portable,   \* portable exports: name -> file (passphrase or plaintext)
    stray,      \* what crashes and failed clean-ups have left behind
    report,     \* the last outcome reported
    seals,      \* keys drawn so far: each sealing has its own
    held,       \* history: name -> the rows and the identity it was made of
    hurt,       \* history: archives damaged after they were published
    used        \* the bounded occasions used up

db == <<live, uuid, lastRow>>
files == <<staging, pending, archives, portable, stray>>
vars == <<live, uuid, lastRow, phase, staging, pending, archives, portable,
          stray, report, seals, held, hurt, used>>

Fails(step) == step \in Faults

-----------------------------------------------------------------------------
(* The file format *)

\* A database is cut into chunks, here of one row, in the order of its pages; an
\* empty one is one chunk.
Chunks(rows) ==
    IF rows = {} THEN << {} >>
    ELSE [i \in 1 .. Cardinality(rows) |-> {SetToSeq(rows)[i]}]
Rows(chunks) == UNION ToSet(chunks)

\* Each chunk is read ahead of the one before it, so the last is known as such.
Frame(chunks, i, header) ==
    [key |-> header.key, at |-> i, last |-> i = Len(chunks),
     aad |-> IF i = 1 THEN header ELSE None, data |-> chunks[i]]
Seal(chunks, header) ==
    [header |-> header,
     frames |-> [i \in 1 .. Len(chunks) |-> Frame(chunks, i, header)]]

\* Mutant: any frame may be the last.
OpensUnended(file, i) ==
    /\ file.frames[i].key = file.header.key
    /\ file.frames[i].at = i
    /\ file.frames[i].aad = IF i = 1 THEN file.header ELSE None

\* Frame i opens: it was sealed with this key, at this place, as the last
\* exactly if nothing follows, and the first with this header.
Opens(file, i) ==
    /\ file.frames[i].key = file.header.key
    /\ file.frames[i].at = i
    /\ file.frames[i].last = (i = Len(file.frames))
    /\ file.frames[i].aad = IF i = 1 THEN file.header ELSE None

Unseals(file) ==
    /\ file.frames # <<>>
    /\ \A i \in DOMAIN file.frames : Opens(file, i)
Content(file) == Rows([i \in DOMAIN file.frames |-> file.frames[i].data])

\* What a disk or a copy may make of a sealed file: cut short, a frame altered,
\* left out or out of order, frames of another file, another header.
Damaged(file, other) ==
    {[file EXCEPT !.frames = SubSeq(@, 1, n)] : n \in 0 .. Len(file.frames) - 1}
    \cup {[file EXCEPT !.frames[i].key = 0] : i \in DOMAIN file.frames}
    \cup {[file EXCEPT !.frames = RemoveAt(@, i)] : i \in DOMAIN file.frames}
    \cup {[file EXCEPT !.frames = Reverse(@)]}
    \cup {[file EXCEPT !.frames[i] = other.frames[j]] :
            i \in DOMAIN file.frames, j \in DOMAIN other.frames}
    \cup {[file EXCEPT !.frames = @ \o other.frames], [file EXCEPT !.header = other.header],
          [file EXCEPT !.header.of = 0]}

-----------------------------------------------------------------------------
\* The variables have these types.
Header == [key : Nat, of : Nat]
SealedFrame == [key : Nat, at : Nat, last : BOOLEAN, aad : Header \cup {None},
                data : SUBSET Nat]
File == [header : Header, frames : Seq(SealedFrame)]
ASSUME NoneIsNoFile == None \notin [name : Nat, file : File]

Phases == {"recording", "staged", "sealed", "verified", "failing", "scrubbed",
           "published", "deleted", "suspended"}
Reports == {"none", "archive_failed", "cleanup_failed", "delete_failed", "completed",
            "session_failed", "crashed"}

TypeOK ==
    /\ lastRow \in Nat /\ live \subseteq 1 .. lastRow /\ uuid \in Nat /\ seals \in Nat
    /\ phase \in Phases /\ report \in Reports
    /\ staging \in [{"db", "wal"} -> {"absent", "plain", "zeroed"}]
    /\ pending \in {None} \cup [name : 1 .. seals, file : File]
    /\ stray \subseteq {"plain", "zeroed", "sealed"}
    /\ \A dir \in {archives, portable} :
          dir \in [DOMAIN dir -> File] /\ DOMAIN dir \subseteq DOMAIN held
    /\ held \in [DOMAIN held -> [rows : SUBSET (1 .. lastRow), of : Nat]]
    /\ DOMAIN held \subseteq 1 .. seals
    /\ hurt \subseteq Nat

Absent == [f \in {"db", "wal"} |-> "absent"]

Init ==
    /\ live = {} /\ uuid = 1 /\ lastRow = 0
    /\ phase = "recording"
    /\ staging = Absent /\ pending = None
    /\ archives = <<>> /\ portable = <<>>
    /\ stray = {} /\ report = "none" /\ seals = 0
    /\ held = <<>> /\ hurt = {}
    /\ used = [runs |-> 0, hurts |-> 0]

\* A directory, or the history, with a new entry.
Added(dir, name, entry) ==
    [n \in DOMAIN dir \cup {name} |-> IF n = name THEN entry ELSE dir[n]]

Record ==
    /\ phase = "recording" /\ lastRow < MaxRows
    /\ lastRow' = lastRow + 1
    /\ live' = live \cup {lastRow'}
    /\ UNCHANGED <<uuid, phase, files, report, seals, held, hurt, used>>

-----------------------------------------------------------------------------
(* Archive and reset *)

Starts == used.runs < MaxRuns /\ used' = [used EXCEPT !.runs = @ + 1]

\* A copy of the database in plaintext, to which the open sessions are closed.
Stage ==
    /\ phase = "recording" /\ Starts
    /\ \/ /\ staging' = [Absent EXCEPT !["db"] = "plain"]
          /\ phase' = "staged"
       \/ /\ Fails("vacuum")
          /\ staging' \in [{"db", "wal"} -> {"absent", "plain"}]
          /\ phase' = "failing"
    /\ UNCHANGED <<db, pending, archives, portable, stray, report, seals, held,
                   hurt>>

\* Sealing streams the copy; a failure removes what it had written. Verifying
\* the sealed file reads all of it.
SealStaged ==
    /\ phase = "staged"
    /\ seals' = seals + 1
    /\ \/ /\ pending' = [name |-> seals',
                         file |-> Seal(Chunks(live), [key |-> seals', of |-> uuid])]
          /\ phase' = "sealed"
       \/ /\ Fails("seal")
          /\ phase' = "failing"
          /\ UNCHANGED pending
    /\ \E wal \in {"absent", "plain"} : staging' = [staging EXCEPT !["wal"] = wal]
    /\ UNCHANGED <<db, archives, portable, stray, report, held, hurt, used>>

Verify ==
    /\ phase = "sealed"
    /\ phase' = IF Unseals(pending.file) THEN "verified" ELSE "failing"
    /\ UNCHANGED <<db, files, report, seals, held, hurt, used>>

\* Mutant: the siblings of the staging file are left to SQLite.
ScrubsMain ==
    {[left |-> [staging EXCEPT !["db"] = s], ok |-> s = "absent"] :
        s \in IF Fails("scrub") THEN {"absent", "zeroed", staging["db"]} ELSE {"absent"}}

\* Every plaintext file is overwritten and removed, whether or not another one
\* fails: one that cannot be opened stays, one that cannot be removed is zeros.
Scrubs ==
    LET Outcomes(f) == IF Fails("scrub") /\ staging[f] # "absent"
                       THEN {"absent", "zeroed", "plain"} ELSE {"absent"}
    IN {[left |-> [f \in {"db", "wal"} |-> IF f = "db" THEN d ELSE w],
         ok |-> d = "absent" /\ w = "absent"] :
            d \in Outcomes("db"), w \in Outcomes("wal")}

Left(dir) == {dir[f] : f \in DOMAIN dir} \ {"absent"}

\* The archive is given up. The sealed file is removed as well, and if that
\* fails it stays: nothing is said of it. A failed clean-up of plaintext is
\* what is reported, whatever failed before it.
GiveUp(scrub) ==
    /\ \E sealed \in {{}} \cup (IF Fails("remove") /\ pending # None
                              THEN {{"sealed"}} ELSE {}) :
          stray' = stray \cup Left(scrub.left) \cup sealed
    /\ staging' = Absent /\ pending' = None
    /\ report' = IF scrub.ok THEN "archive_failed" ELSE "cleanup_failed"
    /\ phase' = "recording"

Clean ==
    /\ phase = "failing"
    /\ \E scrub \in Scrubs : GiveUp(scrub)
    /\ UNCHANGED <<db, archives, portable, seals, held, hurt, used>>

Scrub ==
    /\ phase = "verified"
    /\ \E scrub \in Scrubs :
          \/ /\ scrub.ok
             /\ staging' = Absent /\ phase' = "scrubbed"
             /\ stray' = stray \cup Left(scrub.left)
             /\ UNCHANGED <<pending, report>>
          \/ ~scrub.ok /\ GiveUp(scrub)
    /\ UNCHANGED <<db, archives, portable, seals, held, hurt, used>>

Publish ==
    /\ phase = "scrubbed"
    /\ \/ /\ archives' = Added(archives, pending.name, pending.file)
          /\ held' = Added(held, pending.name, [rows |-> live, of |-> uuid])
          /\ pending' = None
          /\ phase' = "published"
          /\ UNCHANGED <<stray, report, staging>>
       \/ /\ Fails("rename")
          /\ GiveUp([left |-> Absent, ok |-> TRUE])
          /\ UNCHANGED <<archives, held>>
    /\ UNCHANGED <<db, portable, seals, hurt, used>>

\* Mutant: the rows go as soon as the copy is sealed.
DeletePhasesEarly == {"sealed", "published"}
DeletePhases == {"published"}

Delete ==
    /\ phase \in DeletePhases
    /\ \/ /\ live' = {}
          /\ phase' = IF phase = "published" THEN "deleted" ELSE phase
          /\ UNCHANGED report
       \/ /\ Fails("delete")
          /\ phase' = "recording" /\ report' = "delete_failed"
          /\ UNCHANGED live
    /\ UNCHANGED <<uuid, lastRow, files, seals, held, hurt, used>>

\* A fresh identity and session; without one capture stays suspended.
Replace ==
    /\ phase = "deleted"
    /\ uuid' = uuid + 1
    /\ \/ phase' = "recording" /\ report' = "completed"
       \/ /\ Fails("session")
          /\ phase' = "suspended" /\ report' = "session_failed"
    /\ UNCHANGED <<live, lastRow, files, seals, held, hurt, used>>

\* The process dies; the next start opens the database and nothing else. Nobody
\* looks at what is left in the archive directory before an erase does.
Crash ==
    /\ Fails("crash") /\ phase # "recording"
    /\ stray' = stray \cup Left(staging)
                \cup (IF pending # None THEN {"sealed"} ELSE {})
    /\ staging' = Absent /\ pending' = None
    /\ phase' = "recording" /\ report' = "crashed"
    /\ UNCHANGED <<db, archives, portable, seals, held, hurt, used>>

-----------------------------------------------------------------------------
(* Exports, the erase, and damage *)

Transcoded(file, header) ==
    Seal([i \in DOMAIN file.frames |-> file.frames[i].data], header)

\* A passphrase export seals what it opens frame by frame; a failure removes
\* the copy, a crash leaves what was written so far.
ExportPassphrase ==
    /\ Starts
    /\ seals' = seals + 1
    /\ \E n \in DOMAIN archives :
       LET copy == Transcoded(archives[n],
                              [key |-> seals', of |-> archives[n].header.of])
           Export(k) ==
               /\ portable' = Added(portable, seals',
                                    [copy EXCEPT !.frames = SubSeq(@, 1, k)])
               /\ held' = Added(held, seals', held[archives[n].header.key])
       IN \/ Unseals(archives[n]) /\ Export(Len(copy.frames))
          \/ ~Unseals(archives[n]) /\ UNCHANGED <<portable, held>>
          \/ /\ Fails("crash")
             /\ \E k \in 0 .. Len(copy.frames) - 1 :
                   (\A i \in 1 .. k : Opens(archives[n], i)) /\ Export(k)
    /\ UNCHANGED <<db, phase, staging, pending, archives, stray, report, hurt>>

\* Secure erase takes the rows, and then the archives and what is left of
\* staging, each file as far as it can be removed, even when the rows stay.
Erase ==
    /\ phase = "recording" /\ Starts
    /\ \E kept \in IF Fails("remove") THEN SUBSET DOMAIN archives ELSE {{}},
          left \in IF Fails("remove") THEN SUBSET stray ELSE {{}} :
          /\ archives' = [n \in kept |-> archives[n]]
          /\ stray' = left
    /\ \/ live' = {} /\ uuid' = uuid + 1
       \/ Fails("delete") /\ UNCHANGED <<live, uuid>>
    /\ UNCHANGED <<lastRow, phase, staging, pending, portable, report, seals,
                   held, hurt>>

\* Damage in the archive directory. A published file may come to be another one
\* altogether; the pending one, whose name is drawn for this run, only loses or
\* changes frames, or the rest of its header.
Hurt ==
    /\ Fails("hurt") /\ used.hurts < MaxHurts
    /\ used' = [used EXCEPT !.hurts = @ + 1]
    /\ \/ /\ pending # None
          /\ \E other \in {pending.file} \cup {archives[n] : n \in DOMAIN archives} :
             \E f \in Damaged(pending.file, other) :
                /\ f.header.key = pending.name
                /\ pending' = [pending EXCEPT !.file = f]
          /\ hurt' = hurt \cup (IF phase = "sealed" THEN {} ELSE {pending.name})
          /\ UNCHANGED <<archives, portable>>
       \/ \E n \in DOMAIN archives : \E m \in DOMAIN archives :
          /\ archives' \in {[archives EXCEPT ![n] = f] :
                              f \in Damaged(archives[n], archives[m])}
          /\ hurt' = hurt \cup {n}
          /\ UNCHANGED <<pending, portable>>
       \/ \E n \in DOMAIN portable : \E m \in DOMAIN archives :
          /\ portable' \in {[portable EXCEPT ![n] = f] :
                              f \in Damaged(portable[n], archives[m])}
          /\ UNCHANGED <<pending, archives, hurt>>
    /\ UNCHANGED <<db, phase, staging, stray, report, seals, held>>

Next ==
    \/ Record
    \/ Stage \/ SealStaged \/ Verify \/ Clean \/ Scrub \/ Publish \/ Delete
    \/ Replace \/ Crash
    \/ ExportPassphrase \/ Erase \/ Hurt

Spec == Init /\ [][Next]_vars

-----------------------------------------------------------------------------
(* Properties *)

\* A row that was recorded is in the database until an archive that opens holds
\* it, whichever of the steps of archive_and_reset fails and wherever it stops:
\* the archive is verified and published before the rows are deleted. An
\* archive damaged after that counts as what it held.
Kept == UNION {IF n \in hurt THEN held[n].rows
               ELSE IF Unseals(archives[n]) THEN Content(archives[n]) ELSE {} :
                  n \in DOMAIN archives}
TheLedger == INSTANCE Ledger WITH Row <- 1 .. MaxRows, kept <- Kept
ImplementsLedger == TheLedger!Spec

\* A sealed file that opens is the whole of what was sealed under the key of its
\* header, and under its identity, whatever befell it and however often it was
\* sealed anew (decrypt_chunks: key, counter, end mark and header of each frame).
Files(dir) == {dir[n] : n \in DOMAIN dir}
WhatOpensIsWhole ==
    \A file \in Files(archives) \cup Files(portable) : Unseals(file) =>
        LET sealed == held[file.header.key]
        IN  Content(file) = sealed.rows /\ file.header.of = sealed.of

\* Rows in plaintext are left on the disk only by a crash or by a clean-up whose
\* failure is reported as such (ArchiveStagingCleanup), never by an archive
\* that is reported as completed or as failed for another reason.
PlaintextReported ==
    []["plain" \in stray' \ stray
        => report' \in {"cleanup_failed", "crashed"}]_vars
=============================================================================
