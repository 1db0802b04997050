------------------------------- MODULE Ledger -------------------------------
(***************************************************************************)
(* What archive and reset promises of the recorded rows: a row is in the    *)
(* activity database until it is also in an archive that opens, and only an *)
(* erase takes archives away. Archive.tla shows the steps of the code to do *)
(* this over files, failures and crashes.                                  *)
(***************************************************************************)
EXTENDS Integers

CONSTANT Row    \* the rows there may be

VARIABLES
    live,       \* the rows in the activity database
    kept        \* the rows in the archives

Init == live = {} /\ kept = {}

\* A new row, one that is nowhere yet.
Record == \E r \in Row \ (live \cup kept) : live' = live \cup {r} /\ kept' = kept

\* An archive of all there is.
Archive == kept' = kept \cup live /\ live' = live

\* The database is emptied of what the archives hold.
Reset == live \subseteq kept /\ live' = {} /\ kept' = kept

\* An erase takes what it can.
Erase == live' \in {live, {}} /\ kept' \subseteq kept

Next == Record \/ Archive \/ Reset \/ Erase

Spec == Init /\ [][Next]_<<live, kept>>
=============================================================================
