------------------------------ MODULE Sequencer ------------------------------
(***************************************************************************)
(* SessionTimebase and Sequencer of gilbreth-core: the one authority that  *)
(* numbers the rows of a session and turns a monotonic capture instant     *)
(* into a wall-clock timestamp.  Instants and wall-clock readings are      *)
(* integers of the same unit; the saturating i64/u64 arithmetic of the     *)
(* code is plain arithmetic here, no instance comes near its limits.       *)
(*                                                                         *)
(* A sequencer is a record:                                                *)
(*   session  the id of the session row its numbers belong to              *)
(*   next     the next sequence number (next_seq)                          *)
(*   baseI    base_instant of the timebase                                 *)
(*   baseU    base_utc_ms of the timebase                                  *)
(*   last     last_ts_unix_ms, or NoTs before the first stamp              *)
(***************************************************************************)
EXTENDS Integers

CONSTANT NoTs    \* Option::None where the code has an optional timestamp

ASSUME NoTsAssumption == NoTs \notin Int

Sequencers == [session : Nat, next : Nat, baseI : Int, baseU : Int,
               last : Int \cup {NoTs}]

NewSequencer(id, instant, utc) ==
    [session |-> id, next |-> 1, baseI |-> instant, baseU |-> utc, last |-> NoTs]

(* The timebase alone, without the never-go-backwards clamp. *)
Projected(sq, instant) == sq.baseU + (instant - sq.baseI)

Clamped(sq, ts) == IF sq.last = NoTs \/ sq.last <= ts THEN ts ELSE sq.last

(* Mutant: no clamp, a late capture goes back in time.                     *)
TimestampUnclamped(sq, instant) == Projected(sq, instant)

TimestampFor(sq, instant) == Clamped(sq, Projected(sq, instant))

Drift(sq, instant, utc) == utc - Projected(sq, instant)

(* A drift beyond the threshold moves the base to the present, never below *)
(* the last timestamp given out.                                           *)
Resynced(sq, instant, utc, threshold) ==
    IF Drift(sq, instant, utc) \in -threshold .. threshold
    THEN sq
    ELSE [sq EXCEPT !.baseI = instant, !.baseU = Clamped(sq, utc)]

(* What stamping a row captured at `instant` leaves behind; the row itself *)
(* takes number sq.next and timestamp TimestampFor(sq, instant).           *)
Stamped(sq, instant) ==
    [sq EXCEPT !.next = @ + 1, !.last = TimestampFor(sq, instant)]
=============================================================================
