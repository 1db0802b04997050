-------------------------------- MODULE Channel --------------------------------
(***************************************************************************)
(* Messages in a channel that switch something on and off: what the one at  *)
(* place i finds on when it is taken, and what is on when the channel has   *)
(* been emptied.  The proofs about policies behind channels use it.        *)
(***************************************************************************)
EXTENDS Integers, Sequences

(* What is on at place i of a channel s: it was on before, or a message      *)
(* ahead of i turned it on, and none since then has turned it off.          *)
Lit(s, i, before, On, Off) ==
    \/ before /\ \A k \in 1 .. Len(s) : k < i => s[k] \notin Off
    \/ \E j \in 1 .. Len(s) :
          j < i /\ s[j] \in On /\ \A k \in 1 .. Len(s) : j < k /\ k < i => s[k] \notin Off

LitAfter(s, before, On, Off) == Lit(s, Len(s) + 1, before, On, Off)
=============================================================================
