------------------------------ MODULE MCWriter ------------------------------
(***************************************************************************)
(* Writer for TLC: values a configuration cannot write down.               *)
(***************************************************************************)
EXTENDS Writer

Steady    == {0}
Backwards == {0, -2}
Forwards  == {0, 2}
=============================================================================
