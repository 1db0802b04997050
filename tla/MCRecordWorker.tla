----------------------------- MODULE MCRecordWorker -----------------------------
(* RecordWorker with two applications, one control each. *)
EXTENDS RecordWorker

CONSTANTS a, b, box, pane

Owner == (box :> a) @@ (pane :> b)

Event(kind, el, val) == [kind |-> kind, el |-> el, val |-> val]

(* In the tray: a check box that takes two values, a text field, and focus  *)
(* changes.  In the helper, where the worker is the same, an action that is *)
(* sent at once and one that waits.                                        *)
Mixed == [tray |-> {Event("act", box, 1), Event("act", box, 2), Event("edit", box, 1)},
          helper |-> {Event("act", box, 1), Event("scroll", box, 1)}]

Some == [tray |-> 3, helper |-> 2]
InTray == [tray |-> 1, helper |-> 0]

Ahead == {0, 2}
=================================================================================
