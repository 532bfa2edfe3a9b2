---- MODULE MCTuiEditor ----
(* Two rows, so that filling, pasting and sorting move cells both ways. *)
EXTENDS TuiEditor
====
