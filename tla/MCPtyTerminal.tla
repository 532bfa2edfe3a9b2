---- MODULE MCPtyTerminal ----
(* A terminal with room for two chunks of output and two keys, so that each *)
(* side can hold the other up.                                              *)
EXTENDS PtyTerminal
====
