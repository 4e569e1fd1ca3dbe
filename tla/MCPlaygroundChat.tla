--------------------------- MODULE MCPlaygroundChat ---------------------------
(* Instances of PlaygroundChat for TLC; the configuration gives its         *)
(* constants their values.                                                  *)
EXTENDS PlaygroundChat
=============================================================================
