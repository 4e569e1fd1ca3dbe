---------------------------- MODULE MCTaskLifecycle ----------------------------
(* Instances of TaskLifecycle for TLC; the configurations give its          *)
(* constants their values.                                                  *)
EXTENDS TaskLifecycle
=============================================================================
