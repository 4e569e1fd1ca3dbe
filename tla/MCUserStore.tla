----------------------------- MODULE MCUserStore -----------------------------
(* Instances of UserStore for TLC.                                          *)
EXTENDS UserStore, TLC

\* A charge.
Charge == {-2}
=============================================================================
