------------------------------ MODULE MCBinder ------------------------------
(* Small instances of Binder for TLC. *)
EXTENDS Binder

CONSTANTS p1, p2, t1, t2
=============================================================================
