------------------------------ MODULE MCLogger ------------------------------
(* Small instances of Logger for TLC. *)
EXTENDS Logger

CONSTANTS w1, w2, r1, r2
=============================================================================
