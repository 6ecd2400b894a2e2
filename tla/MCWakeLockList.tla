--------------------------- MODULE MCWakeLockList ---------------------------
(* A small instance of WakeLockList for TLC. *)
EXTENDS WakeLockList

CONSTANTS main, unknown, lockA, idl
=============================================================================
