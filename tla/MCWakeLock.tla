----------------------------- MODULE MCWakeLock -----------------------------
(* Small instances of WakeLock for TLC: model values for the locks. *)
EXTENDS WakeLock

CONSTANTS main, unknown, drv, usr, idl
=============================================================================
