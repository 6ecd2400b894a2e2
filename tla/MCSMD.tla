------------------------------- MODULE MCSMD -------------------------------
(* Small instances of SMD for TLC. *)
EXTENDS SMD
=============================================================================
