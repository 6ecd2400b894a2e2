--------------------------- MODULE MCEarlySuspend ---------------------------
(* Small instances of EarlySuspend for TLC. *)
EXTENDS EarlySuspend

CONSTANTS main, unknown, drv, fb, screen, half
MCLevel == [h \in Handlers |-> IF h = screen THEN 50 ELSE 150]
=============================================================================
