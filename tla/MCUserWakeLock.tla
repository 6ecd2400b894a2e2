--------------------------- MODULE MCUserWakeLock ---------------------------
(* Small instances of UserWakeLock for TLC: names that are prefixes of each *)
(* other, u64 scaled to 6 bits and long to 3.                               *)
EXTENDS UserWakeLock

CONSTANTS main, unknown
MCNames == {<<1>>, <<1, 1>>, <<1, 2>>}
MCLocks == MCNames \cup {main, unknown}
ShortTimeouts == 0..6
AllTimeouts == 0..63
=============================================================================
