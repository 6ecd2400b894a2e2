---------------------------- MODULE WakeLockSet ----------------------------
(***************************************************************************)
(* What kernel/power/wakelock.c promises its callers about the locks, as a *)
(* state machine over the set view of WakeLockOps: one step per API call,  *)
(* with the answer "how long is suspend blocked" that each call computes   *)
(* (-1 for ever, 0 not at all, else jiffies) and acts upon.                *)
(***************************************************************************)
EXTENDS WakeLockOps

VARIABLES
    wl,      \* the lock state
    answer   \* expire_in or has_lock of the last call, Nothing if it has none

Nothing == -2

Init == wl = wakelocks_init /\ answer = Nothing

InitLock(l) ==
    /\ l \notin wl.inited
    /\ wl' = wake_lock_init(wl, l)
    /\ answer' = Nothing

DestroyLock(l) ==
    /\ l \in wl.inited \ {main_wake_lock, unknown_wakeup}
    /\ wl' = wake_lock_destroy(wl, l)
    /\ answer' = Nothing

Lock(l, hasTimeout, timeout) ==
    /\ l \in wl.inited
    /\ wl' = wake_lock_internal(wl, l, hasTimeout, timeout)
    /\ answer' = IF LockType(l) = WAKE_LOCK_SUSPEND
                 THEN ExpireIn(wl, l, hasTimeout, timeout) ELSE Nothing

Unlock(l) ==
    /\ l \in wl.inited
    /\ wl' = wake_unlock(wl, l)
    /\ answer' = IF LockType(l) = WAKE_LOCK_SUSPEND
                 THEN HasLockAfterUnlock(wl, l) ELSE Nothing

Ask(type) ==
    /\ wl' = Reap(wl, type)
    /\ answer' = HasWakeLock(wl, type)

Tick == wl' = Elapse(wl) /\ answer' = Nothing

Next ==
    \/ \E l \in Locks :
          \/ InitLock(l) \/ DestroyLock(l) \/ Unlock(l)
          \/ Lock(l, FALSE, 0)
          \/ \E t \in 0..MaxTimeout : Lock(l, TRUE, t)
    \/ \E type \in LockTypes : Ask(type)
    \/ Tick

Spec == Init /\ [][Next]_<<wl, answer>>
=============================================================================
