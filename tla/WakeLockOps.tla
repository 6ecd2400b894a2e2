---------------------------- MODULE WakeLockOps ----------------------------
(***************************************************************************)
(* The effect of each entry point of kernel/power/wakelock.c on the lock   *)
(* structures, as functions of the lock state.  Every one of them runs     *)
(* under list_lock with interrupts off, so the modules that use them take  *)
(* each call as one step.                                                  *)
(*                                                                         *)
(* The build is the one of zte_blade.config: CONFIG_WAKELOCK_STAT and      *)
(* CONFIG_ZTE_SUSPEND_WAKEUP_MONITOR are set.  Of the statistics only the  *)
(* flag WAKE_LOCK_PREVENTING_SUSPEND is kept; counts and times are not.    *)
(*                                                                         *)
(* The lists active_wake_locks[] are sets here.  WakeLockList models the   *)
(* lists themselves and is checked to implement this set view.             *)
(***************************************************************************)
EXTENDS Integers, FiniteSetsExt

CONSTANTS
    Locks,            \* the struct wake_lock objects
    IdleLocks,        \* those initialised with WAKE_LOCK_IDLE
    main_wake_lock,   \* held while the screen is on
    unknown_wakeup,   \* taken when pm_suspend returned without an event
    MaxTimeout        \* bound on a timeout, in jiffies

ASSUME LockAssumption ==
    /\ IdleLocks \subseteq Locks
    /\ main_wake_lock \in Locks \ IdleLocks
    /\ unknown_wakeup \in Locks \ IdleLocks
    /\ main_wake_lock # unknown_wakeup
    /\ MaxTimeout \in Nat \ {0}

WAKE_LOCK_SUSPEND == "suspend"
WAKE_LOCK_IDLE    == "idle"
LockTypes == {WAKE_LOCK_SUSPEND, WAKE_LOCK_IDLE}

\* lock->flags & WAKE_LOCK_TYPE_MASK
LockType(l) == IF l \in IdleLocks THEN WAKE_LOCK_IDLE ELSE WAKE_LOCK_SUSPEND

(***************************************************************************)
(* The lock state w: the flag sets and, for a lock with AUTO_EXPIRE, the   *)
(* value of lock->expires - jiffies, where 0 stands for every value <= 0.  *)
(* left[l] is 0 for a lock without AUTO_EXPIRE (expires is not read then). *)
(***************************************************************************)
LockStates ==
    [inited     : SUBSET Locks,     \* WAKE_LOCK_INITIALIZED
     active     : SUBSET Locks,     \* WAKE_LOCK_ACTIVE
     autoExpire : SUBSET Locks,     \* WAKE_LOCK_AUTO_EXPIRE
     preventing : SUBSET Locks,     \* WAKE_LOCK_PREVENTING_SUSPEND
     left       : [Locks -> 0..MaxTimeout]]

\* active_wake_locks[type]
ActiveLocks(w, type) == {l \in w.active : LockType(l) = type}

\* Active locks that only wake_unlock ends.
Permanent(w, type) == ActiveLocks(w, type) \ w.autoExpire

\* get_expired_time() # 0
Expired(w, l) == l \in w.autoExpire /\ w.left[l] = 0

\* expire_wake_lock for every lock of S
expire_wake_lock(w, S) ==
    [w EXCEPT !.active = @ \ S, !.autoExpire = @ \ S, !.preventing = @ \ S]

\* Mutant of HasWakeLock: the shortest time left instead of the longest
HasWakeLockShortest(w, type) ==
    IF Permanent(w, type) # {} \/ ActiveLocks(w, type) = {}
    THEN IF Permanent(w, type) # {} THEN -1 ELSE 0
    ELSE Min({w.left[l] : l \in ActiveLocks(w, type)})

(***************************************************************************)
(* has_wake_lock_locked: its result and its effect.  The loop stops at the *)
(* first lock without a timeout; such locks are at the front of the list,  *)
(* so it then has expired nothing.                                         *)
(***************************************************************************)
HasWakeLock(w, type) ==
    IF Permanent(w, type) # {}
    THEN -1
    ELSE Max({0} \cup {w.left[l] : l \in ActiveLocks(w, type)})

Reap(w, type) ==
    IF Permanent(w, type) # {}
    THEN w
    ELSE expire_wake_lock(w, {l \in ActiveLocks(w, type) : Expired(w, l)})

\* update_sleep_wait_stats_locked: who is charged for keeping the phone awake
update_sleep_wait_stats(w, done) ==
    LET all == ActiveLocks(w, WAKE_LOCK_SUSPEND)
    IN  [w EXCEPT !.preventing =
            IF done THEN @ \ all
            ELSE (@ \ all) \cup {l \in all : ~ Expired(w, l)}]

-----------------------------------------------------------------------------
wake_lock_init(w, l) ==
    [w EXCEPT !.inited = @ \cup {l}, !.active = @ \ {l},
              !.autoExpire = @ \ {l}, !.preventing = @ \ {l}]

\* The memory of a destroyed lock is dead: its other flags are dropped too.
wake_lock_destroy(w, l) ==
    [w EXCEPT !.inited = @ \ {l}, !.active = @ \ {l},
              !.autoExpire = @ \ {l}, !.preventing = @ \ {l},
              !.left = [@ EXCEPT ![l] = 0]]

(***************************************************************************)
(* wake_lock_internal: Acquire sets the flags and the expiry and moves the *)
(* lock to its active list; a lock whose timeout has run out unseen is     *)
(* first accounted as released.  Charge then updates the sleep accounting, *)
(* and a timed request ends with has_wake_lock_locked.                     *)
(***************************************************************************)
Acquire(w, l, hasTimeout, timeout) ==
    [inited     |-> w.inited,
     active     |-> w.active \cup {l},
     autoExpire |-> IF hasTimeout THEN w.autoExpire \cup {l}
                                  ELSE w.autoExpire \ {l},
     preventing |-> IF Expired(w, l) THEN w.preventing \ {l} ELSE w.preventing,
     left       |-> [w.left EXCEPT ![l] = IF hasTimeout THEN timeout ELSE 0]]

\* Mutant of Charge: taking the main lock does not end the accounting
ChargeIgnoresMain(w, l) ==
    IF main_wake_lock \notin w.active THEN update_sleep_wait_stats(w, FALSE) ELSE w

Charge(w, l) ==
    CASE l = main_wake_lock          -> update_sleep_wait_stats(w, TRUE)
      [] l # main_wake_lock /\ main_wake_lock \notin w.active
                                     -> update_sleep_wait_stats(w, FALSE)
      [] OTHER                       -> w

Locked(w, l, hasTimeout, timeout) ==
    LET a == Acquire(w, l, hasTimeout, timeout)
    IN  IF LockType(l) = WAKE_LOCK_SUSPEND THEN Charge(a, l) ELSE a

wake_lock_internal(w, l, hasTimeout, timeout) ==
    LET a == Locked(w, l, hasTimeout, timeout)
    IN  IF hasTimeout /\ LockType(l) = WAKE_LOCK_SUSPEND
        THEN Reap(a, WAKE_LOCK_SUSPEND) ELSE a

\* expire_in of a WAKE_LOCK_SUSPEND lock
ExpireIn(w, l, hasTimeout, timeout) ==
    IF hasTimeout
    THEN HasWakeLock(Locked(w, l, hasTimeout, timeout), WAKE_LOCK_SUSPEND)
    ELSE -1

(***************************************************************************)
(* wake_unlock: the flags are cleared, has_wake_lock_locked runs, and the  *)
(* release of the main lock starts charging the locks still held.          *)
(***************************************************************************)
Released(w, l) ==
    [expire_wake_lock(w, {l}) EXCEPT !.left = [@ EXCEPT ![l] = 0]]

wake_unlock(w, l) ==
    LET r == Reap(Released(w, l), WAKE_LOCK_SUSPEND)
    IN  IF LockType(l) # WAKE_LOCK_SUSPEND
        THEN Released(w, l)
        ELSE IF l = main_wake_lock THEN update_sleep_wait_stats(r, FALSE) ELSE r

\* has_lock in wake_unlock
HasLockAfterUnlock(w, l) == HasWakeLock(Released(w, l), WAKE_LOCK_SUSPEND)

\* jiffies moves on by one
Elapse(w) ==
    [w EXCEPT !.left = [l \in Locks |-> IF @[l] > 0 THEN @[l] - 1 ELSE 0]]

\* wakelocks_init: the main lock is created held, then unknown_wakeups
wakelocks_init ==
    [inited     |-> {main_wake_lock, unknown_wakeup},
     active     |-> {main_wake_lock},
     autoExpire |-> {},
     preventing |-> {},
     left       |-> [l \in Locks |-> 0]]
=============================================================================
