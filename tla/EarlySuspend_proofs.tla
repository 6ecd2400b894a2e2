------------------------ MODULE EarlySuspend_proofs ------------------------
(***************************************************************************)
(* Proofs about WakeLock and about EarlySuspend, which extends it.  For    *)
(* every set of locks and every timeout: the safety properties of          *)
(* WakeLock.  For every set of handlers with any levels besides: that      *)
(* EarlySuspend implements WakeLock, and that the phone sleeps with the    *)
(* screen off only.                                                        *)
(***************************************************************************)
EXTENDS EarlySuspend, WakeLockOps_proofs

-----------------------------------------------------------------------------
(* WakeLock: the main thread, the work queue and the timer *)

\* queue_work leaves the item queued, and every item that was.
LEMMA QueueWork ==
    ASSUME NEW S, NEW q \in Seq(S), NEW x \in S
    PROVE  /\ queue_work(q, x) \in Seq(S)
           /\ Queued(queue_work(q, x), x)
           /\ \A y : Queued(q, y) => Queued(queue_work(q, x), y)
<1>1. CASE Queued(q, x)
  BY <1>1 DEF queue_work
<1>2. CASE ~ Queued(q, x)
  <2>1. queue_work(q, x) = Append(q, x)
    BY <1>2 DEF queue_work
  <2>2. Append(q, x) \in Seq(S) /\ Append(q, x)[Len(q) + 1] = x
        /\ Len(q) + 1 \in DOMAIN Append(q, x)
    OBVIOUS
  <2>3. \A i \in DOMAIN q : i \in DOMAIN Append(q, x) /\ Append(q, x)[i] = q[i]
    OBVIOUS
  <2> QED BY <2>1, <2>2, <2>3 DEF Queued
<1> QED BY <1>1, <1>2

\* The timer and the queue after a call whose answer is n
LEMMA AnswerActedUpon ==
    ASSUME NEW n \in {-1} \cup 0..MaxTimeout, NEW q \in Seq({suspend_work})
    PROVE  /\ TimerAfter(n) \in {NoTimer} \cup 0..MaxTimeout
           /\ n > 0 => TimerAfter(n) = n /\ TimerAfter(n) # NoTimer
           /\ WorkAfter(n, q) \in Seq({suspend_work})
           /\ n = 0 => Queued(WorkAfter(n, q), suspend_work)
           /\ Queued(q, suspend_work) => Queued(WorkAfter(n, q), suspend_work)
<1>1. suspend_work \in {suspend_work}
  OBVIOUS
<1>2. /\ queue_work(q, suspend_work) \in Seq({suspend_work})
      /\ Queued(queue_work(q, suspend_work), suspend_work)
  BY <1>1, QueueWork
<1>3. TimerAfter(n) \in {NoTimer} \cup 0..MaxTimeout
      /\ (n > 0 => TimerAfter(n) = n /\ TimerAfter(n) # NoTimer)
  BY LockAssumption DEF TimerAfter, NoTimer
<1> QED BY <1>2, <1>3 DEF WorkAfter

(***************************************************************************)
(* What a call of wake_lock, wake_lock_timeout or wake_unlock by any       *)
(* client does to each part of the invariants.                             *)
(***************************************************************************)
LEMMA CallStep ==
    ASSUME TypeOK, NEW l \in Locks, NEW h \in BOOLEAN, NEW t \in 0..MaxTimeout,
           DoLock(l, h, t) \/ DoUnlock(l)
    PROVE  /\ wl' \in LockStates /\ timer' \in {NoTimer} \cup 0..MaxTimeout
           /\ wq' \in Seq({suspend_work}) /\ firing' = firing
           /\ eventSeen' \in BOOLEAN /\ waitForWakeup' \in BOOLEAN
           /\ wl'.inited = wl.inited /\ wl'.active \subseteq wl.active \cup {l}
           /\ NextLook => NextLook'
           /\ LockType(l) = WAKE_LOCK_SUSPEND => NextLook'
           /\ LockType(l) # WAKE_LOCK_SUSPEND => eventSeen' = eventSeen
           /\ TimerCovers => TimerCovers'
           /\ Accounted(wl) => Accounted(wl')
<1> USE DEF TypeOK
<1>1. CASE LockType(l) = WAKE_LOCK_SUSPEND
  <2>1. PICK n \in {-1} \cup 0..MaxTimeout :
          /\ timer' = TimerAfter(n) /\ wq' = WorkAfter(n, wq)
          /\ wl' \in LockStates /\ wl'.inited = wl.inited
          /\ wl'.active \subseteq wl.active \cup {l}
          /\ n = -1 => Permanent(wl', WAKE_LOCK_SUSPEND) # {}
          /\ n # -1 =>
               \A k \in ActiveLocks(wl', WAKE_LOCK_SUSPEND) : wl'.left[k] <= n
          /\ Accounted(wl) => Accounted(wl')
    <3>1. CASE DoLock(l, h, t)
      <4>1. /\ timer' = TimerAfter(ExpireIn(wl, l, h, t))
            /\ wq' = WorkAfter(ExpireIn(wl, l, h, t), wq)
            /\ wl' = wake_lock_internal(wl, l, h, t)
        BY <1>1, <3>1 DEF DoLock
      <4>2. ExpireIn(wl, l, h, t) \in {-1} \cup 0..MaxTimeout
        BY <1>1, LockCallEffect
      <4> WITNESS ExpireIn(wl, l, h, t) \in {-1} \cup 0..MaxTimeout
      <4> QED BY <1>1, <4>1, LockCallEffect
    <3>2. CASE DoUnlock(l)
      <4>1. /\ timer' = TimerAfter(HasLockAfterUnlock(wl, l))
            /\ wq' = WorkAfter(HasLockAfterUnlock(wl, l), wq)
            /\ wl' = wake_unlock(wl, l)
        BY <1>1, <3>2 DEF DoUnlock
      <4>2. HasLockAfterUnlock(wl, l) \in {-1} \cup 0..MaxTimeout
        BY <1>1, UnlockCallEffect
      <4> WITNESS HasLockAfterUnlock(wl, l) \in {-1} \cup 0..MaxTimeout
      <4> QED BY <1>1, <4>1, UnlockCallEffect
    <3> QED BY <3>1, <3>2
  <2>2. /\ firing' = firing /\ eventSeen' \in BOOLEAN /\ waitForWakeup' \in BOOLEAN
    BY <1>1 DEF DoLock, DoUnlock
  <2>3. /\ timer' \in {NoTimer} \cup 0..MaxTimeout
        /\ n > 0 => timer' = n /\ timer' # NoTimer
        /\ wq' \in Seq({suspend_work})
        /\ n = 0 => Queued(wq', suspend_work)
    BY <2>1, AnswerActedUpon
  <2>4. NextLook'
    BY <2>1, <2>3 DEF NextLook
  <2>5. TimerCovers'
    <3> SUFFICES ASSUME Permanent(wl', WAKE_LOCK_SUSPEND) = {},
                        NEW k \in ActiveLocks(wl', WAKE_LOCK_SUSPEND),
                        wl'.left[k] > 0
                 PROVE  timer' >= wl'.left[k]
      BY DEF TimerCovers, Held
    <3>1. wl'.left[k] <= n /\ wl'.left[k] \in 0..MaxTimeout
      BY <2>1 DEF ActiveLocks, LockStates
    <3> QED BY <2>3, <3>1, LockAssumption
  <2> QED BY <1>1, <2>1, <2>2, <2>3, <2>4, <2>5
<1>2. CASE LockType(l) # WAKE_LOCK_SUSPEND
  <2>1. /\ UNCHANGED <<timer, wq, firing, eventSeen, waitForWakeup>>
        /\ wl' \in {wake_lock_internal(wl, l, h, t), wake_unlock(wl, l)}
    BY <1>2 DEF DoLock, DoUnlock
  <2>2. /\ wl' \in LockStates /\ wl'.inited = wl.inited
        /\ wl'.active \subseteq wl.active \cup {l}
        /\ ActiveLocks(wl', WAKE_LOCK_SUSPEND) = ActiveLocks(wl, WAKE_LOCK_SUSPEND)
        /\ Permanent(wl', WAKE_LOCK_SUSPEND) = Permanent(wl, WAKE_LOCK_SUSPEND)
        /\ \A k \in ActiveLocks(wl, WAKE_LOCK_SUSPEND) : wl'.left[k] = wl.left[k]
        /\ Accounted(wl) => Accounted(wl')
    BY <1>2, <2>1, IdleCallEffect
  <2> QED BY <1>2, <2>1, <2>2 DEF NextLook, TimerCovers, Held
<1> QED BY <1>1, <1>2

-----------------------------------------------------------------------------
\* Only an initialised lock is on an active list, and the two locks of
\* wakelock.c itself stay initialised.
ActiveInited ==
    /\ wl.active \subseteq wl.inited
    /\ {main_wake_lock, unknown_wakeup} \subseteq wl.inited

\* An event that the running suspend() will find at its end, and for which it
\* will therefore not take unknown_wakeup, has left something behind that
\* looks at the locks again.
EventCovered ==
    eventSeen /\ pc \in SuspendPcs \ {"suspend", "entry"} => NextLook

(***************************************************************************)
(* The inductive invariant.  NoLostSuspend is not inductive by itself: the *)
(* worker going back to idle relies on the timer covering the locks that   *)
(* stopped it (TimerCovers), or on EventCovered.  Destroying a lock that   *)
(* is held breaks the last three parts.                                    *)
(***************************************************************************)
Inv ==
    /\ TypeOK
    /\ ActiveInited
    /\ Accounted(wl)
    /\ UserLocksKeepAwake
    /\ DestroyHeld \/ (TimerCovers /\ NoLostSuspend /\ EventCovered)

\* has_wake_lock changes neither the permanent locks nor the cover.
LEMMA ReapStep ==
    ASSUME TypeOK, NEW type, wl' = Reap(wl, type), timer' = timer
    PROVE  /\ wl' \in LockStates
           /\ ActiveInited => ActiveInited'
           /\ Accounted(wl) => Accounted(wl')
           /\ Held' \subseteq Held
           /\ Permanent(wl', WAKE_LOCK_SUSPEND) = Permanent(wl, WAKE_LOCK_SUSPEND)
           /\ TimerCovers => TimerCovers'
           /\ type = WAKE_LOCK_SUSPEND /\ HasWakeLock(wl, WAKE_LOCK_SUSPEND) = 0
                => Held' = {}
<1>1. wl \in LockStates
  BY DEF TypeOK
<1>2. /\ wl' \in LockStates /\ wl'.inited = wl.inited /\ wl'.left = wl.left
      /\ wl'.active \subseteq wl.active
      /\ Permanent(wl', WAKE_LOCK_SUSPEND) = Permanent(wl, WAKE_LOCK_SUSPEND)
      /\ HasWakeLock(wl, type) = 0 => ActiveLocks(wl', type) = {}
  BY <1>1, ReapEffect
<1>3. Accounted(wl) => Accounted(wl')
  BY <1>1, ReapAccounted
<1>4. Held' \subseteq Held
  BY <1>2 DEF Held, ActiveLocks
<1> QED BY <1>2, <1>3, <1>4 DEF ActiveInited, TimerCovers, Held

\* A lock that makes has_wake_lock answer "yes" will be looked at again.
LEMMA AnswerCovered ==
    ASSUME TypeOK, TimerCovers, HasWakeLock(wl, WAKE_LOCK_SUSPEND) # 0
    PROVE  Permanent(wl, WAKE_LOCK_SUSPEND) # {} \/ timer # NoTimer
<1>1. wl \in LockStates
  BY DEF TypeOK
<1>2. CASE Permanent(wl, WAKE_LOCK_SUSPEND) = {}
  <2>1. HasWakeLock(wl, WAKE_LOCK_SUSPEND) > 0
    BY <1>1, <1>2, HasWakeLockAnswer, LockAssumption
  <2>2. PICK l \in Held : wl.left[l] = HasWakeLock(wl, WAKE_LOCK_SUSPEND)
    BY <1>1, <2>1, HasWakeLockAnswer DEF Held
  <2>3. timer >= wl.left[l] /\ wl.left[l] > 0
    BY <1>2, <2>1, <2>2 DEF TimerCovers
  <2>4. timer \in Int /\ wl.left[l] \in Int
    BY <1>1, LockAssumption DEF TypeOK, NoTimer, LockStates, Held, ActiveLocks
  <2> QED BY <2>3, <2>4 DEF NoTimer
<1> QED BY <1>2

\* Moves of the worker that touch nothing else
LEMMA PcStep ==
    ASSUME Inv, NEW p \in SuspendPcs \ {"suspend", "entry"},
           NEW q \in (SuspendPcs \cup {"idle"}) \ {"late"}, Step(p, q),
           q \in {"irqs_off", "asleep"} => p \in {"late", "irqs_off"},
           q = "idle" => eventSeen
    PROVE  Inv'
<1>1. /\ pc = p /\ pc' = q
      /\ UNCHANGED <<wl, timer, firing, wq, eventSeen, waitForWakeup>>
  BY DEF Step
<1>2. TypeOK' /\ ActiveInited' /\ Accounted(wl)'
  BY <1>1 DEF Inv, TypeOK, ActiveInited
<1>3. UserLocksKeepAwake'
  BY <1>1 DEF Inv, UserLocksKeepAwake, Held
<1>4. (TimerCovers => TimerCovers') /\ (NextLook => NextLook')
  BY <1>1 DEF TimerCovers, Held, NextLook
<1>5. EventCovered => EventCovered'
  BY <1>1, <1>4 DEF EventCovered
<1>6. EventCovered => NoLostSuspend'
  BY <1>1, <1>4 DEF EventCovered, NoLostSuspend
<1> QED BY <1>2, <1>3, <1>4, <1>5, <1>6 DEF Inv

\* The worker asks has_wake_lock and moves on the answer.
LEMMA CheckStep ==
    ASSUME Inv, NEW p \in SuspendPcs \ {"entry"},
           NEW held \in (SuspendPcs \cup {"idle"}) \ {"late", "irqs_off", "asleep"},
           NEW free \in SuspendPcs,
           CheckLocks(p, held, free), waitForWakeup' \in BOOLEAN,
           held = "idle" => p = "suspend",
           p = "suspend" => held = "idle" /\ free = "entry"
    PROVE  Inv'
<1> DEFINE n == HasWakeLock(wl, WAKE_LOCK_SUSPEND)
<1>1. /\ pc = p /\ wl' = Reap(wl, WAKE_LOCK_SUSPEND)
      /\ pc' = IF n # 0 THEN held ELSE free
      /\ UNCHANGED <<timer, firing, wq, eventSeen>>
  BY DEF CheckLocks
<1>2. TypeOK
  BY DEF Inv
<1>3. /\ wl' \in LockStates
      /\ ActiveInited'
      /\ Accounted(wl')
      /\ Permanent(wl', WAKE_LOCK_SUSPEND) = Permanent(wl, WAKE_LOCK_SUSPEND)
      /\ TimerCovers => TimerCovers'
      /\ n = 0 => Held' = {}
  BY <1>1, <1>2, ReapStep DEF Inv
<1>4. TypeOK'
  BY <1>1, <1>2, <1>3 DEF TypeOK
<1>5. UserLocksKeepAwake'
  <2>1. CASE n = 0
    BY <1>3, <2>1 DEF UserLocksKeepAwake
  <2>2. CASE n # 0
    BY <1>1, <2>2 DEF UserLocksKeepAwake
  <2> QED BY <2>1, <2>2
<1>6. NextLook => NextLook'
  BY <1>1, <1>3 DEF NextLook
<1>7. EventCovered => EventCovered'
  BY <1>1, <1>6 DEF EventCovered, SuspendPcs
<1>8. TimerCovers => NoLostSuspend'
  <2>1. CASE n = 0
    BY <1>1, <2>1 DEF NoLostSuspend
  <2>2. CASE n # 0
    BY <1>1, <1>2, <1>6, <2>2, AnswerCovered DEF NextLook, NoLostSuspend
  <2> QED BY <2>1, <2>2
<1> QED BY <1>3, <1>4, <1>5, <1>7, <1>8 DEF Inv

\* A call by a context that may run, or the unknown_wakeup of the worker
LEMMA CallInv ==
    ASSUME Inv, NEW l \in Locks, NEW h \in BOOLEAN, NEW t \in 0..MaxTimeout,
           DoLock(l, h, t) \/ DoUnlock(l), l \in wl.inited,
           pc' \in {pc, "idle"}, pc' # pc => LockType(l) = WAKE_LOCK_SUSPEND,
           pc \in {"late", "irqs_off", "asleep"} => l \in DriverLocks
    PROVE  Inv'
<1>1. TypeOK
  BY DEF Inv
<1>2. /\ wl' \in LockStates /\ timer' \in {NoTimer} \cup 0..MaxTimeout
      /\ wq' \in Seq({suspend_work}) /\ firing' = firing
      /\ eventSeen' \in BOOLEAN /\ waitForWakeup' \in BOOLEAN
      /\ wl'.inited = wl.inited /\ wl'.active \subseteq wl.active \cup {l}
      /\ NextLook => NextLook'
      /\ LockType(l) = WAKE_LOCK_SUSPEND => NextLook'
      /\ LockType(l) # WAKE_LOCK_SUSPEND => eventSeen' = eventSeen
      /\ TimerCovers => TimerCovers'
      /\ Accounted(wl) => Accounted(wl')
  BY <1>1, CallStep
<1>3. TypeOK'
  BY <1>1, <1>2 DEF TypeOK
<1>4. ActiveInited'
  BY <1>2 DEF Inv, ActiveInited
<1>5. UserLocksKeepAwake'
  BY <1>2 DEF Inv, UserLocksKeepAwake, Held, ActiveLocks
<1>6. EventCovered => EventCovered'
  BY <1>2 DEF EventCovered, SuspendPcs
<1>7. NoLostSuspend => NoLostSuspend'
  BY <1>2 DEF NoLostSuspend
<1> QED BY <1>2, <1>3, <1>4, <1>5, <1>6, <1>7 DEF Inv

\* wakelocks_init
LEMMA InitInv ==
    Init => Inv
<1> SUFFICES ASSUME Init PROVE Inv
  OBVIOUS
<1>1. /\ wl.inited = {main_wake_lock, unknown_wakeup}
      /\ wl.active = {main_wake_lock}
      /\ wl.autoExpire = {} /\ wl.preventing = {}
      /\ wl \in LockStates
  BY LockAssumption DEF Init, wakelocks_init, LockStates
<1>2. TypeOK
  <2>1. <<>> \in Seq({suspend_work})
    OBVIOUS
  <2>2. timer = NoTimer /\ firing = FALSE /\ wq = <<>> /\ pc = "idle"
        /\ eventSeen = FALSE /\ waitForWakeup = FALSE
    BY DEF Init
  <2>3. wq \in Seq({suspend_work})
    BY <2>1, <2>2
  <2> QED BY <1>1, <2>2, <2>3, Zenon DEF TypeOK
<1>3. Permanent(wl, WAKE_LOCK_SUSPEND) # {}
  BY <1>1, MainIsSuspend DEF Permanent, ActiveLocks
<1> QED BY <1>1, <1>2, <1>3 DEF Init, Inv, ActiveInited, Accounted,
      UserLocksKeepAwake, TimerCovers, NoLostSuspend, NextLook, EventCovered

\* Every step of the system keeps the invariant.
LEMMA InvStep ==
    Inv /\ [Next]_wlVars => Inv'
<1> SUFFICES ASSUME Inv, [Next]_wlVars PROVE Inv'
  OBVIOUS
<1>t. TypeOK /\ wl \in LockStates
  BY DEF Inv, TypeOK
<1>m. main_wake_lock \in wl.inited /\ unknown_wakeup \in wl.inited
  BY DEF Inv, ActiveInited
<1>1. ASSUME NEW l \in Locks \ {main_wake_lock, unknown_wakeup}, InitLock(l)
      PROVE  Inv'
  <2>1. /\ wl' = wake_lock_init(wl, l) /\ l \notin wl.inited /\ l \notin wl.active
        /\ UNCHANGED <<timer, firing, wq, pc, eventSeen, waitForWakeup>>
    BY <1>1 DEF InitLock, Inv, ActiveInited
  <2>2. /\ wl' \in LockStates
        /\ wl'.inited = wl.inited \cup {l} /\ wl'.active = wl.active
        /\ wl'.autoExpire = wl.autoExpire \ {l} /\ wl'.left = wl.left
        /\ wl'.preventing \subseteq wl.preventing
    <3>1. /\ wl' \in LockStates
          /\ wl'.inited = wl.inited \cup {l} /\ wl'.active = wl.active \ {l}
          /\ wl'.autoExpire = wl.autoExpire \ {l} /\ wl'.left = wl.left
          /\ wl'.preventing = wl.preventing \ {l}
      BY <1>t, <2>1, InitDestroyEffect
    <3> QED BY <2>1, <3>1
  <2>3. /\ ActiveLocks(wl', WAKE_LOCK_SUSPEND) = ActiveLocks(wl, WAKE_LOCK_SUSPEND)
        /\ Permanent(wl', WAKE_LOCK_SUSPEND) = Permanent(wl, WAKE_LOCK_SUSPEND)
    BY <2>1, <2>2 DEF ActiveLocks, Permanent
  <2>4. TypeOK'
    BY <1>t, <2>1, <2>2 DEF TypeOK
  <2>5. ActiveInited' /\ Accounted(wl') /\ UserLocksKeepAwake'
    BY <2>1, <2>2, <2>3 DEF Inv, ActiveInited, Accounted, UserLocksKeepAwake, Held
  <2>6. (TimerCovers => TimerCovers') /\ (NextLook => NextLook')
    BY <2>1, <2>2, <2>3 DEF TimerCovers, Held, NextLook
  <2> QED BY <2>1, <2>4, <2>5, <2>6 DEF Inv, NoLostSuspend, EventCovered
<1>2. ASSUME NEW l \in Locks \ {main_wake_lock, unknown_wakeup}, DestroyLock(l)
      PROVE  Inv'
  <2>1. /\ wl' = wake_lock_destroy(wl, l) /\ (DestroyHeld \/ l \notin wl.active)
        /\ UNCHANGED <<timer, firing, wq, pc, eventSeen, waitForWakeup>>
    BY <1>2 DEF DestroyLock
  <2>2. /\ wl' \in LockStates
        /\ wl'.inited = wl.inited \ {l} /\ wl'.active = wl.active \ {l}
        /\ wl'.autoExpire = wl.autoExpire \ {l}
        /\ wl'.preventing = wl.preventing \ {l}
        /\ \A k \in Locks \ {l} : wl'.left[k] = wl.left[k]
    <3>1. wl' = wake_lock_destroy(wl, l) /\ l \in Locks
      BY <2>1
    <3>2. \A k \in Locks \ {l} : wake_lock_destroy(wl, l).left[k] = wl.left[k]
      BY <1>t, <3>1, InitDestroyEffect
    <3>3. /\ wl' \in LockStates
          /\ wl'.inited = wl.inited \ {l} /\ wl'.active = wl.active \ {l}
          /\ wl'.autoExpire = wl.autoExpire \ {l}
          /\ wl'.preventing = wl.preventing \ {l}
      BY <1>t, <3>1, InitDestroyEffect
    <3> QED BY <3>1, <3>2, <3>3
  <2>3. TypeOK'
    BY <1>t, <2>1, <2>2 DEF TypeOK
  <2>4. ActiveInited' /\ Accounted(wl') /\ UserLocksKeepAwake'
    BY <2>1, <2>2 DEF Inv, ActiveInited, Accounted, UserLocksKeepAwake, Held,
                      ActiveLocks
  <2>5. CASE l \notin wl.active
    <3>1. /\ ActiveLocks(wl', WAKE_LOCK_SUSPEND) = ActiveLocks(wl, WAKE_LOCK_SUSPEND)
          /\ Permanent(wl', WAKE_LOCK_SUSPEND) = Permanent(wl, WAKE_LOCK_SUSPEND)
      BY <2>2, <2>5 DEF ActiveLocks, Permanent
    <3>2. \A k \in ActiveLocks(wl, WAKE_LOCK_SUSPEND) : wl'.left[k] = wl.left[k]
      BY <1>t, <2>2, <2>5 DEF ActiveLocks, LockStates
    <3>3. (TimerCovers => TimerCovers') /\ (NextLook => NextLook')
      BY <2>1, <3>1, <3>2 DEF TimerCovers, Held, NextLook
    <3> QED BY <2>1, <2>3, <2>4, <3>3 DEF Inv, NoLostSuspend, EventCovered
  <2>6. CASE DestroyHeld
    BY <2>3, <2>4, <2>6 DEF Inv
  <2> QED BY <2>1, <2>5, <2>6
<1>3. ASSUME NEW l \in Locks \ {main_wake_lock, unknown_wakeup},
             TakeLock(l) \/ TakeLockTimeout(l) \/ ReleaseLock(l)
      PROVE  Inv'
  <2>1. /\ l \in wl.inited /\ pc' = pc
        /\ pc \in {"late", "irqs_off", "asleep"} => l \in DriverLocks
    BY <1>3 DEF TakeLock, TakeLockTimeout, ReleaseLock, CanRun, UserFrozen,
                DriverLocks
  <2>2. PICK h \in BOOLEAN, t \in 0..MaxTimeout : DoLock(l, h, t) \/ DoUnlock(l)
    <3>1. FALSE \in BOOLEAN /\ TRUE \in BOOLEAN /\ 0 \in 0..MaxTimeout
      BY LockAssumption
    <3>2. CASE TakeLock(l)
      BY <3>1, <3>2 DEF TakeLock
    <3>3. CASE TakeLockTimeout(l)
      BY <3>1, <3>3 DEF TakeLockTimeout
    <3>4. CASE ReleaseLock(l)
      BY <3>1, <3>4 DEF ReleaseLock
    <3> QED BY <1>3, <3>2, <3>3, <3>4
  <2> QED BY <2>1, <2>2, CallInv
<1>4. CASE MainLock
  <2>1. /\ pc' = pc /\ pc \notin {"late", "irqs_off", "asleep"}
        /\ DoLock(main_wake_lock, FALSE, 0) \/ DoUnlock(main_wake_lock)
    BY <1>4 DEF MainLock, UserFrozen
  <2>2. main_wake_lock \in Locks /\ 0 \in 0..MaxTimeout /\ FALSE \in BOOLEAN
    BY LockAssumption
  <2> QED BY <1>m, <2>1, <2>2, CallInv
<1>5. CASE IdleCheck
  <2>1. /\ wl' = Reap(wl, WAKE_LOCK_IDLE)
        /\ UNCHANGED <<timer, firing, wq, pc, eventSeen, waitForWakeup>>
    BY <1>5 DEF IdleCheck
  <2>2. /\ wl' \in LockStates /\ ActiveInited' /\ Accounted(wl')
        /\ Held' \subseteq Held
        /\ Permanent(wl', WAKE_LOCK_SUSPEND) = Permanent(wl, WAKE_LOCK_SUSPEND)
        /\ TimerCovers => TimerCovers'
    BY <1>t, <2>1, ReapStep DEF Inv
  <2>3. TypeOK' /\ UserLocksKeepAwake'
    BY <1>t, <2>1, <2>2 DEF Inv, TypeOK, UserLocksKeepAwake
  <2>4. NextLook => NextLook'
    BY <2>1, <2>2 DEF NextLook
  <2> QED BY <2>1, <2>2, <2>3, <2>4 DEF Inv, NoLostSuspend, EventCovered
<1>6. CASE Tick
  <2>1. /\ wl' = Elapse(wl) /\ timer' = IF timer > 0 THEN timer - 1 ELSE timer
        /\ UNCHANGED <<firing, wq, pc, eventSeen, waitForWakeup>>
    BY <1>6 DEF Tick
  <2>2. /\ wl' \in LockStates
        /\ wl'.inited = wl.inited /\ wl'.active = wl.active
        /\ wl'.autoExpire = wl.autoExpire /\ wl'.preventing = wl.preventing
        /\ \A k \in Locks :
              wl'.left[k] = IF wl.left[k] > 0 THEN wl.left[k] - 1 ELSE 0
    BY <1>t, <2>1, ElapseEffect
  <2>3. /\ timer \in Int /\ timer >= -1 /\ timer <= MaxTimeout
        /\ MaxTimeout \in Nat
    BY <1>t, LockAssumption DEF TypeOK, NoTimer
  <2>4. timer' \in {NoTimer} \cup 0..MaxTimeout
        /\ (timer # NoTimer => timer' # NoTimer)
    BY <2>1, <2>3 DEF NoTimer
  <2>5. TypeOK'
    BY <1>t, <2>1, <2>2, <2>4 DEF TypeOK
  <2>6. /\ ActiveLocks(wl', WAKE_LOCK_SUSPEND) = ActiveLocks(wl, WAKE_LOCK_SUSPEND)
        /\ Permanent(wl', WAKE_LOCK_SUSPEND) = Permanent(wl, WAKE_LOCK_SUSPEND)
    BY <2>2 DEF ActiveLocks, Permanent
  <2>7. ActiveInited' /\ Accounted(wl') /\ UserLocksKeepAwake'
    BY <2>1, <2>2, <2>6 DEF Inv, ActiveInited, Accounted, UserLocksKeepAwake, Held
  <2>8. TimerCovers => TimerCovers'
    <3> SUFFICES ASSUME TimerCovers, Permanent(wl', WAKE_LOCK_SUSPEND) = {},
                        NEW k \in ActiveLocks(wl', WAKE_LOCK_SUSPEND),
                        wl'.left[k] > 0
                 PROVE  timer' >= wl'.left[k]
      BY DEF TimerCovers, Held
    <3>1. k \in Locks /\ wl.left[k] \in 0..MaxTimeout
      BY <1>t, <2>6 DEF ActiveLocks, LockStates
    <3>2. wl.left[k] > 0 /\ wl'.left[k] = wl.left[k] - 1
      BY <2>2, <3>1
    <3>3. timer >= wl.left[k]
      BY <2>6, <3>2 DEF TimerCovers, Held
    <3> QED BY <2>1, <2>3, <3>1, <3>2, <3>3
  <2>9. NextLook => NextLook'
    BY <2>1, <2>4, <2>6 DEF NextLook
  <2> QED BY <2>1, <2>5, <2>7, <2>8, <2>9 DEF Inv, NoLostSuspend, EventCovered
<1>7. CASE TimerDue
  <2>1. /\ timer = 0 /\ timer' = NoTimer /\ firing' = TRUE
        /\ UNCHANGED <<wl, wq, pc, eventSeen, waitForWakeup>>
    BY <1>7 DEF TimerDue
  <2>2. TypeOK' /\ ActiveInited' /\ Accounted(wl') /\ UserLocksKeepAwake'
    BY <1>t, <2>1 DEF Inv, TypeOK, ActiveInited, UserLocksKeepAwake, Held
  <2>3. TimerCovers => TimerCovers'
    <3>1. \A l \in Held : wl.left[l] \in Nat
      BY <1>t, LockAssumption DEF Held, ActiveLocks, LockStates
    <3> QED BY <2>1, <3>1 DEF TimerCovers, Held
  <2>4. NextLook'
    BY <2>1 DEF NextLook
  <2> QED BY <2>2, <2>3, <2>4 DEF Inv, NoLostSuspend, EventCovered
<1>8. CASE expire_wake_locks
  <2> DEFINE n == HasWakeLock(wl, WAKE_LOCK_SUSPEND)
  <2>1. /\ firing' = FALSE /\ wl' = Reap(wl, WAKE_LOCK_SUSPEND)
        /\ wq' = WorkAfter(n, wq)
        /\ UNCHANGED <<timer, pc, eventSeen, waitForWakeup>>
    BY <1>8 DEF expire_wake_locks
  <2>2. n \in {-1} \cup 0..MaxTimeout
    BY <1>t, HasWakeLockAnswer
  <2> HIDE DEF n
  <2>3. wq' \in Seq({suspend_work}) /\ (n = 0 => Queued(wq', suspend_work))
    BY <1>t, <2>1, <2>2, AnswerActedUpon DEF TypeOK
  <2>4. /\ wl' \in LockStates /\ ActiveInited' /\ Accounted(wl')
        /\ Held' \subseteq Held
        /\ Permanent(wl', WAKE_LOCK_SUSPEND) = Permanent(wl, WAKE_LOCK_SUSPEND)
        /\ TimerCovers => TimerCovers'
    BY <1>t, <2>1, ReapStep DEF Inv
  <2>5. TypeOK' /\ UserLocksKeepAwake'
    BY <1>t, <2>1, <2>3, <2>4 DEF Inv, TypeOK, UserLocksKeepAwake
  <2>6. TimerCovers => NextLook'
    BY <1>t, <2>1, <2>3, <2>4, AnswerCovered DEF NextLook, n
  <2> QED BY <2>4, <2>5, <2>6 DEF Inv, NoLostSuspend, EventCovered
<1>9. CASE StartSuspend
  <2>1. /\ pc = "idle" /\ pc' = "suspend" /\ wq # <<>> /\ wq' = Tail(wq)
        /\ UNCHANGED <<wl, timer, firing, eventSeen, waitForWakeup>>
    BY <1>9 DEF StartSuspend
  <2>2. wq' \in Seq({suspend_work})
    BY <1>t, <2>1 DEF TypeOK
  <2>3. TypeOK' /\ ActiveInited' /\ Accounted(wl') /\ UserLocksKeepAwake'
    BY <1>t, <2>1, <2>2 DEF Inv, TypeOK, SuspendPcs, ActiveInited,
                            UserLocksKeepAwake
  <2>4. (TimerCovers => TimerCovers') /\ NoLostSuspend' /\ EventCovered'
    BY <2>1 DEF TimerCovers, Held, NoLostSuspend, EventCovered, SuspendPcs
  <2> QED BY <2>3, <2>4 DEF Inv
<1>10. CASE SuspendEntry
  <2>1. /\ pc = "entry" /\ pc' = "pm_suspend" /\ eventSeen' = FALSE
        /\ UNCHANGED <<wl, timer, firing, wq, waitForWakeup>>
    BY <1>10 DEF SuspendEntry
  <2>2. TypeOK' /\ ActiveInited' /\ Accounted(wl') /\ UserLocksKeepAwake'
    BY <1>t, <2>1 DEF Inv, TypeOK, SuspendPcs, ActiveInited, UserLocksKeepAwake
  <2>3. (TimerCovers => TimerCovers') /\ NoLostSuspend' /\ EventCovered'
    BY <2>1 DEF TimerCovers, Held, NoLostSuspend, EventCovered, SuspendPcs
  <2> QED BY <2>2, <2>3 DEF Inv
<1>11. CASE SuspendCheck
  BY <1>t, <1>11, CheckStep DEF SuspendCheck, SuspendPcs, TypeOK
<1>12. CASE FreezeRetry
  BY <1>t, <1>12, CheckStep DEF FreezeRetry, SuspendPcs, TypeOK
<1>13. CASE power_suspend_late
  BY <1>13, CheckStep DEF power_suspend_late, SuspendPcs
<1>14. CASE PmSuspendStarts \/ PmSuspendFails
  BY <1>14, PcStep DEF PmSuspendStarts, PmSuspendFails, SuspendPcs
<1>15. CASE FreezeDone \/ FreezeTimeout
  BY <1>15, PcStep DEF FreezeDone, FreezeTimeout, SuspendPcs
<1>16. CASE SuspendDevices \/ NoirqFails
  BY <1>16, PcStep DEF SuspendDevices, NoirqFails, SuspendPcs
<1>17. CASE IrqsOff \/ Enter
  BY <1>17, PcStep DEF IrqsOff, Enter, SuspendPcs
<1>18. CASE WakeUp \/ Resume
  BY <1>18, PcStep DEF WakeUp, Resume, SuspendPcs
<1>19. CASE SuspendExit
  BY <1>19, PcStep DEF SuspendExit, SuspendPcs
<1>20. CASE UnknownWakeup
  <2>1. /\ pc = "no_event" /\ pc' = "idle"
        /\ DoLock(unknown_wakeup, TRUE, UnknownTimeout)
    BY <1>20 DEF UnknownWakeup
  <2>2. /\ unknown_wakeup \in Locks /\ UnknownTimeout \in 0..MaxTimeout
        /\ LockType(unknown_wakeup) = WAKE_LOCK_SUSPEND
    BY LockAssumption, SystemAssumption DEF LockType, WAKE_LOCK_SUSPEND
  <2> QED BY <1>m, <2>1, <2>2, CallInv
<1>21. CASE UNCHANGED wlVars
  BY <1>21 DEF wlVars, Inv, TypeOK, ActiveInited, UserLocksKeepAwake, Held,
               TimerCovers, NoLostSuspend, NextLook, EventCovered
<1>22. CASE \E l \in Locks \ {main_wake_lock, unknown_wakeup} : Client(l)
  BY <1>1, <1>2, <1>3, <1>22 DEF Client
<1>23. CASE SuspendStep
  BY <1>10, <1>11, <1>12, <1>13, <1>14, <1>15, <1>16, <1>17, <1>18, <1>19,
     <1>20, <1>23 DEF SuspendStep
<1> QED
  BY <1>4, <1>5, <1>6, <1>7, <1>8, <1>9, <1>18, <1>21, <1>22, <1>23
     DEF Next, Environment, System

(***************************************************************************)
(* Type correctness of the wake-lock system, for any number of locks and   *)
(* any timeouts: in particular has_wake_lock never answers with a time     *)
(* beyond the longest request, so expire_timer never does either.          *)
(***************************************************************************)
THEOREM TypeCorrect ==
    Spec => []TypeOK
<1>1. Inv => TypeOK
  BY DEF Inv
<1> QED BY <1>1, InitInv, InvStep, PTL DEF Spec

(***************************************************************************)
(* No opportunity to suspend is ever lost, as long as no driver destroys a *)
(* lock while it holds it.                                                 *)
(***************************************************************************)
THEOREM SuspendIsNeverLost ==
    ASSUME ~ DestroyHeld
    PROVE  Spec => []NoLostSuspend
<1>1. Inv => NoLostSuspend
  BY DEF Inv
<1> QED BY <1>1, InitInv, InvStep, PTL DEF Spec

(***************************************************************************)
(* The expire timer is never due before the last timed lock runs out,      *)
(* under the same condition.                                               *)
(***************************************************************************)
THEOREM TimerAlwaysCovers ==
    ASSUME ~ DestroyHeld
    PROVE  Spec => []TimerCovers
<1>1. Inv => TimerCovers
  BY DEF Inv
<1> QED BY <1>1, InitInv, InvStep, PTL DEF Spec

\* A lock that user space or the screen holds keeps the phone from sleeping.
THEOREM UserLocksAreRespected ==
    Spec => []UserLocksKeepAwake
<1>1. Inv => UserLocksKeepAwake
  BY DEF Inv
<1> QED BY <1>1, InitInv, InvStep, PTL DEF Spec

\* Sleep time is only charged to locks held while the main lock is not.
THEOREM SleepIsChargedFairly ==
    Spec => []ChargedOnlyWhenHeld
<1>1. Inv => ChargedOnlyWhenHeld
  BY DEF Inv, Accounted, ChargedOnlyWhenHeld, Held
<1> QED BY <1>1, InitInv, InvStep, PTL DEF Spec

-----------------------------------------------------------------------------
(* EarlySuspend *)

\* A list of handlers is without repetition, and in the order of the levels.
Distinct(s) == \A i, j \in DOMAIN s : s[i] = s[j] => i = j
Sorted(s) == \A i, j \in DOMAIN s : i < j => Level[s[i]] <= Level[s[j]]
HandlerList(s) == s \in Seq(Handlers) /\ Distinct(s) /\ Sorted(s)

\* The place where register_early_suspend puts a handler
LEMMA InsertPlace ==
    ASSUME NEW s \in Seq(Handlers), NEW h \in Handlers
    PROVE  \E k \in 1..(Len(s) + 1) :
              /\ Insert(s, h) = IF k = Len(s) + 1 THEN Append(s, h) ELSE InsertAt(s, k, h)
              /\ \A i \in 1..(k - 1) : Level[s[i]] <= Level[h]
              /\ k \in 1..Len(s) => Level[s[k]] > Level[h]
<1> DEFINE I == {i \in 1..Len(s) : Level[s[i]] > Level[h]}
           first == IF I # {} THEN Min(I) ELSE 0
<1>l. \A i \in 1..Len(s) : Level[s[i]] \in Nat /\ Level[h] \in Nat
  BY HandlerAssumption
<1>1. Insert(s, h) = IF first = 0 THEN Append(s, h) ELSE InsertAt(s, first, h)
  BY DEF Insert, SelectInSeq
<1>2. CASE I = {}
  <2>1. Len(s) + 1 \in 1..(Len(s) + 1) /\ Insert(s, h) = Append(s, h)
    BY <1>1, <1>2
  <2>2. \A i \in 1..((Len(s) + 1) - 1) : Level[s[i]] <= Level[h]
    BY <1>2, <1>l
  <2>3. Len(s) + 1 \notin 1..Len(s)
    OBVIOUS
  <2> QED BY <2>1, <2>2, <2>3
<1>3. CASE I # {}
  <2>1. I \subseteq Nat
    OBVIOUS
  <2> DEFINE m == Min(I)
  <2>2. m \in I /\ \A y \in I : m <= y
    BY <1>3, <2>1, NatMin
  <2>3. first = m
    BY <1>3
  <2> HIDE DEF m
  <2>4. m \in 1..Len(s) /\ Level[s[m]] > Level[h]
    BY <2>2
  <2>5. \A i \in 1..(m - 1) : Level[s[i]] <= Level[h]
    BY <1>l, <2>2, <2>4
  <2> HIDE DEF I, first
  <2>6. Insert(s, h) = IF m = Len(s) + 1 THEN Append(s, h) ELSE InsertAt(s, m, h)
    BY <1>1, <2>3, <2>4
  <2>7. m \in 1..(Len(s) + 1)
    BY <2>4
  <2> QED BY <2>4, <2>5, <2>6, <2>7
<1> QED BY <1>2, <1>3

\* Registering a handler keeps the list sorted, whatever its level.
LEMMA InsertEffect ==
    ASSUME NEW s, HandlerList(s), NEW h \in Handlers, h \notin ToSet(s)
    PROVE  /\ HandlerList(Insert(s, h))
           /\ Len(Insert(s, h)) = Len(s) + 1
           /\ ToSet(Insert(s, h)) = ToSet(s) \cup {h}
<1> DEFINE q == Insert(s, h)
<1>s. s \in Seq(Handlers) /\ DOMAIN s = 1..Len(s)
  BY DEF HandlerList
<1>1. PICK k \in 1..(Len(s) + 1) :
         /\ q = IF k = Len(s) + 1 THEN Append(s, h) ELSE InsertAt(s, k, h)
         /\ \A i \in 1..(k - 1) : Level[s[i]] <= Level[h]
         /\ k \in 1..Len(s) => Level[s[k]] > Level[h]
  BY <1>s, InsertPlace
<1> HIDE DEF q
<1>2. /\ q \in Seq(Handlers) /\ Len(q) = Len(s) + 1 /\ DOMAIN q = 1..(Len(s) + 1)
      /\ \A i \in 1..(Len(s) + 1) :
            q[i] = IF i < k THEN s[i] ELSE IF i = k THEN h ELSE s[i - 1]
  <2>1. /\ q \in Seq(Handlers) /\ Len(q) = Len(s) + 1
        /\ \A i \in 1..Len(q) :
              q[i] = IF i < k THEN s[i] ELSE IF i = k THEN h ELSE s[i - 1]
    BY <1>s, <1>1, InsertElements
  <2> QED BY <2>1
<1>3. \A i \in 1..Len(s) : s[i] # h /\ s[i] \in Handlers
  BY <1>s DEF ToSet
<1>4. Distinct(q)
  <2> SUFFICES ASSUME NEW i \in 1..(Len(s) + 1), NEW j \in 1..(Len(s) + 1), q[i] = q[j]
               PROVE  i = j
    BY <1>2 DEF Distinct
  <2>1. \A m, n \in 1..Len(s) : s[m] = s[n] => m = n
    BY <1>s DEF HandlerList, Distinct
  <2> QED BY <1>2, <1>3, <2>1, <1>s
<1>l. /\ \A i \in 1..Len(s) : Level[s[i]] \in Nat
      /\ Level[h] \in Nat
  BY <1>3, HandlerAssumption
<1>5. Sorted(q)
  <2> SUFFICES ASSUME NEW i \in 1..(Len(s) + 1), NEW j \in 1..(Len(s) + 1), i < j
               PROVE  Level[q[i]] <= Level[q[j]]
    BY <1>2 DEF Sorted
  <2>1. \A m, n \in 1..Len(s) : m < n => Level[s[m]] <= Level[s[n]]
    BY <1>s DEF HandlerList, Sorted
  <2>2. \A m \in 1..Len(s) : m >= k => Level[h] <= Level[s[m]]
    BY <1>1, <1>l, <2>1
  <2>3. CASE j < k
    BY <1>2, <2>1, <2>3
  <2>4. CASE j = k
    BY <1>1, <1>2, <2>4
  <2>5. CASE j > k
    <3>1. j - 1 \in 1..Len(s) /\ q[j] = s[j - 1] /\ j - 1 >= k
      BY <1>2, <2>5
    <3>2. CASE i < k
      <4>1. i \in 1..Len(s) /\ q[i] = s[i] /\ i < j - 1
        BY <1>2, <2>5, <3>2
      <4> QED BY <2>1, <3>1, <4>1
    <3>3. CASE i = k
      BY <1>2, <2>2, <3>1, <3>3
    <3>4. CASE i > k
      <4>1. i - 1 \in 1..Len(s) /\ q[i] = s[i - 1] /\ i - 1 < j - 1
        BY <1>2, <2>5, <3>4
      <4> QED BY <2>1, <3>1, <4>1
    <3> QED BY <3>2, <3>3, <3>4
  <2> QED BY <2>3, <2>4, <2>5
<1>6. ToSet(q) = ToSet(s) \cup {h}
  <2>1. \A i \in 1..(Len(s) + 1) : q[i] \in ToSet(s) \cup {h}
    <3> SUFFICES ASSUME NEW i \in 1..(Len(s) + 1), i # k
                 PROVE  q[i] \in ToSet(s)
      BY <1>2
    <3>1. PICK j \in 1..Len(s) : q[i] = s[j]
      <4>1. CASE i < k
        BY <1>2, <4>1
      <4>2. CASE i > k
        <5>1. i - 1 \in 1..Len(s) /\ q[i] = s[i - 1]
          BY <1>2, <4>2
        <5> QED BY <5>1
      <4> QED BY <4>1, <4>2
    <3> QED BY <1>s, <3>1 DEF ToSet
  <2>2. q[k] = h
    BY <1>2
  <2>3. ASSUME NEW i \in 1..Len(s) PROVE \E j \in 1..(Len(s) + 1) : q[j] = s[i]
    <3>1. CASE i < k
      BY <1>2, <3>1
    <3>2. CASE i >= k
      <4>1. i + 1 \in 1..(Len(s) + 1) /\ ~ (i + 1 < k) /\ i + 1 # k /\ (i + 1) - 1 = i
        BY <3>2
      <4> QED BY <1>2, <4>1
    <3> QED BY <3>1, <3>2
  <2>4. DOMAIN q = 1..(Len(s) + 1) /\ k \in 1..(Len(s) + 1)
    BY <1>2
  <2>5. ToSet(q) \subseteq ToSet(s) \cup {h}
    BY <2>1, <2>4 DEF ToSet
  <2>6. h \in ToSet(q)
    BY <2>2, <2>4 DEF ToSet
  <2>7. ToSet(s) \subseteq ToSet(q)
    BY <1>s, <2>3, <2>4 DEF ToSet
  <2> QED BY <2>5, <2>6, <2>7
<1> QED BY <1>2, <1>4, <1>5, <1>6 DEF HandlerList, q

\* Unregistering takes the one occurrence of the handler out of the list.
LEMMA RemoveEffect ==
    ASSUME NEW s, HandlerList(s), NEW h, h \in ToSet(s)
    PROVE  /\ HandlerList(RemoveFirst(s, h))
           /\ ToSet(RemoveFirst(s, h)) = ToSet(s) \ {h}
<1> DEFINE q == RemoveFirst(s, h)
<1>s. s \in Seq(Handlers) /\ DOMAIN s = 1..Len(s)
  BY DEF HandlerList
<1>1. h \in {s[i] : i \in 1..Len(s)}
  BY <1>s DEF ToSet
<1>2. PICK k \in 1..Len(s) : s[k] = h /\ q = RemoveAt(s, k)
  BY <1>s, <1>1, RemoveFirstPlace
<1>3. q = RemoveAt(s, k)
  BY <1>2
<1>4. k \in 1..Len(s) /\ s[k] = h
  BY <1>2
<1> HIDE DEF q
<1>5. /\ q \in Seq(Handlers) /\ Len(q) = Len(s) - 1
      /\ \A i \in 1..Len(q) : q[i] = IF i < k THEN s[i] ELSE s[i + 1]
  BY <1>s, <1>3, <1>4, RemoveElements, ZenonT(60)
<1>d. \A m, n \in 1..Len(s) : s[m] = s[n] => m = n
  BY <1>s DEF HandlerList, Distinct
<1>o. \A m, n \in 1..Len(s) : m < n => Level[s[m]] <= Level[s[n]]
  BY <1>s DEF HandlerList, Sorted
\* The place in s of what is at place i in q
<1> DEFINE Old(i) == IF i < k THEN i ELSE i + 1
<1>6. \A i \in 1..Len(q) : Old(i) \in 1..Len(s) /\ q[i] = s[Old(i)] /\ Old(i) # k
  BY <1>4, <1>5
<1>7. \A i, j \in 1..Len(q) : (Old(i) = Old(j) => i = j) /\ (i < j => Old(i) < Old(j))
  BY <1>4, <1>5
<1>8. DOMAIN q = 1..Len(q)
  BY <1>5
<1> HIDE DEF Old
<1>9. Distinct(q) /\ Sorted(q)
  <2>1. Distinct(q)
    BY <1>6, <1>7, <1>8, <1>d DEF Distinct
  <2>2. Sorted(q)
    BY <1>6, <1>7, <1>8, <1>o DEF Sorted
  <2> QED BY <2>1, <2>2
<1>10. ToSet(q) = ToSet(s) \ {h}
  <2>1. \A i \in 1..Len(q) : q[i] \in ToSet(s) \ {h}
    BY <1>4, <1>6, <1>d, <1>s DEF ToSet
  <2>2. ASSUME NEW m \in 1..Len(s), m # k PROVE \E i \in 1..Len(q) : q[i] = s[m]
    <3>1. CASE m < k
      BY <1>4, <1>5, <3>1
    <3>2. CASE m > k
      <4>1. m - 1 \in 1..Len(q) /\ ~ (m - 1 < k) /\ (m - 1) + 1 = m
        BY <1>4, <1>5, <3>2
      <4> QED BY <1>5, <4>1
    <3> QED BY <1>4, <2>2, <3>1, <3>2
  <2>3. \A x : x \in ToSet(s) \ {h} => \E i \in 1..Len(q) : q[i] = x
    BY <1>4, <1>s, <2>2 DEF ToSet
  <2>4. ToSet(q) = {q[i] : i \in 1..Len(q)}
    BY <1>8 DEF ToSet
  <2>5. \A x : x \in ToSet(q) <=> \E i \in 1..Len(q) : q[i] = x
    BY <2>4
  <2> QED BY <2>1, <2>3, <2>5
<1> QED BY <1>5, <1>9, <1>10 DEF HandlerList, q

-----------------------------------------------------------------------------
(***************************************************************************)
(* The main lock is never a timed one, so that nothing but wake_unlock on  *)
(* it releases it: calls for other locks, and reaping, leave it alone.     *)
(***************************************************************************)
MainKept(v, w) ==
    main_wake_lock \notin w.autoExpire
        /\ (main_wake_lock \in w.active <=> main_wake_lock \in v.active)

\* has_wake_lock
LEMMA ReapKeepsMain ==
    ASSUME NEW w \in LockStates, NEW type, main_wake_lock \notin w.autoExpire
    PROVE  Reap(w, type) \in LockStates /\ MainKept(w, Reap(w, type))
BY ReapEffect DEF MainKept, Expired

\* wake_lock, wake_lock_timeout and wake_unlock on another lock
LEMMA CallKeepsMain ==
    ASSUME NEW w \in LockStates, NEW l \in Locks \ {main_wake_lock},
           NEW h \in BOOLEAN, NEW t \in 0..MaxTimeout, main_wake_lock \notin w.autoExpire
    PROVE  /\ wake_lock_internal(w, l, h, t) \in LockStates
           /\ MainKept(w, wake_lock_internal(w, l, h, t))
           /\ wake_unlock(w, l) \in LockStates
           /\ MainKept(w, wake_unlock(w, l))
<1>1. LET a == Locked(w, l, h, t)
      IN  a \in LockStates /\ MainKept(w, a)
  BY LockedEffect DEF MainKept
<1>2. LET r == Released(w, l)
      IN  r \in LockStates /\ MainKept(w, r)
  BY ReleasedEffect DEF MainKept
<1> DEFINE a == Locked(w, l, h, t)
           r == Released(w, l)
<1>3. wake_lock_internal(w, l, h, t) \in {a, Reap(a, WAKE_LOCK_SUSPEND)}
  BY DEF wake_lock_internal
<1>4. wake_unlock(w, l) \in {r, Reap(r, WAKE_LOCK_SUSPEND)}
  BY DEF wake_unlock
<1> HIDE DEF a, r
<1>5. a \in LockStates /\ MainKept(w, a) /\ r \in LockStates /\ MainKept(w, r)
  BY <1>1, <1>2 DEF a, r
<1>6. /\ Reap(a, WAKE_LOCK_SUSPEND) \in LockStates /\ MainKept(a, Reap(a, WAKE_LOCK_SUSPEND))
      /\ Reap(r, WAKE_LOCK_SUSPEND) \in LockStates /\ MainKept(r, Reap(r, WAKE_LOCK_SUSPEND))
  BY <1>5, ReapKeepsMain DEF MainKept
<1> QED BY <1>3, <1>4, <1>5, <1>6 DEF MainKept

\* Taking and releasing the main lock itself
LEMMA MainCalls ==
    ASSUME NEW w \in LockStates, main_wake_lock \notin w.autoExpire
    PROVE  /\ wake_lock_internal(w, main_wake_lock, FALSE, 0) \in LockStates
           /\ main_wake_lock \in wake_lock_internal(w, main_wake_lock, FALSE, 0).active
           /\ main_wake_lock \notin wake_lock_internal(w, main_wake_lock, FALSE, 0).autoExpire
           /\ wake_unlock(w, main_wake_lock) \in LockStates
           /\ main_wake_lock \notin wake_unlock(w, main_wake_lock).autoExpire
<1>0. main_wake_lock \in Locks /\ 0 \in 0..MaxTimeout
  BY LockAssumption
<1>1. wake_lock_internal(w, main_wake_lock, FALSE, 0) = Locked(w, main_wake_lock, FALSE, 0)
  BY DEF wake_lock_internal
<1>2. LET a == Locked(w, main_wake_lock, FALSE, 0)
      IN  a \in LockStates /\ main_wake_lock \in a.active /\ main_wake_lock \notin a.autoExpire
  <2> DEFINE f == FALSE
             a == Locked(w, main_wake_lock, f, 0)
  <2>1. f \in BOOLEAN /\ ~ f
    OBVIOUS
  <2> HIDE DEF f
  <2>2. a \in LockStates /\ main_wake_lock \in a.active /\ main_wake_lock \notin a.autoExpire
    BY <1>0, <2>1, LockedEffect
  <2> QED BY <2>2 DEF f
<1> DEFINE r == Released(w, main_wake_lock)
           p == Reap(r, WAKE_LOCK_SUSPEND)
<1>3. r \in LockStates /\ main_wake_lock \notin r.autoExpire
  BY <1>0, ReleasedEffect
<1>4. wake_unlock(w, main_wake_lock) = update_sleep_wait_stats(p, FALSE)
  BY MainIsSuspend DEF wake_unlock
<1> HIDE DEF r
<1>5. p \in LockStates /\ main_wake_lock \notin p.autoExpire
  BY <1>3, ReapKeepsMain DEF MainKept
<1> HIDE DEF p
<1>6. /\ update_sleep_wait_stats(p, FALSE) \in LockStates
      /\ update_sleep_wait_stats(p, FALSE).autoExpire = p.autoExpire
  <2>1. FALSE \in BOOLEAN
    OBVIOUS
  <2> QED BY <1>5, <2>1, StatsEffect, Zenon
<1> QED BY <1>1, <1>2, <1>4, <1>5, <1>6

-----------------------------------------------------------------------------
\* The work items: each is on the queue at most once.
Works == {suspend_work, early_suspend_work, late_resume_work}

QueueOK == wq \in Seq(Works) /\ Distinct(wq)

\* The steps of WakeLock that EarlySuspend takes over as they are
WakeLockPart ==
    \/ \E l \in Locks \ {main_wake_lock, unknown_wakeup} : Client(l)
    \/ IdleCheck \/ WakeUp
    \/ Tick \/ TimerDue \/ expire_wake_locks
    \/ StartSuspend \/ SuspendStep

\* What a step may do to the queue
QueueMoves ==
    \/ wq' = wq
    \/ \E x \in Works : wq' = queue_work(wq, x)
    \/ wq # <<>> /\ wq' = Tail(wq)

\* What the steps of EarlySuspend are
LEMMA StepCases ==
    ASSUME ESNext
    PROVE  \/ UserSpace
           \/ WakeLockPart /\ UNCHANGED esVars
           \/ StartEarly(early_suspend_work, "early_suspend")
           \/ StartEarly(late_resume_work, "late_resume")
           \/ early_suspend \/ CallSuspend \/ ReleaseMainLock
           \/ late_resume \/ CallResume
BY DEF ESNext, Others, Time, Worker, RequestedSuspendStep, WakeLockPart

\* A call moves the queue only by queueing the suspend work.
LEMMA CallQueue ==
    ASSUME NEW l, NEW h, NEW t, DoLock(l, h, t) \/ DoUnlock(l)
    PROVE  QueueMoves
<1>1. suspend_work \in Works
  BY DEF Works
<1>2. wq' = wq \/ wq' = queue_work(wq, suspend_work)
  BY DEF DoLock, DoUnlock, WorkAfter
<1> QED BY <1>1, <1>2 DEF QueueMoves

\* Every step moves the queue in one of these ways.
LEMMA QueueSteps ==
    ASSUME ESNext
    PROVE  QueueMoves
<1>w. Works = {suspend_work, early_suspend_work, late_resume_work}
  BY DEF Works
<1>1. CASE UserSpace
  BY <1>1, <1>w DEF UserSpace, register_early_suspend, unregister_early_suspend,
     request_suspend_state, QueueMoves, wlVars
<1>2. CASE WakeLockPart
  <2>1. ASSUME NEW l, Client(l) PROVE QueueMoves
    <3>1. \/ wq' = wq
          \/ \E h, t : DoLock(l, h, t) \/ DoUnlock(l)
      BY <2>1 DEF Client, InitLock, DestroyLock, TakeLock, TakeLockTimeout, ReleaseLock
    <3> QED BY <3>1, CallQueue DEF QueueMoves
  <2>2. CASE IdleCheck \/ WakeUp \/ Tick \/ TimerDue
    BY <2>2 DEF IdleCheck, WakeUp, Step, Tick, TimerDue, QueueMoves
  <2>3. CASE expire_wake_locks
    BY <2>3, <1>w DEF expire_wake_locks, WorkAfter, QueueMoves
  <2>4. CASE StartSuspend
    BY <2>4 DEF StartSuspend, QueueMoves
  <2>5. CASE SuspendStep
    <3>1. CASE UnknownWakeup
      BY <3>1, CallQueue DEF UnknownWakeup
    <3>2. CASE ~ UnknownWakeup
      BY <2>5, <3>2 DEF SuspendStep, SuspendCheck, SuspendEntry, PmSuspendStarts, PmSuspendFails,
         FreezeDone, FreezeRetry, FreezeTimeout, SuspendDevices, NoirqFails, power_suspend_late,
         IrqsOff, Enter, Resume, SuspendExit, Step, CheckLocks, QueueMoves
    <3> QED BY <3>1, <3>2
  <2> QED BY <1>2, <2>1, <2>2, <2>3, <2>4, <2>5 DEF WakeLockPart
<1>3. CASE \/ StartEarly(early_suspend_work, "early_suspend")
           \/ StartEarly(late_resume_work, "late_resume")
  BY <1>3 DEF StartEarly, QueueMoves
<1>4. CASE early_suspend \/ CallSuspend \/ late_resume \/ CallResume
  BY <1>4 DEF early_suspend, CallSuspend, late_resume, CallResume, QueueMoves
<1>5. CASE ReleaseMainLock
  BY <1>5, CallQueue DEF ReleaseMainLock, QueueMoves
<1> QED BY <1>1, <1>2, <1>3, <1>4, <1>5, StepCases

\* So no item is ever on the queue twice.
LEMMA QueueNext ==
    ASSUME QueueOK, [ESNext]_vars
    PROVE  QueueOK'
<1>1. CASE wq' = wq
  BY <1>1 DEF QueueOK, Distinct
<1>2. ASSUME NEW x \in Works, wq' = Append(wq, x), ~ Queued(wq, x)
      PROVE  QueueOK'
  <2>1. wq' \in Seq(Works) /\ Len(wq') = Len(wq) + 1
    BY <1>2 DEF QueueOK
  <2>2. \A i \in 1..Len(wq) : wq[i] # x /\ wq'[i] = wq[i]
    BY <1>2 DEF Queued, QueueOK
  <2>3. wq'[Len(wq) + 1] = x
    BY <1>2 DEF QueueOK
  <2>4. DOMAIN wq = 1..Len(wq) /\ DOMAIN wq' = 1..(Len(wq) + 1) /\ Len(wq) \in Nat
    BY <2>1 DEF QueueOK
  <2>5. Distinct(wq')
    BY <2>2, <2>3, <2>4 DEF QueueOK, Distinct
  <2> QED BY <2>1, <2>5 DEF QueueOK
<1>3. CASE wq # <<>> /\ wq' = Tail(wq)
  <2>1. wq' \in Seq(Works) /\ DOMAIN wq' = 1..(Len(wq) - 1) /\ DOMAIN wq = 1..Len(wq)
    BY <1>3 DEF QueueOK
  <2>2. \A i \in 1..(Len(wq) - 1) : wq'[i] = wq[i + 1]
    BY <1>3 DEF QueueOK
  <2>3. Distinct(wq')
    <3> SUFFICES ASSUME NEW i \in 1..(Len(wq) - 1), NEW j \in 1..(Len(wq) - 1), wq'[i] = wq'[j]
                 PROVE  i = j
      BY <2>1 DEF Distinct
    <3>1. i + 1 \in DOMAIN wq /\ j + 1 \in DOMAIN wq /\ wq[i + 1] = wq[j + 1]
      BY <2>1, <2>2 DEF QueueOK
    <3>2. i + 1 = j + 1
      BY <3>1 DEF QueueOK, Distinct
    <3> QED BY <3>2
  <2> QED BY <2>1, <2>3 DEF QueueOK
<1>4. CASE UNCHANGED vars
  BY <1>1, <1>4 DEF vars, wlVars
<1> QED BY <1>1, <1>2, <1>3, <1>4, QueueSteps DEF QueueMoves, queue_work

\* It then has at most three items.
LEMMA QueueShort == QueueOK => Len(wq) <= 3
<1> SUFFICES ASSUME QueueOK, Len(wq) > 3 PROVE FALSE
  BY DEF QueueOK
<1>1. 1 \in DOMAIN wq /\ 2 \in DOMAIN wq /\ 3 \in DOMAIN wq /\ 4 \in DOMAIN wq
  BY DEF QueueOK
<1>2. {wq[1], wq[2], wq[3], wq[4]} \subseteq Works
  BY <1>1 DEF QueueOK
<1>3. /\ wq[1] # wq[2] /\ wq[1] # wq[3] /\ wq[1] # wq[4]
      /\ wq[2] # wq[3] /\ wq[2] # wq[4] /\ wq[3] # wq[4]
  BY <1>1 DEF QueueOK, Distinct
<1> QED BY <1>2, <1>3 DEF Works

-----------------------------------------------------------------------------
Timers == {NoTimer} \cup 0..MaxTimeout
AllPcs == SuspendPcs \cup EarlyPcs \cup {"idle"}

\* The last steps to the sleep state, and it
Sleepy == {"late", "irqs_off", "asleep"}

\* Who is where: the main lock is permanent, and on the last steps released.
LocksOK ==
    /\ wl \in LockStates /\ timer \in Timers /\ pc \in AllPcs
    /\ main_wake_lock \notin wl.autoExpire
    /\ pc \in Sleepy => main_wake_lock \notin wl.active

\* What every step of WakeLock's part does to the main lock and the worker
PartOK ==
    /\ wl' \in LockStates /\ timer' \in Timers
    /\ MainKept(wl, wl')
    /\ pc' = pc \/ (pc \notin EarlyPcs /\ pc' \in SuspendPcs \cup {"idle"})
    /\ pc' \in Sleepy => pc \in Sleepy \/ main_wake_lock \notin wl.active

\* A call for another lock
LEMMA PartCall ==
    ASSUME LocksOK, NEW l \in Locks \ {main_wake_lock}, NEW h \in BOOLEAN,
           NEW t \in 0..MaxTimeout, DoLock(l, h, t) \/ DoUnlock(l),
           pc' = pc \/ (pc \notin EarlyPcs /\ pc' = "idle")
    PROVE  PartOK
<1>1. wl' \in {wake_lock_internal(wl, l, h, t), wake_unlock(wl, l)}
  BY DEF DoLock, DoUnlock
<1>2. wl' \in LockStates /\ MainKept(wl, wl')
  BY <1>1, CallKeepsMain DEF LocksOK
<1>3. timer' \in Timers
  <2>1. CASE LockType(l) = WAKE_LOCK_SUSPEND
    <3>1. /\ ExpireIn(wl, l, h, t) \in {-1} \cup 0..MaxTimeout
          /\ HasLockAfterUnlock(wl, l) \in {-1} \cup 0..MaxTimeout
      BY <2>1, LockCallEffect, UnlockCallEffect DEF LocksOK
    <3>2. PICK n \in {-1} \cup 0..MaxTimeout : timer' = TimerAfter(n)
      BY <2>1, <3>1 DEF DoLock, DoUnlock
    <3> QED BY <3>2, LockAssumption DEF TimerAfter, Timers, NoTimer
  <2>2. CASE LockType(l) # WAKE_LOCK_SUSPEND
    BY <2>2 DEF DoLock, DoUnlock, LocksOK
  <2> QED BY <2>1, <2>2
<1> QED BY <1>2, <1>3 DEF PartOK, Sleepy

\* has_wake_lock by the worker: no move to "late" while the main lock is held
LEMMA PartCheck ==
    ASSUME LocksOK, NEW p \in SuspendPcs, NEW held \in (SuspendPcs \cup {"idle"}) \ Sleepy,
           NEW free \in SuspendPcs, CheckLocks(p, held, free)
    PROVE  PartOK
<1>1. /\ pc = p /\ wl' = Reap(wl, WAKE_LOCK_SUSPEND) /\ timer' = timer
      /\ pc' = IF HasWakeLock(wl, WAKE_LOCK_SUSPEND) # 0 THEN held ELSE free
  BY DEF CheckLocks
<1>2. wl' \in LockStates /\ MainKept(wl, wl')
  BY <1>1, ReapKeepsMain DEF LocksOK
<1>3. main_wake_lock \in wl.active => HasWakeLock(wl, WAKE_LOCK_SUSPEND) # 0
  <2> SUFFICES ASSUME main_wake_lock \in wl.active
               PROVE  HasWakeLock(wl, WAKE_LOCK_SUSPEND) = -1
    OBVIOUS
  <2>1. main_wake_lock \in Permanent(wl, WAKE_LOCK_SUSPEND)
    BY MainIsSuspend DEF Permanent, ActiveLocks, LocksOK
  <2> QED BY <2>1, HasWakeLockAnswer DEF LocksOK
<1>4. pc \notin EarlyPcs /\ pc' \in SuspendPcs \cup {"idle"}
  BY <1>1 DEF SuspendPcs, EarlyPcs
<1>5. pc' \in Sleepy => main_wake_lock \notin wl.active
  BY <1>1, <1>3
<1> QED BY <1>1, <1>2, <1>4, <1>5 DEF PartOK, LocksOK

\* A move of the worker that does not begin the last steps
LEMMA PartMove ==
    ASSUME LocksOK, NEW p \in SuspendPcs, NEW q \in SuspendPcs \cup {"idle"}, Step(p, q),
           q \in Sleepy => p \in Sleepy
    PROVE  PartOK
<1>1. pc = p /\ pc' = q /\ UNCHANGED <<wl, timer>>
  BY DEF Step
<1>2. pc \notin EarlyPcs
  BY <1>1 DEF SuspendPcs, EarlyPcs
<1> QED BY <1>1, <1>2 DEF PartOK, LocksOK, MainKept

\* All of WakeLock's part
LEMMA PartSteps ==
    ASSUME LocksOK, WakeLockPart
    PROVE  PartOK
<1>z. 0 \in 0..MaxTimeout
  BY LockAssumption
<1>1. ASSUME NEW l \in Locks \ {main_wake_lock, unknown_wakeup}, Client(l)
      PROVE  PartOK
  <2>1. CASE InitLock(l) \/ DestroyLock(l)
    <3>1. wl' \in {wake_lock_init(wl, l), wake_lock_destroy(wl, l)} /\ UNCHANGED <<timer, pc>>
      BY <2>1 DEF InitLock, DestroyLock
    <3>2. wl' \in LockStates /\ MainKept(wl, wl')
      BY <3>1, InitDestroyEffect DEF LocksOK, MainKept
    <3> QED BY <3>1, <3>2 DEF PartOK, LocksOK
  <2>2. CASE TakeLock(l)
    <3> DEFINE f == FALSE
    <3>1. f \in BOOLEAN /\ DoLock(l, f, 0) /\ UNCHANGED pc
      BY <2>2, Zenon DEF TakeLock
    <3> HIDE DEF f
    <3> QED BY <1>z, <3>1, PartCall
  <2>3. CASE TakeLockTimeout(l)
    <3> DEFINE f == TRUE
    <3>1. f \in BOOLEAN /\ UNCHANGED pc /\ \E t \in 0..MaxTimeout : DoLock(l, f, t)
      BY <2>3 DEF TakeLockTimeout
    <3> HIDE DEF f
    <3> QED BY <3>1, PartCall
  <2>4. CASE ReleaseLock(l)
    <3> DEFINE f == TRUE
    <3>1. f \in BOOLEAN /\ UNCHANGED pc /\ DoUnlock(l)
      BY <2>4 DEF ReleaseLock
    <3> HIDE DEF f
    <3> QED BY <1>z, <3>1, PartCall
  <2> QED BY <1>1, <2>1, <2>2, <2>3, <2>4 DEF Client
<1>2. CASE IdleCheck
  BY <1>2, ReapKeepsMain DEF IdleCheck, PartOK, LocksOK
<1>3. CASE Tick
  <2>1. wl' \in LockStates /\ MainKept(wl, wl')
    BY <1>3, ElapseEffect DEF Tick, LocksOK, MainKept
  <2>2. timer' \in Timers
    BY <1>3, LockAssumption DEF Tick, LocksOK, Timers, NoTimer
  <2> QED BY <1>3, <2>1, <2>2 DEF Tick, PartOK
<1>4. CASE TimerDue
  BY <1>4 DEF TimerDue, PartOK, LocksOK, MainKept, Timers
<1>5. CASE expire_wake_locks
  BY <1>5, ReapKeepsMain DEF expire_wake_locks, PartOK, LocksOK
<1>6. CASE StartSuspend
  <2>1. pc = "idle" /\ pc' = "suspend" /\ UNCHANGED <<wl, timer>>
    BY <1>6 DEF StartSuspend
  <2> QED BY <2>1 DEF PartOK, LocksOK, MainKept, EarlyPcs, SuspendPcs, Sleepy
<1>7. CASE UnknownWakeup
  <2> DEFINE f == TRUE
  <2>1. /\ f \in BOOLEAN /\ pc = "no_event" /\ pc' = "idle"
        /\ DoLock(unknown_wakeup, f, UnknownTimeout)
    BY <1>7 DEF UnknownWakeup
  <2> HIDE DEF f
  <2>2. unknown_wakeup \in Locks \ {main_wake_lock} /\ UnknownTimeout \in 0..MaxTimeout
    BY LockAssumption, SystemAssumption
  <2>3. pc \notin EarlyPcs
    BY <2>1 DEF EarlyPcs
  <2> QED BY <2>1, <2>2, <2>3, PartCall
<1>8. CASE SuspendCheck \/ FreezeRetry \/ power_suspend_late
  BY <1>8, PartCheck DEF SuspendCheck, FreezeRetry, power_suspend_late, SuspendPcs, Sleepy
<1>9. CASE SuspendEntry
  BY <1>9 DEF SuspendEntry, PartOK, LocksOK, MainKept, EarlyPcs, SuspendPcs, Sleepy
<1>10. CASE \/ PmSuspendStarts \/ PmSuspendFails \/ FreezeDone \/ FreezeTimeout
            \/ SuspendDevices \/ NoirqFails \/ IrqsOff \/ Enter \/ WakeUp \/ Resume \/ SuspendExit
  BY <1>10, PartMove DEF PmSuspendStarts, PmSuspendFails, FreezeDone, FreezeTimeout,
     SuspendDevices, NoirqFails, IrqsOff, Enter, WakeUp, Resume, SuspendExit, SuspendPcs, Sleepy
<1> QED BY <1>1, <1>2, <1>3, <1>4, <1>5, <1>6, <1>7, <1>8, <1>9, <1>10
    DEF WakeLockPart, SuspendStep

-----------------------------------------------------------------------------
(***************************************************************************)
(* The main lock is only released in the state that the last request and   *)
(* the handlers agree on, and every way out of that state takes it again.  *)
(***************************************************************************)
StateOK ==
    /\ state \in SUBSET SUSPEND_REQUESTED_AND_SUSPENDED
    /\ requested \in {PM_SUSPEND_ON, PM_SUSPEND_MEM}
    /\ SUSPEND_REQUESTED \in state => requested = PM_SUSPEND_MEM
    /\ main_wake_lock \notin wl.active => state = SUSPEND_REQUESTED_AND_SUSPENDED

\* request_suspend_state and early_suspend's last look at the state
LEMMA StateNext ==
    ASSUME LocksOK, StateOK, [ESNext]_vars
    PROVE  LocksOK' /\ StateOK'
<1> USE DEF SUSPEND_REQUESTED_AND_SUSPENDED, SUSPEND_REQUESTED, SUSPENDED, PM_SUSPEND_ON,
            PM_SUSPEND_MEM
<1>m. wl \in LockStates /\ main_wake_lock \notin wl.autoExpire
  BY DEF LocksOK
<1>1. ASSUME NEW h, register_early_suspend(h) \/ unregister_early_suspend(h)
      PROVE  LocksOK' /\ StateOK'
  BY <1>1 DEF register_early_suspend, unregister_early_suspend, LocksOK, StateOK, wlVars
<1>2. ASSUME NEW new \in {PM_SUSPEND_ON, PM_SUSPEND_MEM}, request_suspend_state(new)
      PROVE  LocksOK' /\ StateOK'
  <2>1. pc' = pc /\ pc \notin Sleepy /\ requested' = new
    BY <1>2 DEF request_suspend_state, UserFrozen, Sleepy
  <2>2. CASE /\ SUSPEND_REQUESTED \notin state /\ new # PM_SUSPEND_ON
             /\ state' = state \cup {SUSPEND_REQUESTED} /\ UNCHANGED <<wl, timer>>
    BY <2>1, <2>2 DEF LocksOK, StateOK
  <2>3. CASE /\ SUSPEND_REQUESTED \in state /\ new = PM_SUSPEND_ON
             /\ state' = state \ {SUSPEND_REQUESTED}
             /\ wl' = wake_lock_internal(wl, main_wake_lock, FALSE, 0)
             /\ timer' = NoTimer
    <3>1. /\ wl' \in LockStates /\ main_wake_lock \in wl'.active
          /\ main_wake_lock \notin wl'.autoExpire
      BY <1>m, <2>3, MainCalls
    <3>2. timer' \in Timers
      BY <2>3 DEF Timers
    <3> QED BY <2>1, <2>3, <3>1, <3>2 DEF LocksOK, StateOK
  <2>4. CASE /\ (SUSPEND_REQUESTED \in state) = (new # PM_SUSPEND_ON)
             /\ UNCHANGED <<state, wl, timer>>
    BY <2>1, <2>4 DEF LocksOK, StateOK
  <2> QED BY <1>2, <2>2, <2>3, <2>4 DEF request_suspend_state
<1>3. CASE WakeLockPart /\ UNCHANGED esVars
  <2>1. PartOK
    BY <1>3, PartSteps
  <2>2. pc' \in AllPcs
    BY <2>1 DEF PartOK, LocksOK, AllPcs
  <2> QED BY <1>3, <2>1, <2>2 DEF PartOK, LocksOK, StateOK, MainKept, esVars
<1>4. CASE \/ StartEarly(early_suspend_work, "early_suspend")
           \/ StartEarly(late_resume_work, "late_resume")
  <2>1. pc' \in {"early_suspend", "late_resume"} /\ UNCHANGED <<wl, timer, esVars>>
    BY <1>4 DEF StartEarly
  <2>2. pc' \in AllPcs /\ pc' \notin Sleepy
    BY <2>1 DEF AllPcs, EarlyPcs, Sleepy
  <2> QED BY <2>1, <2>2 DEF LocksOK, StateOK, esVars
<1>5. CASE early_suspend \/ CallSuspend \/ late_resume \/ CallResume
  <2>1. pc' \in {"call_suspend", "early_sync", "call_resume", "idle"} /\ UNCHANGED <<wl, timer>>
    BY <1>5 DEF early_suspend, CallSuspend, late_resume, CallResume
  <2>2. pc' \in AllPcs /\ pc' \notin Sleepy
    BY <2>1 DEF AllPcs, EarlyPcs, Sleepy
  <2>3. /\ requested' = requested
        /\ \/ state' = state
           \/ state = {SUSPEND_REQUESTED} /\ state' = state \cup {SUSPENDED}
           \/ state = {SUSPENDED} /\ state' = {}
    BY <1>5 DEF early_suspend, CallSuspend, late_resume, CallResume
  <2>4. CASE state' = state
    BY <2>1, <2>2, <2>3, <2>4 DEF StateOK, LocksOK
  <2>5. CASE state = {SUSPEND_REQUESTED} /\ state' = state \cup {SUSPENDED}
    <3>1. state' = SUSPEND_REQUESTED_AND_SUSPENDED
      BY <2>5
    <3>2. requested = PM_SUSPEND_MEM
      BY <2>5 DEF StateOK
    <3> QED BY <2>1, <2>2, <2>3, <3>1, <3>2 DEF StateOK, LocksOK
  <2>6. CASE state = {SUSPENDED} /\ state' = {}
    <3>1. main_wake_lock \in wl.active
      <4>1. SUSPEND_REQUESTED \notin state
        BY <2>6
      <4> QED BY <4>1 DEF StateOK
    <3> QED BY <2>1, <2>2, <2>3, <2>6, <3>1 DEF StateOK, LocksOK
  <2> QED BY <2>3, <2>4, <2>5, <2>6
<1>6. CASE ReleaseMainLock
  <2>1. pc' = "idle" /\ UNCHANGED esVars
    BY <1>6 DEF ReleaseMainLock
  <2>2. pc' \in AllPcs /\ pc' \notin Sleepy
    BY <2>1 DEF AllPcs, Sleepy
  <2>3. CASE state = SUSPEND_REQUESTED_AND_SUSPENDED
    <3>1. DoUnlock(main_wake_lock)
      BY <1>6, <2>3 DEF ReleaseMainLock
    <3>2. wl' \in LockStates /\ main_wake_lock \notin wl'.autoExpire
      BY <1>m, <3>1, MainCalls DEF DoUnlock
    <3>3. timer' \in Timers
      <4>1. HasLockAfterUnlock(wl, main_wake_lock) \in {-1} \cup 0..MaxTimeout
        BY <1>m, MainIsSuspend, UnlockCallEffect, LockAssumption
      <4>2. timer' = TimerAfter(HasLockAfterUnlock(wl, main_wake_lock))
        BY <3>1, MainIsSuspend DEF DoUnlock
      <4> QED BY <4>1, <4>2, LockAssumption DEF TimerAfter, Timers, NoTimer
    <3> QED BY <2>1, <2>2, <2>3, <3>2, <3>3 DEF LocksOK, StateOK, esVars
  <2>4. CASE state # SUSPEND_REQUESTED_AND_SUSPENDED
    <3>1. UNCHANGED <<wl, timer>>
      BY <1>6, <2>4 DEF ReleaseMainLock
    <3> QED BY <2>1, <2>2, <3>1 DEF LocksOK, StateOK, esVars
  <2> QED BY <2>3, <2>4
<1>7. CASE UNCHANGED vars
  BY <1>7 DEF vars, wlVars, esVars, LocksOK, StateOK
<1> QED BY <1>1, <1>2, <1>3, <1>4, <1>5, <1>6, <1>7, StepCases DEF UserSpace

(***************************************************************************)
(* The handlers: with the mutex free they match the state; while they are  *)
(* being called the ones already passed match the new state, and the ones  *)
(* still to come the old one.                                              *)
(***************************************************************************)
BothHooks == SuspendHooks \cap ResumeHooks

Settled ==
    MutexFree =>
        /\ next = 1
        /\ SUSPENDED \in state => Registered \cap SuspendHooks \subseteq off
        /\ SUSPENDED \notin state => Registered \cap BothHooks \cap off = {}

GoingDown ==
    pc = "call_suspend" =>
        /\ SUSPENDED \in state /\ next \in 1..(Len(handlers) + 1)
        /\ \A i \in DOMAIN handlers :
              /\ i < next /\ handlers[i] \in SuspendHooks => handlers[i] \in off
              /\ i >= next /\ handlers[i] \in BothHooks => handlers[i] \notin off

ComingUp ==
    pc = "call_resume" =>
        /\ SUSPENDED \notin state /\ next \in 0..Len(handlers)
        /\ \A i \in DOMAIN handlers :
              handlers[i] \in BothHooks => (handlers[i] \in off <=> i <= next)

HandlersOK ==
    /\ HandlerList(handlers) /\ off \subseteq Registered
    /\ Settled /\ GoingDown /\ ComingUp

\* A step that leaves the handlers, the worker's calls and SUSPENDED alone
LEMMA HandlersFrame ==
    ASSUME HandlersOK, UNCHANGED <<handlers, next, off>>,
           SUSPENDED \in state' <=> SUSPENDED \in state,
           pc' = pc \/ {pc, pc'} \cap {"call_suspend", "call_resume"} = {}
    PROVE  HandlersOK'
<1>1. /\ MutexFree' <=> MutexFree
      /\ pc' = "call_suspend" <=> pc = "call_suspend"
      /\ pc' = "call_resume" <=> pc = "call_resume"
  BY DEF MutexFree
<1>2. Registered' = Registered /\ HandlerList(handlers')
  BY DEF Registered, HandlersOK
<1>3. Settled'
  BY <1>1, <1>2 DEF HandlersOK, Settled
<1>4. GoingDown' /\ ComingUp'
  BY <1>1 DEF HandlersOK, GoingDown, ComingUp
<1> QED BY <1>2, <1>3, <1>4 DEF HandlersOK

\* register_early_suspend and unregister_early_suspend
LEMMA HandlersRegister ==
    ASSUME HandlersOK, NEW h \in Handlers,
           register_early_suspend(h) \/ unregister_early_suspend(h)
    PROVE  HandlersOK'
<1>1. /\ MutexFree /\ UNCHANGED <<pc, state, next>>
  BY DEF register_early_suspend, unregister_early_suspend, wlVars
<1>2. MutexFree' /\ pc' # "call_suspend" /\ pc' # "call_resume"
  BY <1>1 DEF MutexFree
<1>3. HandlerList(handlers)
  BY DEF HandlersOK
<1>4. CASE register_early_suspend(h)
  <2>1. /\ h \notin ToSet(handlers) /\ handlers' = Insert(handlers, h)
        /\ off' = IF SUSPENDED \in state /\ h \in SuspendHooks THEN off \cup {h} ELSE off
    BY <1>4 DEF register_early_suspend, Registered
  <2>2. HandlerList(handlers') /\ Registered' = Registered \cup {h}
    BY <1>3, <2>1, InsertEffect DEF Registered
  <2>3. h \notin Registered
    BY <2>1 DEF Registered
  <2>4. off' \subseteq Registered' /\ h \notin off
    BY <2>1, <2>2, <2>3 DEF HandlersOK
  <2>5. Settled'
    <3>1. CASE SUSPENDED \in state
      BY <1>1, <2>1, <2>2, <3>1 DEF HandlersOK, Settled
    <3>2. CASE SUSPENDED \notin state
      BY <1>1, <2>1, <2>2, <2>4, <3>2 DEF HandlersOK, Settled
    <3> QED BY <3>1, <3>2
  <2> QED BY <1>2, <2>2, <2>4, <2>5 DEF HandlersOK, GoingDown, ComingUp
<1>5. CASE unregister_early_suspend(h)
  <2>1. /\ h \in ToSet(handlers) /\ handlers' = RemoveFirst(handlers, h)
        /\ off' = off \ {h}
    BY <1>5 DEF unregister_early_suspend, Registered
  <2>2. HandlerList(handlers') /\ Registered' = Registered \ {h}
    BY <1>3, <2>1, RemoveEffect DEF Registered
  <2>3. off' \subseteq Registered'
    BY <2>1, <2>2 DEF HandlersOK
  <2>4. Settled'
    BY <1>1, <2>1, <2>2 DEF HandlersOK, Settled
  <2> QED BY <1>2, <2>2, <2>3, <2>4 DEF HandlersOK, GoingDown, ComingUp
<1> QED BY <1>4, <1>5

\* early_suspend and late_resume: the calls begin, or there is nothing to do.
LEMMA HandlersStart ==
    ASSUME HandlersOK, StateOK, early_suspend \/ late_resume
    PROVE  HandlersOK'
<1> USE DEF SUSPEND_REQUESTED_AND_SUSPENDED, SUSPEND_REQUESTED, SUSPENDED
<1>1. MutexFree /\ UNCHANGED <<handlers, off>>
  BY DEF early_suspend, late_resume, MutexFree
<1>2. /\ HandlerList(handlers) /\ DOMAIN handlers = 1..Len(handlers) /\ Len(handlers) \in Nat
      /\ off \subseteq Registered /\ \A i \in DOMAIN handlers : handlers[i] \in Registered
  BY DEF HandlersOK, HandlerList, Registered, ToSet
<1>3. HandlerList(handlers') /\ (off \subseteq Registered)'
  BY <1>1, <1>2 DEF Registered
<1>4. CASE early_suspend /\ state = {SUSPEND_REQUESTED}
  <2>1. /\ pc' = "call_suspend" /\ next' = 1 /\ state' = state \cup {SUSPENDED}
    BY <1>4 DEF early_suspend
  <2>2. Registered \cap BothHooks \cap off = {}
    BY <1>1, <1>4 DEF HandlersOK, Settled
  <2>3. GoingDown'
    BY <1>1, <1>2, <2>1, <2>2 DEF GoingDown
  <2> QED BY <1>3, <2>1, <2>3 DEF HandlersOK, Settled, ComingUp, MutexFree
<1>5. CASE late_resume /\ state = {SUSPENDED}
  <2>1. /\ pc' = "call_resume" /\ next' = Len(handlers) /\ state' = {}
    BY <1>5 DEF late_resume
  <2>2. Registered \cap BothHooks \subseteq off
    BY <1>1, <1>5 DEF HandlersOK, Settled, BothHooks
  <2>3. ComingUp'
    BY <1>1, <1>2, <2>1, <2>2 DEF ComingUp
  <2> QED BY <1>3, <2>1, <2>3 DEF HandlersOK, Settled, GoingDown, MutexFree
<1>6. CASE \/ early_suspend /\ state # {SUSPEND_REQUESTED}
           \/ late_resume /\ state # {SUSPENDED}
  <2>1. /\ pc \in {"early_suspend", "late_resume"} /\ pc' \in {"early_sync", "idle"}
        /\ UNCHANGED <<state, next>>
    BY <1>6 DEF early_suspend, late_resume
  <2> QED BY <1>1, <2>1, HandlersFrame
<1> QED BY <1>4, <1>5, <1>6

\* One handler called, or the end of the list reached
LEMMA HandlersCall ==
    ASSUME HandlersOK, CallSuspend \/ CallResume
    PROVE  HandlersOK'
<1>1. UNCHANGED <<handlers, state>> /\ pc \in {"call_suspend", "call_resume"}
  BY DEF CallSuspend, CallResume
<1>2. /\ HandlerList(handlers) /\ DOMAIN handlers = 1..Len(handlers) /\ Len(handlers) \in Nat
      /\ Registered = {handlers[i] : i \in DOMAIN handlers} /\ off \subseteq Registered
  BY DEF HandlersOK, HandlerList, Registered, ToSet
<1>3. \A i, j \in DOMAIN handlers : handlers[i] = handlers[j] => i = j
  BY <1>2 DEF HandlerList, Distinct
<1>4. Registered' = Registered /\ HandlerList(handlers')
  BY <1>1, <1>2 DEF Registered
<1>5. CASE CallSuspend
  <2>0. pc = "call_suspend"
    BY <1>5 DEF CallSuspend
  <2>1. /\ SUSPENDED \in state /\ next \in 1..(Len(handlers) + 1)
        /\ \A i \in DOMAIN handlers :
              /\ i < next /\ handlers[i] \in SuspendHooks => handlers[i] \in off
              /\ i >= next /\ handlers[i] \in BothHooks => handlers[i] \notin off
    BY <2>0 DEF HandlersOK, GoingDown
  <2>2. CASE next \in DOMAIN handlers
    <3>1. /\ pc' = "call_suspend" /\ next' = next + 1
          /\ off' = off \cup ({handlers[next]} \cap SuspendHooks)
      BY <1>5, <2>2 DEF CallSuspend
    <3>2. next' \in 1..(Len(handlers) + 1) /\ off' \subseteq Registered
      BY <1>2, <2>2, <3>1
    <3>3. ASSUME NEW i \in DOMAIN handlers
          PROVE  /\ i < next' /\ handlers[i] \in SuspendHooks => handlers[i] \in off'
                 /\ i >= next' /\ handlers[i] \in BothHooks => handlers[i] \notin off'
      <4>1. CASE i < next
        BY <1>2, <2>1, <3>1, <4>1
      <4>2. CASE i = next
        BY <1>2, <2>1, <3>1, <4>2
      <4>3. CASE i > next
        <5>1. handlers[i] # handlers[next]
          BY <1>2, <1>3, <2>2, <4>3
        <5> QED BY <1>2, <2>1, <3>1, <4>3, <5>1
      <4> QED BY <1>2, <2>1, <4>1, <4>2, <4>3
    <3>4. GoingDown'
      BY <1>1, <2>1, <3>2, <3>3 DEF GoingDown
    <3> QED BY <1>4, <3>1, <3>2, <3>4 DEF HandlersOK, Settled, ComingUp, MutexFree
  <2>3. CASE next \notin DOMAIN handlers
    <3>1. pc' = "early_sync" /\ next' = 1 /\ off' = off
      BY <1>5, <2>3 DEF CallSuspend
    <3>2. \A i \in DOMAIN handlers : i < next
      BY <1>2, <2>1, <2>3
    <3>3. Registered \cap SuspendHooks \subseteq off
      BY <1>2, <2>1, <3>2
    <3> QED BY <1>1, <1>2, <1>4, <2>1, <3>1, <3>3 DEF HandlersOK, Settled, GoingDown, ComingUp
  <2> QED BY <2>2, <2>3
<1>6. CASE CallResume
  <2>0. pc = "call_resume"
    BY <1>6 DEF CallResume
  <2>1. /\ SUSPENDED \notin state /\ next \in 0..Len(handlers)
        /\ \A i \in DOMAIN handlers :
              handlers[i] \in BothHooks => (handlers[i] \in off <=> i <= next)
    BY <2>0 DEF HandlersOK, ComingUp
  <2>2. CASE next \in DOMAIN handlers
    <3>1. /\ pc' = "call_resume" /\ next' = next - 1
          /\ off' = off \ ({handlers[next]} \cap ResumeHooks)
      BY <1>6, <2>2 DEF CallResume
    <3>2. next' \in 0..Len(handlers) /\ off' \subseteq Registered
      BY <1>2, <2>2, <3>1
    <3>3. ASSUME NEW i \in DOMAIN handlers, handlers[i] \in BothHooks
          PROVE  handlers[i] \in off' <=> i <= next'
      <4>0. handlers[i] \in ResumeHooks
        BY <3>3 DEF BothHooks
      <4>1. CASE i = next
        BY <1>2, <2>1, <3>1, <3>3, <4>0, <4>1
      <4>2. CASE i # next
        <5>1. handlers[i] # handlers[next]
          BY <1>3, <2>2, <4>2
        <5>2. handlers[i] \in off' <=> handlers[i] \in off
          BY <3>1, <5>1
        <5>3. i <= next' <=> i <= next
          BY <1>2, <2>1, <3>1, <4>2
        <5> QED BY <2>1, <3>3, <5>2, <5>3
      <4> QED BY <4>1, <4>2
    <3>4. ComingUp'
      BY <1>1, <2>1, <3>2, <3>3 DEF ComingUp
    <3> QED BY <1>4, <3>1, <3>2, <3>4 DEF HandlersOK, Settled, GoingDown, MutexFree
  <2>3. CASE next \notin DOMAIN handlers
    <3>1. pc' = "idle" /\ next' = 1 /\ off' = off
      BY <1>6, <2>3 DEF CallResume
    <3>2. \A i \in DOMAIN handlers : ~ (i <= next)
      BY <1>2, <2>1, <2>3
    <3>3. Registered \cap BothHooks \cap off = {}
      BY <1>2, <2>1, <3>2
    <3> QED BY <1>1, <1>2, <1>4, <2>1, <3>1, <3>3 DEF HandlersOK, Settled, GoingDown, ComingUp
  <2> QED BY <2>2, <2>3
<1> QED BY <1>5, <1>6

\* So every step keeps the handlers in line with the state.
LEMMA HandlersNext ==
    ASSUME LocksOK, StateOK, HandlersOK, [ESNext]_vars
    PROVE  HandlersOK'
<1>1. ASSUME NEW h \in Handlers, register_early_suspend(h) \/ unregister_early_suspend(h)
      PROVE  HandlersOK'
  BY <1>1, HandlersRegister
<1>2. ASSUME NEW new, request_suspend_state(new)
      PROVE  HandlersOK'
  <2>1. UNCHANGED <<pc, handlers, next, off>>
    BY <1>2 DEF request_suspend_state
  <2>2. SUSPENDED \in state' <=> SUSPENDED \in state
    BY <1>2 DEF request_suspend_state, SUSPENDED, SUSPEND_REQUESTED
  <2> QED BY <2>1, <2>2, HandlersFrame
<1>3. CASE WakeLockPart /\ UNCHANGED esVars
  <2>1. PartOK
    BY <1>3, PartSteps
  <2>2. pc' = pc \/ {pc, pc'} \cap {"call_suspend", "call_resume"} = {}
    BY <2>1 DEF PartOK, EarlyPcs, SuspendPcs
  <2> QED BY <1>3, <2>2, HandlersFrame DEF esVars
<1>4. CASE \/ StartEarly(early_suspend_work, "early_suspend")
           \/ StartEarly(late_resume_work, "late_resume")
           \/ ReleaseMainLock
  <2>1. /\ pc \in {"idle", "early_sync"} /\ pc' \in {"early_suspend", "late_resume", "idle"}
        /\ UNCHANGED esVars
    BY <1>4 DEF StartEarly, ReleaseMainLock
  <2> QED BY <2>1, HandlersFrame DEF esVars
<1>5. CASE early_suspend \/ late_resume
  BY <1>5, HandlersStart
<1>6. CASE CallSuspend \/ CallResume
  BY <1>6, HandlersCall
<1>7. CASE UNCHANGED vars
  BY <1>7, HandlersFrame DEF vars, wlVars, esVars
<1> QED BY <1>1, <1>2, <1>3, <1>4, <1>5, <1>6, <1>7, StepCases DEF UserSpace

(***************************************************************************)
(* The inductive invariant of the phone with early suspend                 *)
(***************************************************************************)
ESInv == QueueOK /\ LocksOK /\ StateOK /\ HandlersOK

\* It holds at boot, with no handler and every lock but the main one free.
LEMMA ESInvInit == ESInit => ESInv
<1> SUFFICES ASSUME ESInit PROVE ESInv
  OBVIOUS
<1>1. QueueOK
  BY DEF ESInit, Init, QueueOK, Distinct
<1>2. /\ wl = wakelocks_init /\ timer = NoTimer /\ pc = "idle"
      /\ state = {} /\ requested = PM_SUSPEND_MEM
      /\ handlers = <<>> /\ next = 1 /\ off = {}
  BY DEF ESInit, Init
<1>3. wl \in LockStates /\ main_wake_lock \in wl.active /\ main_wake_lock \notin wl.autoExpire
  BY <1>2, LockAssumption DEF wakelocks_init, LockStates
<1>4. LocksOK
  BY <1>2, <1>3 DEF LocksOK, Timers, AllPcs, Sleepy
<1>5. StateOK
  BY <1>2, <1>3 DEF StateOK
<1>6. HandlersOK
  <2>1. HandlerList(handlers) /\ Registered = {}
    BY <1>2 DEF HandlerList, Distinct, Sorted, Registered, ToSet
  <2> QED BY <1>2, <2>1 DEF HandlersOK, Settled, GoingDown, ComingUp
<1> QED BY <1>1, <1>4, <1>5, <1>6 DEF ESInv

\* And no step breaks it.
LEMMA ESInvNext == ESInv /\ [ESNext]_vars => ESInv'
BY QueueNext, StateNext, HandlersNext DEF ESInv

\* The types, the place in the list of handlers included
LEMMA ESInvTypes == ESInv => ESTypeOK
<1> SUFFICES ASSUME ESInv PROVE ESTypeOK
  OBVIOUS
<1>1. wq \in Seq({suspend_work, early_suspend_work, late_resume_work}) /\ Len(wq) <= 3
  BY QueueShort DEF ESInv, QueueOK, Works
<1>2. handlers \in Seq(Handlers) /\ off \subseteq Registered
  BY DEF ESInv, HandlersOK, HandlerList
<1>3. next \in 0..(Len(handlers) + 1)
  <2>1. Len(handlers) \in Nat
    BY <1>2
  <2>2. CASE pc = "call_suspend"
    BY <2>1, <2>2 DEF ESInv, HandlersOK, GoingDown
  <2>3. CASE pc = "call_resume"
    BY <2>1, <2>3 DEF ESInv, HandlersOK, ComingUp
  <2>4. CASE MutexFree
    BY <2>1, <2>4 DEF ESInv, HandlersOK, Settled
  <2> QED BY <2>2, <2>3, <2>4 DEF MutexFree
<1>4. /\ wl \in LockStates /\ timer \in {NoTimer} \cup 0..MaxTimeout
      /\ pc \in SuspendPcs \cup EarlyPcs \cup {"idle"}
  BY DEF ESInv, LocksOK, Timers, AllPcs
<1>5. /\ state \in SUBSET SUSPEND_REQUESTED_AND_SUSPENDED
      /\ requested \in {PM_SUSPEND_ON, PM_SUSPEND_MEM}
  BY DEF ESInv, StateOK
<1> QED BY <1>1, <1>2, <1>3, <1>4, <1>5 DEF ESTypeOK

\* The order of the levels follows from that of the list.
LEMMA ESInvOrder == ESInv => LevelOrder
<1> SUFFICES ASSUME ESInv, NEW g \in Registered \cap BothHooks, NEW h \in Registered \cap BothHooks,
                    h \in off, Level[g] < Level[h]
             PROVE  g \in off
  BY DEF LevelOrder, BothHooks
<1>1. HandlerList(handlers) /\ Settled /\ GoingDown /\ ComingUp
  BY DEF ESInv, HandlersOK
<1>2. PICK i \in DOMAIN handlers : handlers[i] = g
  BY DEF Registered, ToSet
<1>3. PICK j \in DOMAIN handlers : handlers[j] = h
  BY DEF Registered, ToSet
<1>4. i \in Nat /\ j \in Nat /\ Len(handlers) \in Nat /\ DOMAIN handlers = 1..Len(handlers)
  BY <1>1 DEF HandlerList
<1>5. i < j
  <2>1. Level[g] \in Nat /\ Level[h] \in Nat
    BY <1>1, <1>2, <1>3, HandlerAssumption DEF HandlerList
  <2>2. i # j
    BY <1>2, <1>3, <2>1
  <2>3. ~ (j < i)
    BY <1>1, <1>2, <1>3, <2>1 DEF HandlerList, Sorted
  <2> QED BY <1>4, <2>2, <2>3
<1>6. CASE pc = "call_suspend"
  <2>1. next \in Nat
    BY <1>1, <1>4, <1>6 DEF GoingDown
  <2>2. j < next
    BY <1>1, <1>3, <1>4, <1>6, <2>1 DEF GoingDown
  <2>3. i < next
    BY <1>4, <1>5, <2>1, <2>2
  <2> QED BY <1>1, <1>2, <1>6, <2>3 DEF GoingDown, BothHooks
<1>7. CASE pc = "call_resume"
  <2>1. next \in Nat
    BY <1>1, <1>4, <1>7 DEF ComingUp
  <2>2. j <= next
    BY <1>1, <1>3, <1>7 DEF ComingUp
  <2>3. i <= next
    BY <1>4, <1>5, <2>1, <2>2
  <2> QED BY <1>1, <1>2, <1>7, <2>3 DEF ComingUp
<1>8. CASE MutexFree
  BY <1>1, <1>8 DEF Settled, BothHooks
<1> QED BY <1>6, <1>7, <1>8 DEF MutexFree

\* With the mutex free the handlers match the state.
LEMMA ESInvMatch == ESInv => HandlersMatchState
BY DEF ESInv, HandlersOK, Settled, HandlersMatchState, BothHooks

\* On the last steps to sleep the main lock is released, so both bits are set.
LEMMA ESInvSleep == ESInv => ScreenOffBeforeSleep
<1> SUFFICES ASSUME ESInv, pc \in Sleepy
             PROVE  /\ main_wake_lock \notin wl.active
                    /\ requested = PM_SUSPEND_MEM
                    /\ state = SUSPEND_REQUESTED_AND_SUSPENDED
                    /\ Registered \cap SuspendHooks \subseteq off
  BY DEF ScreenOffBeforeSleep, Sleepy
<1>1. main_wake_lock \notin wl.active
  BY DEF ESInv, LocksOK
<1>2. state = SUSPEND_REQUESTED_AND_SUSPENDED
  BY <1>1 DEF ESInv, StateOK
<1>3. SUSPEND_REQUESTED \in state /\ SUSPENDED \in state
  BY <1>2 DEF SUSPEND_REQUESTED_AND_SUSPENDED
<1>4. requested = PM_SUSPEND_MEM
  BY <1>3 DEF ESInv, StateOK
<1>5. MutexFree
  BY DEF MutexFree, Sleepy
<1>6. Registered \cap SuspendHooks \subseteq off
  BY <1>3, <1>5 DEF ESInv, HandlersOK, Settled
<1> QED BY <1>1, <1>2, <1>4, <1>6

(***************************************************************************)
(* The variables of early suspend and of the wake locks below it keep      *)
(* their types, for any set of handlers: the worker never walks off the    *)
(* list of handlers, and each work item is queued at most once.            *)
(***************************************************************************)
THEOREM EarlySuspendTypeOK == ESSpec => []ESTypeOK
<1>1. ESSpec => []ESInv
  BY ESInvInit, ESInvNext, PTL DEF ESSpec
<1> QED BY <1>1, ESInvTypes, PTL

(***************************************************************************)
(* early_suspend.h's order of the levels holds in every state, whichever   *)
(* handlers are registered and unregistered between the calls.             *)
(***************************************************************************)
THEOREM EarlySuspendOrder == ESSpec => []LevelOrder
<1>1. ESSpec => []ESInv
  BY ESInvInit, ESInvNext, PTL DEF ESSpec
<1> QED BY <1>1, ESInvOrder, PTL

(***************************************************************************)
(* With early_suspend_lock free, a handler has been suspended exactly when *)
(* SUSPENDED is set, one registered with the screen off included.          *)
(***************************************************************************)
THEOREM EarlySuspendMatch == ESSpec => []HandlersMatchState
<1>1. ESSpec => []ESInv
  BY ESInvInit, ESInvNext, PTL DEF ESSpec
<1> QED BY <1>1, ESInvMatch, PTL

(***************************************************************************)
(* The phone only sleeps with the screen off: every handler suspended, the *)
(* main lock released, and no PM_SUSPEND_ON asked for since.               *)
(***************************************************************************)
THEOREM EarlySuspendSleep == ESSpec => []ScreenOffBeforeSleep
<1>1. ESSpec => []ESInv
  BY ESInvInit, ESInvNext, PTL DEF ESSpec
<1> QED BY <1>1, ESInvSleep, PTL

-----------------------------------------------------------------------------
(***************************************************************************)
(* EarlySuspend implements WakeLock.  The operators on the lock state are  *)
(* those of the instance: they mention neither pc nor wq.                  *)
(***************************************************************************)
LEMMA SameQueries ==
    /\ \A l : AsWakeLock!LockType(l) = LockType(l)
    /\ \A w, k : AsWakeLock!HasWakeLock(w, k) = HasWakeLock(w, k)
    /\ \A w, k : AsWakeLock!Reap(w, k) = Reap(w, k)
    /\ \A w, l : AsWakeLock!Expired(w, l) = Expired(w, l)
BY DEF AsWakeLock!LockType, LockType, AsWakeLock!HasWakeLock, HasWakeLock, AsWakeLock!Reap, Reap,
   AsWakeLock!Permanent, Permanent, AsWakeLock!ActiveLocks, ActiveLocks, AsWakeLock!Max, Max,
   AsWakeLock!Expired, Expired, AsWakeLock!expire_wake_lock, expire_wake_lock,
   AsWakeLock!WAKE_LOCK_SUSPEND, WAKE_LOCK_SUSPEND, AsWakeLock!WAKE_LOCK_IDLE, WAKE_LOCK_IDLE

\* The calls
LEMMA SameCalls ==
    /\ \A w, l, h, t : AsWakeLock!Locked(w, l, h, t) = Locked(w, l, h, t)
    /\ \A w, l : AsWakeLock!Released(w, l) = Released(w, l)
    /\ \A w, d : AsWakeLock!update_sleep_wait_stats(w, d) = update_sleep_wait_stats(w, d)
    /\ \A w, l : AsWakeLock!wake_lock_init(w, l) = wake_lock_init(w, l)
    /\ \A w, l : AsWakeLock!wake_lock_destroy(w, l) = wake_lock_destroy(w, l)
    /\ \A w : AsWakeLock!Elapse(w) = Elapse(w)
    /\ AsWakeLock!wakelocks_init = wakelocks_init
    /\ AsWakeLock!WAKE_LOCK_SUSPEND = WAKE_LOCK_SUSPEND
    /\ AsWakeLock!WAKE_LOCK_IDLE = WAKE_LOCK_IDLE
BY DEF AsWakeLock!LockType, LockType, AsWakeLock!ActiveLocks, ActiveLocks,
   AsWakeLock!Expired, Expired, AsWakeLock!expire_wake_lock, expire_wake_lock,
   AsWakeLock!WAKE_LOCK_SUSPEND, WAKE_LOCK_SUSPEND, AsWakeLock!WAKE_LOCK_IDLE, WAKE_LOCK_IDLE,
   AsWakeLock!Locked, Locked, AsWakeLock!Acquire, Acquire, AsWakeLock!Charge, Charge,
   AsWakeLock!update_sleep_wait_stats, update_sleep_wait_stats, AsWakeLock!Released, Released,
   AsWakeLock!wake_lock_init, wake_lock_init, AsWakeLock!wake_lock_destroy, wake_lock_destroy,
   AsWakeLock!Elapse, Elapse, AsWakeLock!wakelocks_init, wakelocks_init

\* What they return
LEMMA SameResults ==
    /\ \A w, l, h, t : AsWakeLock!wake_lock_internal(w, l, h, t) = wake_lock_internal(w, l, h, t)
    /\ \A w, l, h, t : AsWakeLock!ExpireIn(w, l, h, t) = ExpireIn(w, l, h, t)
    /\ \A w, l : AsWakeLock!wake_unlock(w, l) = wake_unlock(w, l)
    /\ \A w, l : AsWakeLock!HasLockAfterUnlock(w, l) = HasLockAfterUnlock(w, l)
    /\ \A n : AsWakeLock!TimerAfter(n) = TimerAfter(n)
BY SameQueries, SameCalls
   DEF AsWakeLock!wake_lock_internal, wake_lock_internal, AsWakeLock!ExpireIn, ExpireIn,
   AsWakeLock!wake_unlock, wake_unlock, AsWakeLock!HasLockAfterUnlock, HasLockAfterUnlock,
   AsWakeLock!TimerAfter, TimerAfter, AsWakeLock!NoTimer, NoTimer

\* WakeLock's queue sees the suspend work, and nothing else.
LEMMA BarQueue ==
    ASSUME QueueOK
    PROVE  /\ wq' = wq => wqBar' = wqBar
           /\ wq' = queue_work(wq, suspend_work) =>
                 wqBar' = AsWakeLock!queue_work(wqBar, AsWakeLock!suspend_work)
           /\ \A x \in Works \ {suspend_work} : wq' = queue_work(wq, x) => wqBar' = wqBar
<1>1. wq' = wq => wqBar' = wqBar
  BY DEF wqBar, Queued
<1>2. \A x \in Works :
         /\ wq' = queue_work(wq, x) =>
               (Queued(wq', suspend_work) <=> Queued(wq, suspend_work) \/ x = suspend_work)
  <2> SUFFICES ASSUME NEW x \in Works, wq' = queue_work(wq, x)
               PROVE  Queued(wq', suspend_work) <=> Queued(wq, suspend_work) \/ x = suspend_work
    OBVIOUS
  <2>1. CASE Queued(wq, x)
    <3>1. wq' = wq
      BY <2>1 DEF queue_work
    <3> QED BY <2>1, <3>1
  <2>2. CASE ~ Queued(wq, x)
    <3>1. wq' = Append(wq, x)
      BY <2>2 DEF queue_work
    <3>2. /\ DOMAIN wq = 1..Len(wq) /\ DOMAIN wq' = 1..(Len(wq) + 1) /\ Len(wq) \in Nat
          /\ wq'[Len(wq) + 1] = x /\ \A i \in 1..Len(wq) : wq'[i] = wq[i]
      BY <3>1 DEF QueueOK
    <3> HIDE DEF Works
    <3> QED BY <3>2 DEF Queued
  <2> QED BY <2>1, <2>2
<1>3. ASSUME wq' = queue_work(wq, suspend_work)
      PROVE  wqBar' = AsWakeLock!queue_work(wqBar, AsWakeLock!suspend_work)
  <2>1. wqBar' = <<suspend_work>>
    BY <1>2, <1>3 DEF wqBar, Works
  <2>2. wqBar \in {<<>>, <<suspend_work>>}
    BY DEF wqBar
  <2>3. CASE wqBar = <<>>
    BY <2>1, <2>3 DEF AsWakeLock!queue_work, AsWakeLock!Queued, AsWakeLock!suspend_work, suspend_work
  <2>4. CASE wqBar = <<suspend_work>>
    <3>1. 1 \in DOMAIN wqBar /\ wqBar[1] = AsWakeLock!suspend_work
      BY <2>4 DEF AsWakeLock!suspend_work, suspend_work
    <3> QED BY <2>1, <2>4, <3>1 DEF AsWakeLock!queue_work, AsWakeLock!Queued
  <2> QED BY <2>2, <2>3, <2>4
<1>4. ASSUME NEW x \in Works \ {suspend_work}, wq' = queue_work(wq, x)
      PROVE  wqBar' = wqBar
  BY <1>2, <1>4 DEF wqBar
<1> QED BY <1>1, <1>3, <1>4

\* The worker takes the first item: the suspend work, or another one.
LEMMA BarTail ==
    ASSUME QueueOK, wq # <<>>, wq' = Tail(wq)
    PROVE  /\ Head(wq) = suspend_work => wqBar = <<suspend_work>> /\ wqBar' = <<>>
           /\ Head(wq) # suspend_work => wqBar' = wqBar
<1>1. /\ DOMAIN wq = 1..Len(wq) /\ Len(wq) \in Nat \ {0} /\ DOMAIN wq' = 1..(Len(wq) - 1)
      /\ Head(wq) = wq[1] /\ \A i \in 1..(Len(wq) - 1) : wq'[i] = wq[i + 1]
  BY DEF QueueOK
<1>2. CASE Head(wq) = suspend_work
  <2>1. Queued(wq, suspend_work)
    BY <1>1, <1>2 DEF Queued
  <2>2. ~ Queued(wq', suspend_work)
    <3> SUFFICES ASSUME NEW i \in 1..(Len(wq) - 1), wq'[i] = suspend_work
                 PROVE  FALSE
      BY <1>1 DEF Queued
    <3>1. 1 \in DOMAIN wq /\ i + 1 \in DOMAIN wq /\ wq[1] = wq[i + 1]
      BY <1>1, <1>2
    <3>2. 1 = i + 1
      BY <3>1 DEF QueueOK, Distinct
    <3> QED BY <3>2
  <2> QED BY <1>2, <2>1, <2>2 DEF wqBar
<1>3. CASE Head(wq) # suspend_work
  <2>1. ASSUME Queued(wq', suspend_work) PROVE Queued(wq, suspend_work)
    BY <1>1, <2>1 DEF Queued
  <2>2. ASSUME Queued(wq, suspend_work) PROVE Queued(wq', suspend_work)
    <3>1. PICK i \in 1..Len(wq) : wq[i] = suspend_work
      BY <1>1, <2>2 DEF Queued
    <3>2. i # 1
      BY <1>1, <1>3, <3>1
    <3>3. i - 1 \in DOMAIN wq' /\ wq'[i - 1] = wq[(i - 1) + 1] /\ (i - 1) + 1 = i
      BY <1>1, <3>2
    <3> QED BY <3>1, <3>3 DEF Queued
  <2> QED BY <1>3, <2>1, <2>2 DEF wqBar
<1> QED BY <1>2, <1>3

\* A check of the locks may queue the suspend work.
LEMMA BarWork ==
    ASSUME QueueOK, NEW n, wq' = WorkAfter(n, wq)
    PROVE  wqBar' = AsWakeLock!WorkAfter(n, wqBar)
<1>1. CASE n = 0
  BY <1>1, BarQueue DEF WorkAfter, AsWakeLock!WorkAfter
<1>2. CASE n # 0
  BY <1>2, BarQueue DEF WorkAfter, AsWakeLock!WorkAfter
<1> QED BY <1>1, <1>2

\* wake_lock, wake_lock_timeout and wake_unlock
LEMMA BarCalls ==
    ASSUME QueueOK, NEW l
    PROVE  /\ \A h, t : DoLock(l, h, t) => AsWakeLock!DoLock(l, h, t)
           /\ DoUnlock(l) => AsWakeLock!DoUnlock(l)
<1>1. ASSUME NEW h, NEW t, DoLock(l, h, t)
      PROVE  AsWakeLock!DoLock(l, h, t)
  <2> DEFINE n == ExpireIn(wl, l, h, t)
  <2>0. AsWakeLock!ExpireIn(wl, l, h, t) = n
    BY SameResults
  <2>1. wl' = AsWakeLock!wake_lock_internal(wl, l, h, t) /\ UNCHANGED firing
    BY <1>1, SameResults DEF DoLock
  <2>2. CASE LockType(l) = WAKE_LOCK_SUSPEND
    <3>1. /\ timer' = TimerAfter(n) /\ wq' = WorkAfter(n, wq)
          /\ waitForWakeup' = FALSE /\ eventSeen' = (eventSeen \/ l = main_wake_lock)
      BY <1>1, <2>2 DEF DoLock
    <3>2. wqBar' = AsWakeLock!WorkAfter(n, wqBar)
      BY <3>1, BarWork
    <3>3. timer' = AsWakeLock!TimerAfter(n)
      BY <3>1, SameResults
    <3>4. AsWakeLock!LockType(l) = AsWakeLock!WAKE_LOCK_SUSPEND
      BY <2>2, SameQueries, SameCalls
    <3> HIDE DEF n
    <3> QED BY <2>0, <2>1, <3>1, <3>2, <3>3, <3>4, Zenon DEF AsWakeLock!DoLock
  <2>3. CASE LockType(l) # WAKE_LOCK_SUSPEND
    <3>1. UNCHANGED <<timer, wq, waitForWakeup, eventSeen>>
      BY <1>1, <2>3 DEF DoLock
    <3>2. wqBar' = wqBar
      BY <3>1, BarQueue
    <3>3. AsWakeLock!LockType(l) # AsWakeLock!WAKE_LOCK_SUSPEND
      BY <2>3, SameQueries, SameCalls
    <3> QED BY <2>1, <3>1, <3>2, <3>3 DEF AsWakeLock!DoLock
  <2> QED BY <2>2, <2>3
<1>2. ASSUME DoUnlock(l)
      PROVE  AsWakeLock!DoUnlock(l)
  <2> DEFINE n == HasLockAfterUnlock(wl, l)
  <2>0. AsWakeLock!HasLockAfterUnlock(wl, l) = n
    BY SameResults
  <2>1. /\ wl' = AsWakeLock!wake_unlock(wl, l)
        /\ UNCHANGED <<firing, eventSeen, waitForWakeup>>
    BY <1>2, SameResults DEF DoUnlock
  <2>2. CASE LockType(l) = WAKE_LOCK_SUSPEND
    <3>1. timer' = TimerAfter(n) /\ wq' = WorkAfter(n, wq)
      BY <1>2, <2>2 DEF DoUnlock
    <3>2. wqBar' = AsWakeLock!WorkAfter(n, wqBar)
      BY <3>1, BarWork
    <3>3. timer' = AsWakeLock!TimerAfter(n)
      BY <3>1, SameResults
    <3>4. AsWakeLock!LockType(l) = AsWakeLock!WAKE_LOCK_SUSPEND
      BY <2>2, SameQueries, SameCalls
    <3> HIDE DEF n
    <3> QED BY <2>0, <2>1, <3>2, <3>3, <3>4 DEF AsWakeLock!DoUnlock
  <2>3. CASE LockType(l) # WAKE_LOCK_SUSPEND
    <3>1. UNCHANGED <<timer, wq>>
      BY <1>2, <2>3 DEF DoUnlock
    <3>2. wqBar' = wqBar
      BY <3>1, BarQueue
    <3>3. AsWakeLock!LockType(l) # AsWakeLock!WAKE_LOCK_SUSPEND
      BY <2>3, SameQueries, SameCalls
    <3> QED BY <2>1, <3>1, <3>2, <3>3 DEF AsWakeLock!DoUnlock
  <2> QED BY <2>2, <2>3
<1> QED BY <1>1, <1>2

\* Who may run is the same in both.
LEMMA BarRun ==
    /\ AsWakeLock!UserFrozen <=> UserFrozen
    /\ AsWakeLock!IrqsOn <=> IrqsOn
    /\ \A l : AsWakeLock!CanRun(l) <=> CanRun(l)
    /\ AsWakeLock!DriverLocks = DriverLocks
<1>1. AsWakeLock!UserFrozen <=> UserFrozen
  BY DEF AsWakeLock!UserFrozen, UserFrozen, pcBar, EarlyPcs
<1>2. AsWakeLock!IrqsOn <=> IrqsOn
  BY DEF AsWakeLock!IrqsOn, IrqsOn, pcBar, EarlyPcs
<1> QED BY <1>1, <1>2 DEF AsWakeLock!CanRun, CanRun, AsWakeLock!DriverLocks, DriverLocks

\* The moves of the worker inside suspend()
LEMMA BarStep ==
    ASSUME QueueOK, NEW p \in SuspendPcs, NEW q \in SuspendPcs \cup {"idle"}
    PROVE  /\ Step(p, q) => AsWakeLock!Step(p, q)
           /\ \A r \in SuspendPcs \cup {"idle"} :
                 CheckLocks(p, q, r) => AsWakeLock!CheckLocks(p, q, r)
<1>1. \A r \in SuspendPcs \cup {"idle"} : r \notin EarlyPcs
  BY DEF SuspendPcs, EarlyPcs
<1>2. Step(p, q) => AsWakeLock!Step(p, q)
  BY <1>1, BarQueue DEF Step, AsWakeLock!Step, pcBar
<1>3. ASSUME NEW r \in SuspendPcs \cup {"idle"}, CheckLocks(p, q, r)
      PROVE  AsWakeLock!CheckLocks(p, q, r)
  <2>1. /\ pc = p /\ pcBar = p
        /\ pc' = IF HasWakeLock(wl, WAKE_LOCK_SUSPEND) # 0 THEN q ELSE r
    BY <1>1, <1>3 DEF CheckLocks, pcBar
  <2>2. pcBar' = IF AsWakeLock!HasWakeLock(wl, AsWakeLock!WAKE_LOCK_SUSPEND) # 0 THEN q ELSE r
    BY <1>1, <2>1, SameQueries, SameCalls DEF pcBar
  <2>3. wl' = AsWakeLock!Reap(wl, AsWakeLock!WAKE_LOCK_SUSPEND) /\ UNCHANGED <<timer, firing, eventSeen>>
    BY <1>3, SameQueries, SameCalls DEF CheckLocks
  <2>4. wqBar' = wqBar
    BY <1>3, BarQueue DEF CheckLocks
  <2> QED BY <2>1, <2>2, <2>3, <2>4 DEF AsWakeLock!CheckLocks
<1> QED BY <1>2, <1>3

\* Each step of WakeLock's part is the step of that name.
LEMMA BarPart ==
    ASSUME QueueOK, WakeLockPart
    PROVE  AsWakeLock!Next
<1>1. ASSUME NEW l \in Locks \ {main_wake_lock, unknown_wakeup}, Client(l)
      PROVE  AsWakeLock!Client(l)
  <2>0. wq' = wq /\ pc' = pc => wqBar' = wqBar /\ pcBar' = pcBar
    BY BarQueue DEF pcBar
  <2>1. CASE InitLock(l)
    BY <2>0, <2>1, BarRun, SameCalls DEF InitLock, AsWakeLock!InitLock, AsWakeLock!Client
  <2>2. CASE DestroyLock(l)
    BY <2>0, <2>2, BarRun, SameCalls DEF DestroyLock, AsWakeLock!DestroyLock, AsWakeLock!Client
  <2>3. CASE TakeLock(l)
    <3>1. CanRun(l) /\ l \in wl.inited /\ DoLock(l, FALSE, 0) /\ pcBar' = pcBar
      BY <2>3 DEF TakeLock, pcBar
    <3>2. AsWakeLock!DoLock(l, FALSE, 0)
      BY <3>1, BarCalls, Zenon
    <3> QED BY <3>1, <3>2, BarRun DEF AsWakeLock!TakeLock, AsWakeLock!Client
  <2>4. CASE TakeLockTimeout(l)
    <3>1. PICK t \in 0..MaxTimeout : DoLock(l, TRUE, t)
      BY <2>4 DEF TakeLockTimeout
    <3>2. CanRun(l) /\ l \in wl.inited /\ pcBar' = pcBar
      BY <2>4 DEF TakeLockTimeout, pcBar
    <3>3. AsWakeLock!DoLock(l, TRUE, t)
      BY <3>1, BarCalls, Zenon
    <3> QED BY <3>2, <3>3, BarRun DEF AsWakeLock!TakeLockTimeout, AsWakeLock!Client
  <2>5. CASE ReleaseLock(l)
    <3>1. CanRun(l) /\ l \in wl.inited /\ DoUnlock(l) /\ pcBar' = pcBar
      BY <2>5 DEF ReleaseLock, pcBar
    <3> QED BY <3>1, BarCalls, BarRun DEF AsWakeLock!ReleaseLock, AsWakeLock!Client
  <2> QED BY <1>1, <2>1, <2>2, <2>3, <2>4, <2>5 DEF Client
<1>2. CASE IdleCheck
  <2>1. AsWakeLock!IdleCheck
    BY <1>2, BarRun, BarQueue, SameQueries, SameCalls DEF IdleCheck, AsWakeLock!IdleCheck, pcBar
  <2> QED BY <2>1 DEF AsWakeLock!Next, AsWakeLock!Environment
<1>3. CASE Tick
  <2>1. AsWakeLock!Tick
    BY <1>3, BarRun, BarQueue, SameCalls DEF Tick, AsWakeLock!Tick, pcBar
  <2> QED BY <2>1 DEF AsWakeLock!Next, AsWakeLock!System
<1>4. CASE TimerDue
  <2>1. AsWakeLock!TimerDue
    BY <1>4, BarRun, BarQueue DEF TimerDue, AsWakeLock!TimerDue, pcBar, AsWakeLock!NoTimer, NoTimer
  <2> QED BY <2>1 DEF AsWakeLock!Next, AsWakeLock!System
<1>5. CASE expire_wake_locks
  <2>1. wqBar' = AsWakeLock!WorkAfter(HasWakeLock(wl, WAKE_LOCK_SUSPEND), wqBar)
    BY <1>5, BarWork DEF expire_wake_locks
  <2>2. AsWakeLock!expire_wake_locks
    BY <1>5, <2>1, BarRun, SameQueries, SameCalls
       DEF expire_wake_locks, AsWakeLock!expire_wake_locks, pcBar
  <2> QED BY <2>2 DEF AsWakeLock!Next, AsWakeLock!System
<1>6. CASE StartSuspend
  <2>1. /\ pc = "idle" /\ pc' = "suspend" /\ wq # <<>> /\ Head(wq) = suspend_work /\ wq' = Tail(wq)
        /\ UNCHANGED <<wl, timer, firing, eventSeen, waitForWakeup>>
    BY <1>6 DEF StartSuspend
  <2>2. wqBar = <<suspend_work>> /\ wqBar' = <<>>
    BY <2>1, BarTail
  <2>3. pcBar = "idle" /\ pcBar' = "suspend"
    BY <2>1 DEF pcBar, EarlyPcs
  <2>4. wqBar # <<>> /\ Head(wqBar) = AsWakeLock!suspend_work /\ wqBar' = Tail(wqBar)
    BY <2>2 DEF AsWakeLock!suspend_work, suspend_work
  <2>5. AsWakeLock!StartSuspend
    BY <2>1, <2>3, <2>4 DEF AsWakeLock!StartSuspend
  <2> QED BY <2>5 DEF AsWakeLock!Next, AsWakeLock!System
<1>7. CASE UnknownWakeup
  <2>1. pc = "no_event" /\ pc' = "idle" /\ DoLock(unknown_wakeup, TRUE, UnknownTimeout)
    BY <1>7 DEF UnknownWakeup
  <2>2. pcBar = "no_event" /\ pcBar' = "idle"
    BY <2>1 DEF pcBar, EarlyPcs
  <2>3. AsWakeLock!DoLock(unknown_wakeup, TRUE, UnknownTimeout)
    BY <2>1, BarCalls, Zenon
  <2>4. AsWakeLock!UnknownWakeup
    BY <2>2, <2>3 DEF AsWakeLock!UnknownWakeup
  <2> QED BY <2>4 DEF AsWakeLock!Next, AsWakeLock!System, AsWakeLock!SuspendStep
<1>8. CASE SuspendCheck \/ FreezeRetry \/ power_suspend_late
  <2>1. AsWakeLock!SuspendCheck \/ AsWakeLock!FreezeRetry \/ AsWakeLock!power_suspend_late
    BY <1>8, BarStep DEF SuspendCheck, FreezeRetry, power_suspend_late, AsWakeLock!SuspendCheck,
       AsWakeLock!FreezeRetry, AsWakeLock!power_suspend_late, SuspendPcs
  <2> QED BY <2>1 DEF AsWakeLock!Next, AsWakeLock!System, AsWakeLock!SuspendStep
<1>9. CASE SuspendEntry
  <2>1. AsWakeLock!SuspendEntry
    BY <1>9, BarQueue DEF SuspendEntry, AsWakeLock!SuspendEntry, pcBar, EarlyPcs
  <2> QED BY <2>1 DEF AsWakeLock!Next, AsWakeLock!System, AsWakeLock!SuspendStep
<1>10. CASE WakeUp
  <2>1. AsWakeLock!WakeUp
    BY <1>10, BarStep DEF WakeUp, AsWakeLock!WakeUp, SuspendPcs
  <2> QED BY <2>1 DEF AsWakeLock!Next, AsWakeLock!Environment
<1>11. CASE PmSuspendStarts \/ PmSuspendFails \/ FreezeDone \/ FreezeTimeout
  <2>1. \/ AsWakeLock!PmSuspendStarts \/ AsWakeLock!PmSuspendFails
        \/ AsWakeLock!FreezeDone \/ AsWakeLock!FreezeTimeout
    BY <1>11, BarStep DEF PmSuspendStarts, PmSuspendFails, FreezeDone, FreezeTimeout, SuspendPcs,
       AsWakeLock!PmSuspendStarts, AsWakeLock!PmSuspendFails, AsWakeLock!FreezeDone,
       AsWakeLock!FreezeTimeout
  <2> QED BY <2>1 DEF AsWakeLock!Next, AsWakeLock!System, AsWakeLock!SuspendStep
<1>12. CASE SuspendDevices \/ NoirqFails \/ IrqsOff \/ Enter \/ Resume \/ SuspendExit
  <2>1. \/ AsWakeLock!SuspendDevices \/ AsWakeLock!NoirqFails \/ AsWakeLock!IrqsOff
        \/ AsWakeLock!Enter \/ AsWakeLock!Resume \/ AsWakeLock!SuspendExit
    BY <1>12, BarStep DEF SuspendDevices, NoirqFails, IrqsOff, Enter, Resume, SuspendExit, SuspendPcs,
       AsWakeLock!SuspendDevices, AsWakeLock!NoirqFails, AsWakeLock!IrqsOff, AsWakeLock!Enter,
       AsWakeLock!Resume, AsWakeLock!SuspendExit
  <2> QED BY <2>1 DEF AsWakeLock!Next, AsWakeLock!System, AsWakeLock!SuspendStep
<1>13. CASE \E l \in Locks \ {main_wake_lock, unknown_wakeup} : Client(l)
  BY <1>1, <1>13 DEF AsWakeLock!Next, AsWakeLock!Environment
<1> QED BY <1>2, <1>3, <1>4, <1>5, <1>6, <1>7, <1>8, <1>9, <1>10, <1>11, <1>12, <1>13
    DEF WakeLockPart, SuspendStep

\* Early suspend itself takes and releases the main lock, or WakeLock stutters.
LEMMA BarNext ==
    ASSUME QueueOK, LocksOK, [ESNext]_vars
    PROVE  AsWakeLock!Next \/ UNCHANGED AsWakeLock!wlVars
<1> USE DEF AsWakeLock!wlVars
<1>1. ASSUME NEW h, register_early_suspend(h) \/ unregister_early_suspend(h)
      PROVE  UNCHANGED AsWakeLock!wlVars
  <2>1. UNCHANGED wlVars
    BY <1>1 DEF register_early_suspend, unregister_early_suspend
  <2> QED BY <2>1, BarQueue DEF wlVars, pcBar
<1>2. ASSUME NEW new \in {PM_SUSPEND_ON, PM_SUSPEND_MEM}, request_suspend_state(new)
      PROVE  AsWakeLock!Next \/ UNCHANGED AsWakeLock!wlVars
  <2>0. pcBar' = pcBar
    BY <1>2 DEF request_suspend_state, pcBar
  <2>1. CASE SUSPEND_REQUESTED \in state /\ new = PM_SUSPEND_ON
    <3>1. /\ wl' = wake_lock_internal(wl, main_wake_lock, FALSE, 0)
          /\ timer' = NoTimer /\ wq' = queue_work(wq, late_resume_work)
          /\ waitForWakeup' = FALSE /\ eventSeen' = TRUE /\ UNCHANGED firing
      BY <1>2, <2>1 DEF request_suspend_state, PM_SUSPEND_ON
    <3>2. wqBar' = wqBar
      BY <3>1, BarQueue DEF Works, suspend_work, late_resume_work
    <3>3. AsWakeLock!ExpireIn(wl, main_wake_lock, FALSE, 0) = -1
      BY DEF AsWakeLock!ExpireIn
    <3>4. timer' = AsWakeLock!TimerAfter(-1) /\ wqBar' = AsWakeLock!WorkAfter(-1, wqBar)
      BY <3>1, <3>2 DEF AsWakeLock!TimerAfter, AsWakeLock!WorkAfter, AsWakeLock!NoTimer, NoTimer
    <3>5. eventSeen' = (eventSeen \/ main_wake_lock = main_wake_lock)
      BY <3>1
    <3>6. wl' = AsWakeLock!wake_lock_internal(wl, main_wake_lock, FALSE, 0)
      BY <3>1, SameResults, Zenon
    <3>7. AsWakeLock!LockType(main_wake_lock) = AsWakeLock!WAKE_LOCK_SUSPEND
      BY MainIsSuspend, SameQueries, SameCalls
    <3>8. AsWakeLock!DoLock(main_wake_lock, FALSE, 0)
      BY <3>1, <3>3, <3>4, <3>5, <3>6, <3>7, Zenon DEF AsWakeLock!DoLock
    <3>9. ~ AsWakeLock!UserFrozen
      BY <1>2, BarRun DEF request_suspend_state
    <3> QED BY <2>0, <3>8, <3>9 DEF AsWakeLock!Next, AsWakeLock!Environment, AsWakeLock!MainLock
  <2>2. CASE ~ (SUSPEND_REQUESTED \in state /\ new = PM_SUSPEND_ON)
    <3>1. /\ UNCHANGED <<wl, timer, firing, eventSeen, waitForWakeup>>
          /\ wq' = wq \/ wq' = queue_work(wq, early_suspend_work)
      BY <1>2, <2>2 DEF request_suspend_state
    <3>2. wqBar' = wqBar
      BY <3>1, BarQueue DEF Works, suspend_work, early_suspend_work
    <3> QED BY <2>0, <3>1, <3>2
  <2> QED BY <2>1, <2>2
<1>3. CASE WakeLockPart
  BY <1>3, BarPart
<1>4. CASE \/ StartEarly(early_suspend_work, "early_suspend")
           \/ StartEarly(late_resume_work, "late_resume")
  <2>1. /\ pc = "idle" /\ pc' \in {"early_suspend", "late_resume"} /\ wq # <<>> /\ wq' = Tail(wq)
        /\ Head(wq) \in {early_suspend_work, late_resume_work}
        /\ UNCHANGED <<wl, timer, firing, eventSeen, waitForWakeup>>
    BY <1>4 DEF StartEarly
  <2>2. wqBar' = wqBar
    BY <2>1, BarTail DEF suspend_work, early_suspend_work, late_resume_work
  <2>3. pcBar' = pcBar
    BY <2>1 DEF pcBar, EarlyPcs
  <2> QED BY <2>1, <2>2, <2>3
<1>5. CASE early_suspend \/ CallSuspend \/ late_resume \/ CallResume
  <2>1. /\ pc \in EarlyPcs /\ pc' \in EarlyPcs \cup {"idle"}
        /\ UNCHANGED <<wl, timer, firing, wq, eventSeen, waitForWakeup>>
    BY <1>5 DEF early_suspend, CallSuspend, late_resume, CallResume, EarlyPcs
  <2>2. pcBar' = pcBar
    BY <2>1 DEF pcBar
  <2> QED BY <2>1, <2>2, BarQueue
<1>6. CASE ReleaseMainLock
  <2>1. pcBar = "idle" /\ pcBar' = "idle"
    BY <1>6 DEF ReleaseMainLock, pcBar, EarlyPcs
  <2>2. CASE state = SUSPEND_REQUESTED_AND_SUSPENDED
    <3>1. AsWakeLock!DoUnlock(main_wake_lock)
      BY <1>6, <2>2, BarCalls DEF ReleaseMainLock
    <3>2. ~ AsWakeLock!UserFrozen
      BY <2>1 DEF AsWakeLock!UserFrozen
    <3> QED BY <2>1, <3>1, <3>2 DEF AsWakeLock!Next, AsWakeLock!Environment, AsWakeLock!MainLock
  <2>3. CASE state # SUSPEND_REQUESTED_AND_SUSPENDED
    BY <1>6, <2>1, <2>3, BarQueue DEF ReleaseMainLock
  <2> QED BY <2>2, <2>3
<1>7. CASE UNCHANGED vars
  BY <1>7, BarQueue DEF vars, wlVars, pcBar
<1> QED BY <1>1, <1>2, <1>3, <1>4, <1>5, <1>6, <1>7, StepCases DEF UserSpace

(***************************************************************************)
(* The phone with early suspend implements WakeLock: seen without the      *)
(* other work items and without the worker's steps in early_suspend and    *)
(* late_resume, every behaviour is one that WakeLock allows.  So what is   *)
(* proved of WakeLock holds with early suspend on top.                     *)
(***************************************************************************)
THEOREM EarlySuspendImplements == ESSpec => ImplementsWakeLock
<1>1. ESInit => AsWakeLock!Init
  <2> SUFFICES ASSUME ESInit PROVE AsWakeLock!Init
    OBVIOUS
  <2>1. wqBar = <<>> /\ pcBar = "idle"
    BY DEF ESInit, Init, wqBar, Queued, pcBar, EarlyPcs
  <2> QED BY <2>1, SameCalls DEF ESInit, Init, AsWakeLock!Init, AsWakeLock!NoTimer, NoTimer
<1>2. ESSpec => []ESInv
  BY ESInvInit, ESInvNext, PTL DEF ESSpec
<1>3. ESInv /\ [ESNext]_vars => [AsWakeLock!Next]_(AsWakeLock!wlVars)
  BY BarNext DEF ESInv
<1> QED BY <1>1, <1>2, <1>3, PTL DEF ESSpec, ImplementsWakeLock, AsWakeLock!Spec
=============================================================================
