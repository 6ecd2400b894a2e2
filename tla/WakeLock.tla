------------------------------ MODULE WakeLock ------------------------------
(***************************************************************************)
(* kernel/power/wakelock.c as a system: drivers and user space that take   *)
(* and release wake locks, the expire timer, the single-threaded work      *)
(* queue "suspend" and the suspend work, with the path through             *)
(* kernel/power/suspend.c and kernel/power/process.c that the work drives. *)
(*                                                                         *)
(* Who may run when: user space runs until the freezer has stopped it;     *)
(* timers, kernel threads that are not freezable and the interrupt         *)
(* handlers not masked by then run until arch_suspend_disable_irqs.        *)
(***************************************************************************)
EXTENDS WakeLockOps, Sequences

CONSTANTS
    UserLocks,        \* locks of user space (/sys/power/wake_lock)
    UnknownTimeout,   \* HZ / 2
    DestroyHeld       \* may a driver destroy a lock that it still holds?

ASSUME SystemAssumption ==
    /\ UserLocks \subseteq Locks \ {main_wake_lock, unknown_wakeup}
    /\ UnknownTimeout \in 1..MaxTimeout
    /\ DestroyHeld \in BOOLEAN

VARIABLES
    wl,          \* the lock state (WakeLockOps)
    timer,       \* expire_timer: jiffies until it is due, or NoTimer
    firing,      \* expire_wake_locks has been started, list_lock not yet taken
    wq,          \* work items pending on suspend_work_queue, in order
    pc,          \* where the worker thread of the queue is
    eventSeen,   \* current_event_num # entry_event_num
    waitForWakeup   \* wait_for_wakeup

wlVars == <<wl, timer, firing, wq, pc, eventSeen, waitForWakeup>>

NoTimer == -1
suspend_work == "suspend_work"

\* Worker positions inside suspend() and, from "freeze_user" to "resume",
\* inside pm_suspend().
SuspendPcs == {"suspend", "entry", "pm_suspend", "freeze_user",
               "freeze_tasks", "devices", "noirq", "late", "irqs_off",
               "asleep", "resume", "exit_suspend", "no_event"}

UserFrozen == pc \in {"freeze_tasks", "devices", "noirq", "late",
                      "irqs_off", "asleep", "resume"}
IrqsOn     == pc \notin {"irqs_off", "asleep"}

Held == ActiveLocks(wl, WAKE_LOCK_SUSPEND)

\* Mutant of queue_work: the pending bit is not tested
QueueWorkAlways(q, work) == Append(q, work)

\* queue_work: an item that is already pending is not queued again
Queued(q, work) == \E i \in DOMAIN q : q[i] = work
queue_work(q, work) == IF Queued(q, work) THEN q ELSE Append(q, work)

-----------------------------------------------------------------------------
(* wake_lock_internal, wake_unlock and their callers' view of the timer and *)
(* of the work queue.                                                       *)

\* Mutant of TimerAfter: armed one jiffy late
TimerAfterLate(n) == IF n > 0 THEN n + 1 ELSE NoTimer

\* mod_timer / del_timer / queue_work on the result n of has_wake_lock_locked
TimerAfter(n) == IF n > 0 THEN n ELSE NoTimer
WorkAfter(n, q) == IF n = 0 THEN queue_work(q, suspend_work) ELSE q

DoLock(l, hasTimeout, timeout) ==
    LET n == ExpireIn(wl, l, hasTimeout, timeout)
    IN  /\ wl' = wake_lock_internal(wl, l, hasTimeout, timeout)
        /\ IF LockType(l) = WAKE_LOCK_SUSPEND
           THEN /\ timer' = TimerAfter(n)
                /\ wq' = WorkAfter(n, wq)
                /\ waitForWakeup' = FALSE
                /\ eventSeen' = (eventSeen \/ l = main_wake_lock)
           ELSE UNCHANGED <<timer, wq, waitForWakeup, eventSeen>>
        /\ UNCHANGED firing

DoUnlock(l) ==
    LET n == HasLockAfterUnlock(wl, l)
    IN  /\ wl' = wake_unlock(wl, l)
        /\ IF LockType(l) = WAKE_LOCK_SUSPEND
           THEN /\ timer' = TimerAfter(n)
                /\ wq' = WorkAfter(n, wq)
           ELSE UNCHANGED <<timer, wq>>
        /\ UNCHANGED <<firing, eventSeen, waitForWakeup>>

\* Locks of drivers: taken from interrupts, timers and kernel threads.
DriverLocks == Locks \ (UserLocks \cup {main_wake_lock, unknown_wakeup})

\* The context that owns lock l can run now.
CanRun(l) == IrqsOn /\ (l \in UserLocks => ~ UserFrozen)

InitLock(l) ==
    /\ CanRun(l) /\ l \notin wl.inited
    /\ wl' = wake_lock_init(wl, l)
    /\ UNCHANGED <<timer, firing, wq, pc, eventSeen, waitForWakeup>>

DestroyLock(l) ==
    /\ CanRun(l) /\ l \in DriverLocks \cap wl.inited
    /\ DestroyHeld \/ l \notin wl.active
    /\ wl' = wake_lock_destroy(wl, l)
    /\ UNCHANGED <<timer, firing, wq, pc, eventSeen, waitForWakeup>>

TakeLock(l) ==
    /\ CanRun(l) /\ l \in wl.inited
    /\ DoLock(l, FALSE, 0)
    /\ UNCHANGED pc

TakeLockTimeout(l) ==
    /\ CanRun(l) /\ l \in wl.inited
    /\ \E t \in 0..MaxTimeout : DoLock(l, TRUE, t)
    /\ UNCHANGED pc

ReleaseLock(l) ==
    /\ CanRun(l) /\ l \in wl.inited
    /\ DoUnlock(l)
    /\ UNCHANGED pc

Client(l) ==
    \/ InitLock(l)
    \/ DestroyLock(l)
    \/ TakeLock(l)
    \/ TakeLockTimeout(l)
    \/ ReleaseLock(l)

-----------------------------------------------------------------------------
(* Time and the expire timer. *)

Tick ==
    /\ IrqsOn
    /\ wl' = Elapse(wl)
    /\ timer' = IF timer > 0 THEN timer - 1 ELSE timer
    /\ UNCHANGED <<firing, wq, pc, eventSeen, waitForWakeup>>

\* The timer softirq takes the due timer off the wheel and calls its handler;
\* until the handler has list_lock, del_timer and mod_timer do not affect it.
TimerDue ==
    /\ IrqsOn /\ timer = 0 /\ ~ firing
    /\ timer' = NoTimer
    /\ firing' = TRUE
    /\ UNCHANGED <<wl, wq, pc, eventSeen, waitForWakeup>>

\* Mutant of expire_wake_locks: polls again instead of queueing the work
ExpireAgain ==
    /\ IrqsOn /\ firing
    /\ firing' = FALSE
    /\ wl' = Reap(wl, WAKE_LOCK_SUSPEND)
    /\ timer' = IF timer = NoTimer THEN 1 ELSE timer
    /\ UNCHANGED <<wq, pc, eventSeen, waitForWakeup>>

expire_wake_locks ==
    /\ IrqsOn /\ firing
    /\ firing' = FALSE
    /\ wl' = Reap(wl, WAKE_LOCK_SUSPEND)
    /\ wq' = WorkAfter(HasWakeLock(wl, WAKE_LOCK_SUSPEND), wq)
    /\ UNCHANGED <<timer, pc, eventSeen, waitForWakeup>>

-----------------------------------------------------------------------------
(* The suspend work.  Step(p, q) moves the worker and nothing else. *)

Step(p, q) ==
    /\ pc = p
    /\ pc' = q
    /\ UNCHANGED <<wl, timer, firing, wq, eventSeen, waitForWakeup>>

StartSuspend ==
    /\ pc = "idle" /\ wq # <<>> /\ Head(wq) = suspend_work
    /\ wq' = Tail(wq)
    /\ pc' = "suspend"
    /\ UNCHANGED <<wl, timer, firing, eventSeen, waitForWakeup>>

\* has_wake_lock(WAKE_LOCK_SUSPEND) and a move that depends on its result
CheckLocks(from, ifHeld, ifFree) ==
    /\ pc = from
    /\ wl' = Reap(wl, WAKE_LOCK_SUSPEND)
    /\ pc' = IF HasWakeLock(wl, WAKE_LOCK_SUSPEND) # 0 THEN ifHeld ELSE ifFree
    /\ UNCHANGED <<timer, firing, wq, eventSeen>>

SuspendCheck ==
    CheckLocks("suspend", "idle", "entry") /\ UNCHANGED waitForWakeup

\* entry_event_num = current_event_num
SuspendEntry ==
    /\ pc = "entry"
    /\ eventSeen' = FALSE
    /\ pc' = "pm_suspend"
    /\ UNCHANGED <<wl, timer, firing, wq, waitForWakeup>>

\* pm_suspend, enter_state and the start of suspend_prepare
PmSuspendStarts == Step("pm_suspend", "freeze_user")

\* -EINVAL for the state PM_SUSPEND_ON (EarlySuspend models who asks for it),
\* pm_mutex busy, a notifier or usermodehelper_disable that refuses
PmSuspendFails == Step("pm_suspend", "exit_suspend")

\* try_to_freeze_tasks: while some task is left it asks has_wake_lock, and
\* gives up on a held lock or after 20 seconds; suspend_prepare then thaws.
FreezeDone ==
    \/ Step("freeze_user", "freeze_tasks")
    \/ Step("freeze_tasks", "devices")

FreezeRetry ==
    \/ CheckLocks("freeze_user", "exit_suspend", "freeze_user")
          /\ UNCHANGED waitForWakeup
    \/ CheckLocks("freeze_tasks", "exit_suspend", "freeze_tasks")
          /\ UNCHANGED waitForWakeup

FreezeTimeout ==
    \/ Step("freeze_user", "exit_suspend")
    \/ Step("freeze_tasks", "exit_suspend")

\* dpm_suspend_start, which may fail
SuspendDevices == Step("devices", "noirq") \/ Step("devices", "resume")

\* dpm_suspend_noirq: another device may refuse before "power" is asked
NoirqFails == Step("noirq", "resume")

\* Mutant of power_suspend_late: the locks are not looked at again
LateWithoutCheck ==
    /\ pc = "noirq" /\ pc' = "late" /\ waitForWakeup' = TRUE
    /\ UNCHANGED <<wl, timer, firing, wq, eventSeen>>

power_suspend_late ==
    CheckLocks("noirq", "resume", "late") /\ waitForWakeup' = TRUE

\* prepare_late, then arch_suspend_disable_irqs
IrqsOff == Step("late", "irqs_off") \/ Step("late", "resume")

\* sysdev_suspend may fail and pm_wakeup_pending may hold; else ops->enter
Enter == Step("irqs_off", "asleep") \/ Step("irqs_off", "resume")

WakeUp == Step("asleep", "resume")

\* devices resumed, tasks thawed, pm_suspend returns
Resume == Step("resume", "exit_suspend")

\* Mutant of SuspendExit: no unknown_wakeup lock when there was no event
ExitWithoutEvent == Step("exit_suspend", "idle")

SuspendExit ==
    \/ eventSeen /\ Step("exit_suspend", "idle")
    \/ ~ eventSeen /\ Step("exit_suspend", "no_event")

\* wake_lock_timeout(&unknown_wakeup, HZ / 2)
UnknownWakeup ==
    /\ pc = "no_event"
    /\ DoLock(unknown_wakeup, TRUE, UnknownTimeout)
    /\ pc' = "idle"

SuspendStep ==
    \/ SuspendCheck \/ SuspendEntry \/ PmSuspendStarts \/ PmSuspendFails
    \/ FreezeDone \/ FreezeRetry \/ FreezeTimeout
    \/ SuspendDevices \/ NoirqFails \/ power_suspend_late
    \/ IrqsOff \/ Enter \/ Resume
    \/ SuspendExit \/ UnknownWakeup

-----------------------------------------------------------------------------
Init ==
    /\ wl = wakelocks_init
    /\ timer = NoTimer
    /\ firing = FALSE
    /\ wq = <<>>
    /\ pc = "idle"
    /\ eventSeen = FALSE
    /\ waitForWakeup = FALSE

\* The main lock is user space's here; EarlySuspend models who moves it.
MainLock ==
    /\ ~ UserFrozen
    /\ DoLock(main_wake_lock, FALSE, 0) \/ DoUnlock(main_wake_lock)
    /\ UNCHANGED pc

\* arch_idle asks has_wake_lock(WAKE_LOCK_IDLE) before a deep idle mode
IdleCheck ==
    /\ IrqsOn
    /\ wl' = Reap(wl, WAKE_LOCK_IDLE)
    /\ UNCHANGED <<timer, firing, wq, pc, eventSeen, waitForWakeup>>

Environment ==
    \/ \E l \in Locks \ {main_wake_lock, unknown_wakeup} : Client(l)
    \/ MainLock
    \/ IdleCheck
    \/ WakeUp

System ==
    \/ Tick \/ TimerDue \/ expire_wake_locks
    \/ StartSuspend \/ SuspendStep

Next == Environment \/ System

Spec == Init /\ [][Next]_wlVars

\* The timer interrupt, the timer softirq and the worker thread keep running,
\* and each freezer loop ends: after 20 seconds at the latest.
Fairness ==
    /\ WF_wlVars(Tick)
    /\ WF_wlVars(TimerDue)
    /\ WF_wlVars(expire_wake_locks)
    /\ WF_wlVars(StartSuspend)
    /\ WF_wlVars(SuspendStep)
    /\ WF_wlVars(FreezeDone \/ FreezeTimeout)

FairSpec == Spec /\ Fairness

-----------------------------------------------------------------------------
TypeOK ==
    /\ wl \in LockStates
    /\ timer \in {NoTimer} \cup 0..MaxTimeout
    /\ firing \in BOOLEAN
    /\ wq \in Seq({suspend_work})
    /\ pc \in SuspendPcs \cup {"idle"}
    /\ eventSeen \in BOOLEAN
    /\ waitForWakeup \in BOOLEAN

\* Something other than the running suspend work will look at the locks again.
NextLook ==
    \/ Permanent(wl, WAKE_LOCK_SUSPEND) # {}
    \/ timer # NoTimer
    \/ firing
    \/ Queued(wq, suspend_work)

(***************************************************************************)
(* No opportunity to suspend is lost: whenever no lock without a timeout   *)
(* is held, the expire timer is armed or its handler is on its way, or the *)
(* suspend work is queued or running.  wake_lock_internal, wake_unlock,    *)
(* expire_wake_locks and the tail of suspend() each hand this on.          *)
(***************************************************************************)
NoLostSuspend == NextLook \/ pc \in SuspendPcs

(***************************************************************************)
(* Sleep accounting (/proc/wakelocks, column sleep_time): a lock is only   *)
(* charged for preventing suspend while it is held and the screen is off,  *)
(* whatever the order in which it and the main lock were taken, released   *)
(* or ran out.                                                             *)
(***************************************************************************)
ChargedOnlyWhenHeld ==
    wl.preventing \subseteq
        (IF main_wake_lock \in wl.active THEN {} ELSE Held)

(***************************************************************************)
(* The promise of include/linux/wakelock.h: a wake lock that is active     *)
(* (and not out of time) keeps the system from entering suspend.           *)
(***************************************************************************)
SleepRespectsLocks ==
    pc = "asleep" => \A l \in Held : Expired(wl, l)

(***************************************************************************)
(* What does hold of that promise: a lock that user space holds, the main  *)
(* lock included, keeps the phone out of the sleep state.  It may be taken *)
(* at any moment until the freezer has stopped its owner; the freezer need *)
(* not notice, but power_suspend_late then does.                           *)
(***************************************************************************)
UserLocksKeepAwake ==
    pc \in {"late", "irqs_off", "asleep"} =>
        Held \subseteq DriverLocks

(***************************************************************************)
(* While only locks with a timeout are held, the expire timer is pending   *)
(* and not due before the last of them runs out: expiry is never handled   *)
(* too early, so expire_wake_locks need not re-arm the timer.              *)
(***************************************************************************)
TimerCovers ==
    Permanent(wl, WAKE_LOCK_SUSPEND) = {} =>
        \A l \in Held : wl.left[l] > 0 => timer >= wl.left[l]

(***************************************************************************)
(* When the clients have gone quiet and hold nothing without a timeout,    *)
(* suspend is attempted again and again: no sequence of timeouts, aborts   *)
(* and wake-ups leaves the phone awake for good.                           *)
(***************************************************************************)
KeepsTrying ==
    (<>[][System \/ WakeUp]_wlVars /\ <>[](Permanent(wl, WAKE_LOCK_SUSPEND) = {}))
        => []<>(pc = "pm_suspend" \/ pc = "asleep")
=============================================================================
