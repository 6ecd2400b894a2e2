---------------------------- MODULE EarlySuspend ----------------------------
(***************************************************************************)
(* kernel/power/earlysuspend.c on top of wakelock.c: user space asks for a *)
(* sleep state through /sys/power/state; early_suspend and late_resume run *)
(* as work items on the same single-threaded queue as suspend, call the    *)
(* registered handlers in the order of their levels, and move the main     *)
(* wake lock.                                                              *)
(***************************************************************************)
EXTENDS WakeLock, SequencesExt

CONSTANTS
    Handlers,       \* the struct early_suspend objects
    Level,          \* handler -> level
    SuspendHooks,   \* handlers whose suspend pointer is set
    ResumeHooks     \* handlers whose resume pointer is set

ASSUME HandlerAssumption ==
    /\ Level \in [Handlers -> Nat]
    /\ SuspendHooks \subseteq Handlers
    /\ ResumeHooks \subseteq Handlers

VARIABLES
    state,       \* the bits SUSPEND_REQUESTED and SUSPENDED
    requested,   \* requested_suspend_state
    handlers,    \* early_suspend_handlers
    next,        \* the place in the list the worker has reached
    off          \* handlers whose suspend hook was the last one called

esVars == <<state, requested, handlers, next, off>>
vars == <<wlVars, esVars>>

PM_SUSPEND_ON  == "on"
PM_SUSPEND_MEM == "mem"
SUSPEND_REQUESTED == "SUSPEND_REQUESTED"
SUSPENDED == "SUSPENDED"
SUSPEND_REQUESTED_AND_SUSPENDED == {SUSPEND_REQUESTED, SUSPENDED}

early_suspend_work == "early_suspend_work"
late_resume_work   == "late_resume_work"

EarlyPcs == {"early_suspend", "call_suspend", "early_sync",
             "late_resume", "call_resume"}

\* early_suspend_lock is only held for long by the worker that calls handlers;
\* register and unregister are single steps that need it free.
MutexFree == pc \notin {"call_suspend", "call_resume"}

Registered == ToSet(handlers)

-----------------------------------------------------------------------------
\* Mutant of Insert: the levels are ignored
InsertLast(list, h) == Append(list, h)

\* A new handler goes before the first one with a higher level.
Insert(list, h) ==
    LET first == SelectInSeq(list, LAMBDA e : Level[e] > Level[h])
    IN  IF first = 0 THEN Append(list, h) ELSE InsertAt(list, first, h)

\* Mutant of register_early_suspend: no call when the screen is off already
RegisterSilently(h) ==
    /\ IrqsOn /\ MutexFree
    /\ h \notin Registered
    /\ handlers' = Insert(handlers, h)
    /\ UNCHANGED <<wlVars, state, requested, next, off>>

register_early_suspend(h) ==
    /\ IrqsOn /\ MutexFree
    /\ h \notin Registered
    /\ handlers' = Insert(handlers, h)
    /\ off' = IF SUSPENDED \in state /\ h \in SuspendHooks THEN off \cup {h} ELSE off
    /\ UNCHANGED <<wlVars, state, requested, next>>

\* What becomes of the device afterwards is the driver's business.
unregister_early_suspend(h) ==
    /\ IrqsOn /\ MutexFree
    /\ h \in Registered
    /\ handlers' = RemoveFirst(handlers, h)
    /\ off' = off \ {h}
    /\ UNCHANGED <<wlVars, state, requested, next>>

\* state_store in kernel/power/main.c passes "on" and "mem" to this function.
\* All of it is under state_lock.
request_suspend_state(new) ==
    /\ ~ UserFrozen
    /\ requested' = new
    /\ \/ /\ SUSPEND_REQUESTED \notin state /\ new # PM_SUSPEND_ON
          /\ state' = state \cup {SUSPEND_REQUESTED}
          /\ wq' = queue_work(wq, early_suspend_work)
          /\ UNCHANGED <<wl, timer, firing, eventSeen, waitForWakeup>>
       \/ /\ SUSPEND_REQUESTED \in state /\ new = PM_SUSPEND_ON
          /\ state' = state \ {SUSPEND_REQUESTED}
          /\ wl' = wake_lock_internal(wl, main_wake_lock, FALSE, 0)
          /\ timer' = NoTimer
          /\ wq' = queue_work(wq, late_resume_work)
          /\ waitForWakeup' = FALSE
          /\ eventSeen' = TRUE
          /\ UNCHANGED firing
       \/ /\ (SUSPEND_REQUESTED \in state) = (new # PM_SUSPEND_ON)
          /\ UNCHANGED <<state, wl, timer, firing, wq, eventSeen, waitForWakeup>>
    /\ UNCHANGED <<pc, handlers, next, off>>

-----------------------------------------------------------------------------
(* The worker thread. *)

StartEarly(work, entry) ==
    /\ pc = "idle" /\ wq # <<>> /\ Head(wq) = work
    /\ wq' = Tail(wq)
    /\ pc' = entry
    /\ UNCHANGED <<wl, timer, firing, eventSeen, waitForWakeup, esVars>>

\* The worker has early_suspend_lock and looks at state under state_lock.
early_suspend ==
    /\ pc = "early_suspend"
    /\ \/ /\ state = {SUSPEND_REQUESTED}
          /\ state' = state \cup {SUSPENDED}
          /\ pc' = "call_suspend" /\ next' = 1
       \/ /\ state # {SUSPEND_REQUESTED}
          /\ pc' = "early_sync"
          /\ UNCHANGED <<state, next>>
    /\ UNCHANGED <<wl, timer, firing, wq, eventSeen, waitForWakeup,
                   requested, handlers, off>>

CallSuspend ==
    /\ pc = "call_suspend"
    /\ \/ /\ next \in DOMAIN handlers
          /\ off' = off \cup ({handlers[next]} \cap SuspendHooks)
          /\ next' = next + 1
          /\ UNCHANGED pc
       \/ /\ next \notin DOMAIN handlers
          /\ pc' = "early_sync" /\ next' = 1
          /\ UNCHANGED off
    /\ UNCHANGED <<wl, timer, firing, wq, eventSeen, waitForWakeup,
                   state, requested, handlers>>

\* Mutants of ReleaseMainLock: state not looked at again; the lock kept; the
\* flag cleared without the rest of wake_unlock
ReleaseAlways ==
    /\ pc = "early_sync" /\ pc' = "idle"
    /\ DoUnlock(main_wake_lock)
    /\ UNCHANGED esVars

ReleaseNever ==
    /\ pc = "early_sync" /\ pc' = "idle"
    /\ UNCHANGED <<wl, timer, firing, wq, eventSeen, waitForWakeup, esVars>>

ReleaseQuietly ==
    /\ pc = "early_sync" /\ pc' = "idle"
    /\ wl' = IF state = SUSPEND_REQUESTED_AND_SUSPENDED
             THEN wake_unlock(wl, main_wake_lock) ELSE wl
    /\ UNCHANGED <<timer, firing, wq, eventSeen, waitForWakeup, esVars>>

\* After sys_sync, under state_lock
ReleaseMainLock ==
    /\ pc = "early_sync" /\ pc' = "idle"
    /\ IF state = SUSPEND_REQUESTED_AND_SUSPENDED
       THEN DoUnlock(main_wake_lock)
       ELSE UNCHANGED <<wl, timer, firing, wq, eventSeen, waitForWakeup>>
    /\ UNCHANGED esVars

\* Mutant of late_resume: always aborts
LateResumeAborts ==
    /\ pc = "late_resume" /\ pc' = "idle"
    /\ UNCHANGED <<wl, timer, firing, wq, eventSeen, waitForWakeup, esVars>>

late_resume ==
    /\ pc = "late_resume"
    /\ \/ /\ state = {SUSPENDED}
          /\ state' = {}
          /\ pc' = "call_resume" /\ next' = Len(handlers)
       \/ /\ state # {SUSPENDED}
          /\ pc' = "idle"
          /\ UNCHANGED <<state, next>>
    /\ UNCHANGED <<wl, timer, firing, wq, eventSeen, waitForWakeup,
                   requested, handlers, off>>

CallResume ==
    /\ pc = "call_resume"
    /\ \/ /\ next \in DOMAIN handlers
          /\ off' = off \ ({handlers[next]} \cap ResumeHooks)
          /\ next' = next - 1
          /\ UNCHANGED pc
       \/ /\ next \notin DOMAIN handlers
          /\ pc' = "idle" /\ next' = 1
          /\ UNCHANGED off
    /\ UNCHANGED <<wl, timer, firing, wq, eventSeen, waitForWakeup,
                   state, requested, handlers>>

\* suspend() passes requested_suspend_state to pm_suspend as it is then
RequestedSuspendStep ==
    /\ SuspendStep
    /\ pc = "pm_suspend" /\ pc' = "freeze_user" => requested # PM_SUSPEND_ON
    /\ UNCHANGED esVars

Worker ==
    \/ StartSuspend /\ UNCHANGED esVars
    \/ StartEarly(early_suspend_work, "early_suspend")
    \/ StartEarly(late_resume_work, "late_resume")
    \/ early_suspend \/ CallSuspend \/ ReleaseMainLock
    \/ late_resume \/ CallResume
    \/ RequestedSuspendStep

-----------------------------------------------------------------------------
ESInit ==
    /\ Init
    /\ state = {} /\ requested = PM_SUSPEND_MEM   \* as initialised
    /\ handlers = <<>> /\ next = 1 /\ off = {}

UserSpace ==
    \/ \E h \in Handlers : register_early_suspend(h) \/ unregister_early_suspend(h)
    \/ \E new \in {PM_SUSPEND_ON, PM_SUSPEND_MEM} : request_suspend_state(new)

Others ==
    /\ \/ \E l \in Locks \ {main_wake_lock, unknown_wakeup} : Client(l)
       \/ IdleCheck
       \/ WakeUp
    /\ UNCHANGED esVars

Time == (Tick \/ TimerDue \/ expire_wake_locks) /\ UNCHANGED esVars

ESNext == UserSpace \/ Others \/ Time \/ Worker

ESSpec == ESInit /\ [][ESNext]_vars

\* As in WakeLock; the freezer loop ends after 20 seconds at the latest.
ESFairness ==
    /\ WF_vars(Tick /\ UNCHANGED esVars)
    /\ WF_vars(TimerDue /\ UNCHANGED esVars)
    /\ WF_vars(expire_wake_locks /\ UNCHANGED esVars)
    /\ WF_vars(Worker)
    /\ WF_vars((FreezeDone \/ FreezeTimeout) /\ UNCHANGED esVars)

ESFairSpec == ESSpec /\ ESFairness

-----------------------------------------------------------------------------
ESTypeOK ==
    /\ wl \in LockStates
    /\ timer \in {NoTimer} \cup 0..MaxTimeout
    /\ wq \in Seq({suspend_work, early_suspend_work, late_resume_work})
    /\ Len(wq) <= 3
    /\ pc \in SuspendPcs \cup EarlyPcs \cup {"idle"}
    /\ state \in SUBSET SUSPEND_REQUESTED_AND_SUSPENDED
    /\ requested \in {PM_SUSPEND_ON, PM_SUSPEND_MEM}
    /\ handlers \in Seq(Handlers)
    /\ next \in 0..(Len(handlers) + 1)
    /\ off \subseteq Registered

(***************************************************************************)
(* early_suspend.h: "Suspend handlers are called in low to high level      *)
(* order, resume handlers are called in the opposite order."  So at every  *)
(* moment, registrations in between included, a handler that is off has    *)
(* every registered handler of a lower level off as well.                  *)
(***************************************************************************)
LevelOrder ==
    \A g, h \in Registered \cap SuspendHooks \cap ResumeHooks :
        h \in off /\ Level[g] < Level[h] => g \in off

(***************************************************************************)
(* No handler is skipped, whenever it was registered: with the mutex free, *)
(* a registered handler has been suspended exactly when SUSPENDED is set.  *)
(***************************************************************************)
HandlersMatchState ==
    MutexFree =>
        \A h \in Registered \cap SuspendHooks \cap ResumeHooks :
            h \in off <=> SUSPENDED \in state

(***************************************************************************)
(* The phone only sleeps with the screen off: in the sleep state and on    *)
(* the last steps to it the main lock is released, nobody has asked for    *)
(* PM_SUSPEND_ON since, and every registered handler has been suspended.   *)
(***************************************************************************)
ScreenOffBeforeSleep ==
    pc \in {"late", "irqs_off", "asleep"} =>
        /\ main_wake_lock \notin wl.active
        /\ requested = PM_SUSPEND_MEM
        /\ state = SUSPEND_REQUESTED_AND_SUSPENDED
        /\ Registered \cap SuspendHooks \subseteq off

(***************************************************************************)
(* A user who turns the phone on and leaves it on sees every handler       *)
(* resumed, whatever the worker was doing and without a hardware wake-up.  *)
(***************************************************************************)
ScreenComesOn ==
    <>[](requested = PM_SUSPEND_ON) =>
        <>[](Registered \cap SuspendHooks \cap ResumeHooks \cap off = {})

(***************************************************************************)
(* A user who asks for sleep and leaves it at that sees the main lock      *)
(* released for good and every handler suspended.                          *)
(***************************************************************************)
ScreenGoesOff ==
    <>[](SUSPEND_REQUESTED \in state) =>
        <>[](/\ main_wake_lock \notin wl.active
             /\ Registered \cap SuspendHooks \subseteq off)

-----------------------------------------------------------------------------
\* WakeLock sees of the worker and of its queue what concerns suspend().
pcBar == IF pc \in EarlyPcs THEN "idle" ELSE pc
wqBar == IF Queued(wq, suspend_work) THEN <<suspend_work>> ELSE <<>>

AsWakeLock == INSTANCE WakeLock WITH pc <- pcBar, wq <- wqBar

(***************************************************************************)
(* This module implements WakeLock: early suspend moves the main lock only *)
(* in ways that WakeLock allows its clients, so what is shown of WakeLock  *)
(* holds of the phone with early suspend.                                  *)
(***************************************************************************)
ImplementsWakeLock == AsWakeLock!Spec
=============================================================================
