---------------------------- MODULE WakeLockList ----------------------------
(***************************************************************************)
(* kernel/power/wakelock.c on its own data structures: the flags word of   *)
(* each lock, the lists active_wake_locks[] and inactive_locks, and the    *)
(* loop of has_wake_lock_locked, which stops at the first lock without a   *)
(* timeout.  WakeLockSet is the specification it implements.               *)
(***************************************************************************)
EXTENDS WakeLockOps, SequencesExt

VARIABLES
    flags,      \* lock -> set of flag names
    left,       \* lock -> expires - jiffies, 0 standing for every value <= 0
    active,     \* type -> the list active_wake_locks[type]
    inactive,   \* the list inactive_locks
    answer      \* as in WakeLockSet

vars == <<flags, left, active, inactive, answer>>

Flags == {"INITIALIZED", "ACTIVE", "AUTO_EXPIRE", "PREVENTING_SUSPEND"}
Nothing == -2

\* The lock structures and lists as one value, so that the functions that
\* are called one after the other under list_lock can be composed.
Data == [flags |-> flags, left |-> left, active |-> active, inactive |-> inactive]

Become(d) ==
    /\ flags' = d.flags
    /\ left' = d.left
    /\ active' = d.active
    /\ inactive' = d.inactive

Has(d, l, f) == f \in d.flags[l]
OutOfTime(d, l) == Has(d, l, "AUTO_EXPIRE") /\ d.left[l] = 0

\* Mutant of list_del: an active lock stays on its list
ListDelInactive(d, l) == [d EXCEPT !.inactive = RemoveFirst(@, l)]

list_del(d, l) ==
    [d EXCEPT !.active = [type \in LockTypes |-> RemoveFirst(@[type], l)],
              !.inactive = RemoveFirst(@, l)]

\* Mutant of Deactivate: AUTO_EXPIRE is not cleared
DeactivateKeepsExpiry(d, l) ==
    [list_del(d, l) EXCEPT !.flags[l] = @ \ {"ACTIVE", "PREVENTING_SUSPEND"},
                           !.inactive = <<l>> \o @]

\* expire_wake_lock, and the same statements in wake_unlock
Deactivate(d, l) ==
    [list_del(d, l) EXCEPT
        !.flags[l] = @ \ {"ACTIVE", "AUTO_EXPIRE", "PREVENTING_SUSPEND"},
        !.inactive = <<l>> \o @]

(***************************************************************************)
(* has_wake_lock_locked: Reached is the part of the list the loop visits   *)
(* before it meets a lock without a timeout, if there is one.              *)
(***************************************************************************)
Reached(d, type) ==
    LET list  == d.active[type]
        first == SelectInSeq(list, LAMBDA l : ~ Has(d, l, "AUTO_EXPIRE"))
    IN  IF first = 0 THEN list ELSE SubSeq(list, 1, first - 1)

has_wake_lock_locked(d, type) ==
    IF Reached(d, type) # d.active[type]
    THEN -1
    ELSE Max({0} \cup {d.left[l] : l \in ToSet(d.active[type])})

\* The loop's turn for lock l
Visit(d, e, l) == IF OutOfTime(d, l) THEN Deactivate(e, l) ELSE e

\* The loop over a list, and over the one of a type
Walk(d, list) ==
    LET after[n \in 0..Len(list)] ==
          IF n = 0 THEN d ELSE Visit(d, after[n - 1], list[n])
    IN  after[Len(list)]

AfterLoop(d, type) == Walk(d, Reached(d, type))

update_sleep_wait_stats_locked(d, done) ==
    LET listed == ToSet(d.active[WAKE_LOCK_SUSPEND])
    IN  [d EXCEPT !.flags = [l \in Locks |->
            CASE l \notin listed             -> @[l]
              [] l \in listed /\ (done \/ OutOfTime(d, l))
                                             -> @[l] \ {"PREVENTING_SUSPEND"}
              [] OTHER                       -> @[l] \cup {"PREVENTING_SUSPEND"}]]

-----------------------------------------------------------------------------
Init ==
    /\ flags = [l \in Locks |->
                  CASE l = main_wake_lock -> {"INITIALIZED", "ACTIVE"}
                    [] l = unknown_wakeup -> {"INITIALIZED"}
                    [] OTHER -> {}]
    /\ left = [l \in Locks |-> 0]
    /\ active = [type \in LockTypes |->
                   IF type = WAKE_LOCK_SUSPEND THEN <<main_wake_lock>> ELSE <<>>]
    /\ inactive = <<unknown_wakeup>>
    /\ answer = Nothing

wake_lock_init_list(l) ==
    /\ "INITIALIZED" \notin flags[l]
    /\ flags' = [flags EXCEPT ![l] = {"INITIALIZED"}]
    /\ inactive' = <<l>> \o inactive
    /\ answer' = Nothing
    /\ UNCHANGED <<left, active>>

wake_lock_destroy_list(l) ==
    /\ "INITIALIZED" \in flags[l] /\ l \notin {main_wake_lock, unknown_wakeup}
    /\ Become([list_del(Data, l) EXCEPT !.flags[l] = {}, !.left[l] = 0])
    /\ answer' = Nothing

\* Mutant of Link: every lock goes to the tail
LinkTail(list, l, hasTimeout) == Append(list, l)

\* list_add_tail for a lock with a timeout, list_add (at the head) without
Link(list, l, hasTimeout) == IF hasTimeout THEN Append(list, l) ELSE <<l>> \o list

\* Mutant of AcquireList: expires is one jiffy late
AcquireLate(l, hasTimeout, timeout) ==
    [list_del(Data, l) EXCEPT
        !.flags[l] = (@ \ {"AUTO_EXPIRE"}) \cup {"ACTIVE"} \cup
                     (IF hasTimeout THEN {"AUTO_EXPIRE"} ELSE {}),
        !.left[l] = IF hasTimeout THEN timeout + 1 ELSE 0,
        !.active[LockType(l)] = Link(@, l, hasTimeout)]

AcquireList(l, hasTimeout, timeout) ==
    LET f == IF OutOfTime(Data, l) THEN flags[l] \ {"PREVENTING_SUSPEND"}
                                   ELSE flags[l]
    IN  [list_del(Data, l) EXCEPT
            !.flags[l] = (f \ {"AUTO_EXPIRE"}) \cup {"ACTIVE"} \cup
                         (IF hasTimeout THEN {"AUTO_EXPIRE"} ELSE {}),
            !.left[l] = IF hasTimeout THEN timeout ELSE 0,
            !.active[LockType(l)] = Link(@, l, hasTimeout)]

wake_lock_list(l, hasTimeout, timeout) ==
    LET a == AcquireList(l, hasTimeout, timeout)
        b == CASE l = main_wake_lock -> update_sleep_wait_stats_locked(a, TRUE)
               [] l # main_wake_lock /\ ~ Has(a, main_wake_lock, "ACTIVE")
                                     -> update_sleep_wait_stats_locked(a, FALSE)
               [] OTHER              -> a
    IN  /\ "INITIALIZED" \in flags[l]
        /\ IF LockType(l) = WAKE_LOCK_IDLE
           THEN Become(a) /\ answer' = Nothing
           ELSE IF hasTimeout
                THEN /\ Become(AfterLoop(b, WAKE_LOCK_SUSPEND))
                     /\ answer' = has_wake_lock_locked(b, WAKE_LOCK_SUSPEND)
                ELSE Become(b) /\ answer' = -1

wake_unlock_list(l) ==
    LET r == [Deactivate(Data, l) EXCEPT !.left[l] = 0]
        s == AfterLoop(r, WAKE_LOCK_SUSPEND)
    IN  /\ "INITIALIZED" \in flags[l]
        /\ IF LockType(l) = WAKE_LOCK_IDLE
           THEN Become(r) /\ answer' = Nothing
           ELSE /\ Become(IF l = main_wake_lock
                          THEN update_sleep_wait_stats_locked(s, FALSE) ELSE s)
                /\ answer' = has_wake_lock_locked(r, WAKE_LOCK_SUSPEND)

has_wake_lock(type) ==
    /\ Become(AfterLoop(Data, type))
    /\ answer' = has_wake_lock_locked(Data, type)

Tick ==
    /\ left' = [l \in Locks |-> IF left[l] > 0 THEN left[l] - 1 ELSE 0]
    /\ answer' = Nothing
    /\ UNCHANGED <<flags, active, inactive>>

Next ==
    \/ \E l \in Locks :
          \/ wake_lock_init_list(l) \/ wake_lock_destroy_list(l)
          \/ wake_lock_list(l, FALSE, 0)
          \/ \E t \in 0..MaxTimeout : wake_lock_list(l, TRUE, t)
          \/ wake_unlock_list(l)
    \/ \E type \in LockTypes : has_wake_lock(type)
    \/ Tick

Spec == Init /\ [][Next]_vars

-----------------------------------------------------------------------------
TypeOK ==
    /\ flags \in [Locks -> SUBSET Flags]
    /\ left \in [Locks -> 0..MaxTimeout]
    /\ active \in [LockTypes -> Seq(Locks)]
    /\ inactive \in Seq(Locks)
    /\ answer \in {Nothing, -1} \cup 0..MaxTimeout

(***************************************************************************)
(* Every initialised lock is on exactly one list and once, the one its     *)
(* ACTIVE flag and its type name: no call leaves a lock that               *)
(* has_wake_lock_locked overlooks or walks into twice.                     *)
(***************************************************************************)
ListsMatchFlags ==
    LET On(list) == {list[i] : i \in DOMAIN list}
        Has1(f)  == {l \in Locks : f \in flags[l]}
    IN  /\ \A type \in LockTypes :
              /\ IsInjective(active[type])
              /\ On(active[type]) = {l \in Has1("ACTIVE") : LockType(l) = type}
        /\ IsInjective(inactive)
        /\ On(inactive) = Has1("INITIALIZED") \ Has1("ACTIVE")

(***************************************************************************)
(* The early return of has_wake_lock_locked is sound: locks without a      *)
(* timeout are all in front, so a timed lock is never expired while the    *)
(* call answers -1, and a lock behind one is never judged by its place.    *)
(***************************************************************************)
PermanentFirst ==
    \A type \in LockTypes : \A i, j \in DOMAIN active[type] :
        i < j /\ "AUTO_EXPIRE" \in flags[active[type][i]]
            => "AUTO_EXPIRE" \in flags[active[type][j]]

-----------------------------------------------------------------------------
\* The lock state of WakeLockSet that the flags represent
FlagSet(f) == {l \in Locks : f \in flags[l]}
wlBar == [inited     |-> FlagSet("INITIALIZED"),
          active     |-> FlagSet("ACTIVE"),
          autoExpire |-> FlagSet("AUTO_EXPIRE"),
          preventing |-> FlagSet("PREVENTING_SUSPEND"),
          left       |-> left]

Abstract == INSTANCE WakeLockSet WITH wl <- wlBar

(***************************************************************************)
(* The list code implements the set specification: every call gives the    *)
(* answer, and leaves the flags, that the set view gives.                  *)
(***************************************************************************)
ImplementsSet == Abstract!Spec
=============================================================================
