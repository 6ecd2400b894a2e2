---------------------------- MODULE UserWakeLock ----------------------------
(***************************************************************************)
(* kernel/power/userwakelock.c: wake locks that user space names.  Writing *)
(* "name" or "name timeout" to /sys/power/wake_lock creates the lock when  *)
(* it is new and takes it; writing "name" to /sys/power/wake_unlock        *)
(* releases it.  Both run under tree_lock, so each write is one step.      *)
(*                                                                         *)
(* A name is a sequence of characters (numbers), because the lookup        *)
(* compares a prefix of the stored name.  Locks are known by their names.  *)
(***************************************************************************)
EXTENDS WakeLockOps, SequencesExt

CONSTANTS
    Names,        \* the names user space uses
    U64,          \* 2^64: number of values of u64
    LONG,         \* 2^32: number of values of long
    JiffyNs,      \* NSEC_PER_SEC / HZ
    Timeouts,     \* the timeouts given, in nanoseconds
    NoMemory      \* may kzalloc fail?

\* A name is not empty and ends before the first NUL.
ASSUME UserAssumption ==
    /\ Names \subseteq Locks \ (IdleLocks \cup {main_wake_lock, unknown_wakeup})
    /\ Names \subseteq Seq(Nat \ {0}) \ {<<>>}
    /\ U64 \in Nat \ {0} /\ LONG \in Nat \ {0} /\ JiffyNs \in Nat \ {0}
    /\ Timeouts \subseteq 0..(U64 - 1)
    /\ LONG \div 2 <= MaxTimeout + 1
    /\ NoMemory \in BOOLEAN

VARIABLES
    wl,      \* the wake locks (WakeLockOps)
    tree,    \* the names in user_wake_locks, in the order of the tree
    call     \* the last write: what was asked and what it returned

vars == <<wl, tree, call>>

NoTimeout == -1      \* no timeout string
EINVAL == "EINVAL"
ENOMEM == "ENOMEM"
OK == "n"

-----------------------------------------------------------------------------
(***************************************************************************)
(* diff in lookup_wake_lock_name: strncmp(buf, l->name, name_len), where   *)
(* buf holds more than the name, and -1 if l->name goes on after name_len. *)
(***************************************************************************)
Char(s, i) == IF i <= Len(s) THEN s[i] ELSE 0

\* Mutant of Compare: the end of the stored name is not looked at
ComparePrefix(name, stored) ==
    LET differ == {i \in 1..Len(name) : name[i] # Char(stored, i)}
    IN  IF differ = {} THEN 0
        ELSE LET i == Min(differ) IN IF name[i] < Char(stored, i) THEN -1 ELSE 1

Compare(name, stored) ==
    LET differ == {i \in 1..Len(name) : name[i] # Char(stored, i)}
    IN  IF differ # {}
        THEN LET i == Min(differ) IN IF name[i] < Char(stored, i) THEN -1 ELSE 1
        ELSE IF Len(stored) > Len(name) THEN -1 ELSE 0

(***************************************************************************)
(* The walk from the root: nodes r[1]..r[2], in tree order, are left to    *)
(* search.  The shape of a red-black tree depends on its history, so any   *)
(* node of them may be the root.  The result is the set of outcomes: the   *)
(* index found, or minus the index before which a new node is linked.      *)
(***************************************************************************)
Walk(t, name) ==
    LET from[r \in (1..(Len(t) + 1)) \X (0..Len(t))] ==
            IF r[1] > r[2]
            THEN {-r[1]}
            ELSE UNION { CASE Compare(name, t[root]) < 0 -> from[<<r[1], root - 1>>]
                           [] Compare(name, t[root]) > 0 -> from[<<root + 1, r[2]>>]
                           [] OTHER -> {root}
                         : root \in r[1]..r[2] }
    IN  from[<<1, Len(t)>>]

\* Mutant of ToJiffies: rounds down
ToJiffiesDown(ns) == IF ns \div JiffyNs <= 0 THEN 1 ELSE ns \div JiffyNs

\* u64 nanoseconds to jiffies, and the assignment of the u64 to a long
ToJiffies(ns) ==
    LET t == ((ns + JiffyNs - 1) % U64) \div JiffyNs
    IN  IF t <= 0 THEN 1 ELSE t

ToLong(t) ==
    LET r == t % LONG IN IF r >= LONG \div 2 THEN r - LONG ELSE r

timeoutptr(ns) == IF ns = NoTimeout THEN 0 ELSE ToLong(ToJiffies(ns))

\* A timeout that is negative has run out at once; 0..MaxTimeout are jiffies.
Jiffies(t) == IF t < 0 THEN 0 ELSE t

-----------------------------------------------------------------------------
TakeUserLock(w, name, t) ==
    wake_lock_internal(w, name, t # 0, Jiffies(t))

\* Mutant of rb_link_node: the name is copied with the byte behind it
LinkLongName(t, name, i) == InsertAt(t, i, Append(name, 0))

\* The new node becomes number i in the order of the tree.
rb_link_node(t, name, i) == InsertAt(t, i, name)

Called(op, name, ns, result) ==
    call' = [op |-> op, name |-> name, ns |-> ns, result |-> result]

wake_lock_store(name, ns) ==
    LET t == timeoutptr(ns)
    IN  \E where \in Walk(tree, name) :
          \/ /\ where > 0
             /\ wl' = TakeUserLock(wl, tree[where], t)
             /\ UNCHANGED tree
             /\ Called("lock", name, ns, OK)
          \/ /\ where < 0
             /\ tree' = rb_link_node(tree, name, -where)
             /\ wl' = TakeUserLock(wake_lock_init(wl, name), name, t)
             /\ Called("lock", name, ns, OK)
          \/ /\ where < 0 /\ NoMemory
             /\ UNCHANGED <<wl, tree>>
             /\ Called("lock", name, ns, ENOMEM)

wake_unlock_store(name) ==
    \E where \in Walk(tree, name) :
        \/ /\ where > 0
           /\ wl' = wake_unlock(wl, tree[where])
           /\ Called("unlock", name, NoTimeout, OK)
           /\ UNCHANGED tree
        \/ /\ where < 0
           /\ Called("unlock", name, NoTimeout, EINVAL)
           /\ UNCHANGED <<wl, tree>>

\* An empty name, or something behind the name or the timeout: bad_arg
BadArgument(op) ==
    /\ Called(op, <<>>, NoTimeout, EINVAL)
    /\ UNCHANGED <<wl, tree>>

\* Time passes; the rest of the kernel looks at the locks now and then.
Tick ==
    /\ wl' = Elapse(wl)
    /\ Called("tick", <<>>, NoTimeout, OK)
    /\ UNCHANGED tree

Look ==
    /\ wl' = Reap(wl, WAKE_LOCK_SUSPEND)
    /\ Called("tick", <<>>, NoTimeout, OK)
    /\ UNCHANGED tree

\* User space runs, with the screen off so that its locks matter.
Init ==
    /\ wl = wake_unlock(wakelocks_init, main_wake_lock)
    /\ tree = <<>>
    /\ call = [op |-> "tick", name |-> <<>>, ns |-> NoTimeout, result |-> OK]

Next ==
    \/ \E name \in Names, ns \in Timeouts \cup {NoTimeout} :
          wake_lock_store(name, ns)
    \/ \E name \in Names : wake_unlock_store(name)
    \/ \E op \in {"lock", "unlock"} : BadArgument(op)
    \/ Tick
    \/ Look

Spec == Init /\ [][Next]_vars

-----------------------------------------------------------------------------
TypeOK ==
    /\ wl \in LockStates
    /\ tree \in Seq(Names)
    /\ call.op \in {"lock", "unlock", "tick"}
    /\ call.name \in Names \cup {<<>>}
    /\ call.ns \in Timeouts \cup {NoTimeout}
    /\ call.result \in {OK, EINVAL, ENOMEM}

(***************************************************************************)
(* The tree never holds a name twice and loses none, although names are    *)
(* prefixes of each other and whatever shape rebalancing has given it:     *)
(* every walk for a stored name finds that name.  A lock found twice would *)
(* leave one struct wake_lock that nobody can release.                     *)
(***************************************************************************)
LookupFinds ==
    \A i \in DOMAIN tree : Walk(tree, tree[i]) = {i}

(***************************************************************************)
(* "convert timeout from nanoseconds to jiffies > 0": a lock taken with a  *)
(* timeout is held with a timeout, for at least the time asked and for     *)
(* less than one jiffy more (or one jiffy, if no time was asked).          *)
(***************************************************************************)
TimeoutHonoured ==
    call.op = "lock" /\ call.result = OK /\ call.ns # NoTimeout =>
        /\ call.name \in wl.active /\ call.name \in wl.autoExpire
        /\ wl.left[call.name] > 0
        /\ wl.left[call.name] * JiffyNs >= call.ns
        /\ call.ns > 0 => (wl.left[call.name] - 1) * JiffyNs < call.ns
        /\ call.ns = 0 => wl.left[call.name] = 1
=============================================================================
