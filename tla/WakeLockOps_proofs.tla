------------------------- MODULE WakeLockOps_proofs -------------------------
(***************************************************************************)
(* Facts about the operators of WakeLockOps, for all sets of locks and all *)
(* timeouts, and about lists as the kernel uses them, that the proofs about*)
(* the modules built on them rest on.                                      *)
(***************************************************************************)
EXTENDS WakeLockOps, SequencesExt, TLAPS, WellFoundedInduction

-----------------------------------------------------------------------------
(* The least and the greatest of a set; elements of lists *)

\* A non-empty set of naturals has a minimum, and Min is it.
LEMMA NatMin ==
    ASSUME NEW S, S \subseteq Nat, S # {}
    PROVE  /\ Min(S) \in S
           /\ \A y \in S : Min(S) <= y
<1>1. PICK t \in S : \A u \in S : ~ (<<u, t>> \in OpToRel(<, Nat))
  BY WFMin, NatLessThanWellFounded, Zenon
<1>2. \A u \in S : ~ (u < t)
  BY <1>1 DEF OpToRel
<1>3. \A u \in S : t <= u
  BY <1>2
<1> QED BY <1>3 DEF Min

\* A non-empty bounded set of naturals has a maximum, and Max is it.
LEMMA BoundedMax ==
    ASSUME NEW n \in Nat, NEW S, S \subseteq 0..n, S # {}
    PROVE  /\ Max(S) \in S
           /\ \A y \in S : Max(S) >= y
<1> DEFINE T == {n - x : x \in S}
<1>1. T \subseteq Nat
  OBVIOUS
<1>2. T # {}
  <2>1. PICK x \in S : TRUE
    OBVIOUS
  <2>2. n - x \in T
    OBVIOUS
  <2> QED BY <2>2
<1>3. PICK t \in T : \A u \in T : ~ (<<u, t>> \in OpToRel(<, Nat))
  BY <1>1, <1>2, WFMin, NatLessThanWellFounded, Zenon
<1>4. \A u \in T : ~ (u < t)
  BY <1>1, <1>3 DEF OpToRel
<1>5. PICK x \in S : t = n - x
  OBVIOUS
<1>6. \A y \in S : n - y \in T
  OBVIOUS
<1>7. \A y \in S : x >= y
  BY <1>4, <1>5, <1>6
<1> QED BY <1>7 DEF Max

\* What a concatenation consists of
LEMMA ConcatElements ==
    ASSUME NEW S, NEW s \in Seq(S), NEW t \in Seq(S), NEW q, q = s \o t
    PROVE  /\ q \in Seq(S) /\ Len(q) = Len(s) + Len(t)
           /\ \A i \in 1..Len(s) : q[i] = s[i]
           /\ \A i \in (Len(s) + 1)..(Len(s) + Len(t)) : q[i] = t[i - Len(s)]
OBVIOUS

\* The elements of a list with one more at place k
LEMMA InsertElements ==
    ASSUME NEW S, NEW s \in Seq(S), NEW h \in S, NEW k \in 1..(Len(s) + 1),
           NEW q, q = IF k = Len(s) + 1 THEN Append(s, h) ELSE InsertAt(s, k, h)
    PROVE  /\ q \in Seq(S) /\ Len(q) = Len(s) + 1
           /\ \A i \in 1..Len(q) :
                 q[i] = IF i < k THEN s[i] ELSE IF i = k THEN h ELSE s[i - 1]
<1>1. CASE k = Len(s) + 1
  BY <1>1
<1>2. CASE k \in 1..Len(s)
  <2> DEFINE a == SubSeq(s, 1, k - 1)
             b == SubSeq(s, k, Len(s))
  <2>1. /\ a \in Seq(S) /\ Len(a) = k - 1 /\ \A i \in 1..(k - 1) : a[i] = s[i]
    BY <1>2
  <2>2. /\ b \in Seq(S) /\ Len(b) = Len(s) - k + 1
        /\ \A i \in 1..(Len(s) - k + 1) : b[i] = s[k + i - 1]
    BY <1>2
  <2>3. q = (a \o <<h>>) \o b
    BY <1>2 DEF InsertAt
  <2> HIDE DEF a, b
  <2>4. /\ a \o <<h>> \in Seq(S) /\ Len(a \o <<h>>) = k
        /\ \A i \in 1..k : (a \o <<h>>)[i] = IF i < k THEN s[i] ELSE h
    BY <2>1
  <2> DEFINE c == a \o <<h>>
  <2> HIDE DEF c
  <2>7. /\ c \in Seq(S) /\ Len(c) = k /\ q = c \o b
        /\ \A i \in 1..k : c[i] = IF i < k THEN s[i] ELSE h
    BY <2>3, <2>4 DEF c
  <2>8. /\ q \in Seq(S) /\ Len(q) = k + Len(b)
        /\ \A i \in 1..k : q[i] = c[i]
        /\ \A i \in (k + 1)..(k + Len(b)) : q[i] = b[i - k]
    <3>1. c \in Seq(S) /\ b \in Seq(S) /\ q = c \o b
      BY <2>2, <2>7
    <3>2. /\ q \in Seq(S) /\ Len(q) = Len(c) + Len(b)
          /\ \A i \in 1..Len(c) : q[i] = c[i]
          /\ \A i \in (Len(c) + 1)..(Len(c) + Len(b)) : q[i] = b[i - Len(c)]
      BY ONLY <3>1, ConcatElements
    <3> QED BY <2>7, <3>2
  <2>5. q \in Seq(S) /\ Len(q) = Len(s) + 1
    BY <2>2, <2>8
  <2>6. ASSUME NEW i \in 1..Len(q)
        PROVE  q[i] = IF i < k THEN s[i] ELSE IF i = k THEN h ELSE s[i - 1]
    <3>1. CASE i <= k
      BY <2>7, <2>8, <3>1
    <3>2. CASE i > k
      <4>1. q[i] = b[i - k] /\ i - k \in 1..(Len(s) - k + 1)
        BY <2>2, <2>5, <2>8, <3>2
      <4>2. b[i - k] = s[k + (i - k) - 1] /\ k + (i - k) - 1 = i - 1
        BY <2>2, <4>1
      <4> QED BY <3>2, <4>1, <4>2
    <3> QED BY <3>1, <3>2
  <2> QED BY <2>5, <2>6
<1> QED BY <1>1, <1>2

\* ... and of one that lost its element at place k
LEMMA RemoveElements ==
    ASSUME NEW S, NEW s \in Seq(S), NEW k \in 1..Len(s), NEW q, q = RemoveAt(s, k)
    PROVE  /\ q \in Seq(S) /\ Len(q) = Len(s) - 1
           /\ \A i \in 1..Len(q) : q[i] = IF i < k THEN s[i] ELSE s[i + 1]
<1> DEFINE a == SubSeq(s, 1, k - 1)
           b == SubSeq(s, k + 1, Len(s))
<1>1. /\ a \in Seq(S) /\ Len(a) = k - 1 /\ \A i \in 1..(k - 1) : a[i] = s[i]
  OBVIOUS
<1>2. /\ b \in Seq(S) /\ Len(b) = Len(s) - k
      /\ \A i \in 1..(Len(s) - k) : b[i] = s[k + i]
  <2>1. CASE k = Len(s)
    BY <2>1
  <2>2. CASE k < Len(s)
    BY <2>2
  <2> QED BY <2>1, <2>2
<1>3. q = a \o b
  BY DEF RemoveAt
<1> HIDE DEF a, b
<1>6. /\ q \in Seq(S) /\ Len(q) = Len(a) + Len(b)
      /\ \A i \in 1..Len(a) : q[i] = a[i]
      /\ \A i \in (Len(a) + 1)..(Len(a) + Len(b)) : q[i] = b[i - Len(a)]
  <2>1. a \in Seq(S) /\ b \in Seq(S)
    BY <1>1, <1>2
  <2> QED BY <1>3, <2>1, ConcatElements
<1>4. q \in Seq(S) /\ Len(q) = Len(s) - 1
  BY <1>1, <1>2, <1>6
<1>5. ASSUME NEW i \in 1..Len(q) PROVE q[i] = IF i < k THEN s[i] ELSE s[i + 1]
  <2>1. CASE i < k
    BY <1>1, <1>6, <2>1
  <2>2. CASE i >= k
    <3>1. q[i] = b[i - (k - 1)] /\ i - (k - 1) \in 1..(Len(s) - k)
      BY <1>1, <1>2, <1>4, <1>6, <2>2
    <3>2. b[i - (k - 1)] = s[k + (i - (k - 1))] /\ k + (i - (k - 1)) = i + 1
      BY <1>2, <3>1
    <3> QED BY <2>2, <3>1, <3>2
  <2> QED BY <2>1, <2>2
<1> QED BY <1>4, <1>5

\* RemoveFirst takes an element out at a place where it is.
LEMMA RemoveFirstPlace ==
    ASSUME NEW S, NEW s \in Seq(S), NEW h, h \in {s[i] : i \in 1..Len(s)}
    PROVE  \E k \in 1..Len(s) : s[k] = h /\ RemoveFirst(s, h) = RemoveAt(s, k)
<1> DEFINE I == {i \in 1..Len(s) : s[i] = h}
           k == Min(I)
<1>1. I # {} /\ I \subseteq Nat
  OBVIOUS
<1>2. k \in I
  BY <1>1, NatMin
<1>3. RemoveFirst(s, h) = RemoveAt(s, k)
  BY <1>1 DEF RemoveFirst, SelectInSeq
<1> QED BY <1>2, <1>3

\* An element that is in a list once at most is not in it afterwards.
LEMMA RemoveOnly ==
    ASSUME NEW S, NEW s \in Seq(S), NEW h,
           \A i, j \in 1..Len(s) : s[i] = h /\ s[j] = h => i = j
    PROVE  /\ RemoveFirst(s, h) \in Seq(S)
           /\ \A i \in 1..Len(RemoveFirst(s, h)) : RemoveFirst(s, h)[i] # h
<1>1. CASE h \in {s[i] : i \in 1..Len(s)}
  <2> DEFINE q == RemoveFirst(s, h)
  <2>1. PICK k \in 1..Len(s) : s[k] = h /\ q = RemoveAt(s, k)
    BY <1>1, RemoveFirstPlace
  <2>2. /\ q \in Seq(S) /\ Len(q) = Len(s) - 1
        /\ \A i \in 1..Len(q) : q[i] = IF i < k THEN s[i] ELSE s[i + 1]
    <3>1. k \in 1..Len(s) /\ q = RemoveAt(s, k)
      BY <2>1
    <3> HIDE DEF q
    <3> QED BY <3>1, RemoveElements
  <2>3. ASSUME NEW i \in 1..Len(q) PROVE q[i] # h
    <3> HIDE DEF q
    <3>1. CASE i < k
      BY <2>1, <2>2, <3>1
    <3>2. CASE i >= k
      <4>1. i + 1 \in 1..Len(s) /\ i + 1 # k
        BY <2>1, <2>2, <3>2
      <4> QED BY <2>1, <2>2, <3>2, <4>1
    <3> QED BY <3>1, <3>2
  <2> QED BY <2>2, <2>3
<1>2. CASE h \notin {s[i] : i \in 1..Len(s)}
  <2>1. RemoveFirst(s, h) = s
    BY <1>2 DEF RemoveFirst
  <2> QED BY <1>2, <2>1
<1> QED BY <1>1, <1>2

-----------------------------------------------------------------------------
(* What each operation on the locks does *)

\* has_wake_lock_locked answers -1 exactly when a lock without a timeout is
\* held, and otherwise a bound on the time every held lock has left, which is
\* 0 or the time of one of them.
LEMMA HasWakeLockAnswer ==
    ASSUME NEW w \in LockStates, NEW type
    PROVE  /\ HasWakeLock(w, type) \in {-1} \cup 0..MaxTimeout
           /\ HasWakeLock(w, type) = -1 <=> Permanent(w, type) # {}
           /\ HasWakeLock(w, type) # -1 =>
                \A l \in ActiveLocks(w, type) : w.left[l] <= HasWakeLock(w, type)
           /\ HasWakeLock(w, type) > 0 =>
                \E l \in ActiveLocks(w, type) : w.left[l] = HasWakeLock(w, type)
<1> DEFINE S == {0} \cup {w.left[l] : l \in ActiveLocks(w, type)}
<1>1. ActiveLocks(w, type) \subseteq Locks
  BY DEF ActiveLocks, LockStates
<1>2. w.left \in [Locks -> 0..MaxTimeout] /\ MaxTimeout \in Nat
  BY LockAssumption DEF LockStates
<1>3. S \subseteq 0..MaxTimeout /\ S # {}
  BY <1>1, <1>2
<1>4. Max(S) \in S /\ \A y \in S : Max(S) >= y
  BY <1>2, <1>3, BoundedMax
<1>5. HasWakeLock(w, type) = IF Permanent(w, type) # {} THEN -1 ELSE Max(S)
  BY DEF HasWakeLock
<1>6. Max(S) \in 0..MaxTimeout
  BY <1>3, <1>4
<1>7. \A l \in ActiveLocks(w, type) : w.left[l] <= Max(S)
  <2> SUFFICES ASSUME NEW l \in ActiveLocks(w, type) PROVE w.left[l] <= Max(S)
    OBVIOUS
  <2>1. w.left[l] \in S
    OBVIOUS
  <2> QED BY <1>2, <1>3, <1>4, <2>1
<1>8. Max(S) > 0 => \E l \in ActiveLocks(w, type) : w.left[l] = Max(S)
  BY <1>4, SMTT(30)
<1> HIDE DEF S
<1> QED BY <1>5, <1>6, <1>7, <1>8, <1>2

\* What reaping leaves: the permanent locks stay, nothing is added, and when
\* the answer was 0 no lock of that type is left.
LEMMA ReapEffect ==
    ASSUME NEW w \in LockStates, NEW type
    PROVE  LET r == Reap(w, type)
           IN  /\ r \in LockStates
               /\ r.inited = w.inited /\ r.left = w.left
               /\ r.active \subseteq w.active
               /\ \A l \in w.active \ r.active : LockType(l) = type /\ Expired(w, l)
               /\ r.autoExpire = w.autoExpire \ (w.active \ r.active)
               /\ r.preventing = w.preventing \ (w.active \ r.active)
               /\ \A t : Permanent(r, t) = Permanent(w, t)
               /\ HasWakeLock(w, type) = 0 => ActiveLocks(r, type) = {}
<1> DEFINE r == Reap(w, type)
           D == IF Permanent(w, type) # {} THEN {}
                ELSE {l \in ActiveLocks(w, type) : Expired(w, l)}
<1>1. D \subseteq w.active /\ \A l \in D : LockType(l) = type /\ Expired(w, l)
  BY DEF ActiveLocks
<1>2. r = [w EXCEPT !.active = @ \ D, !.autoExpire = @ \ D, !.preventing = @ \ D]
  BY DEF Reap, expire_wake_lock, LockStates
<1>3. /\ r.inited = w.inited /\ r.left = w.left
      /\ r.active = w.active \ D
      /\ r.autoExpire = w.autoExpire \ D
      /\ r.preventing = w.preventing \ D
      /\ r \in LockStates
  BY <1>2, ZenonT(60) DEF LockStates
<1>4. w.active \ r.active = D
  BY <1>1, <1>3
<1>5. \A t : Permanent(r, t) = Permanent(w, t)
  BY <1>1, <1>3 DEF Permanent, ActiveLocks, Expired
<1>6. HasWakeLock(w, type) = 0 => ActiveLocks(r, type) = {}
  <2> SUFFICES ASSUME HasWakeLock(w, type) = 0, NEW l \in ActiveLocks(r, type)
               PROVE FALSE
    OBVIOUS
  <2>1. Permanent(w, type) = {} /\ l \in ActiveLocks(w, type) /\ l \in w.active
    BY <1>3, HasWakeLockAnswer DEF ActiveLocks
  <2>2. w.left[l] = 0
    BY <2>1, HasWakeLockAnswer, LockAssumption DEF LockStates
  <2>3. l \in D
    BY <2>1, <2>2 DEF Permanent, Expired
  <2> QED BY <2>3, <1>3 DEF ActiveLocks
<1> QED BY <1>1, <1>3, <1>4, <1>5, <1>6

\* The accounting touches only the flag of the locks on the suspend list.
LEMMA StatsEffect ==
    ASSUME NEW w \in LockStates, NEW done \in BOOLEAN
    PROVE  LET u == update_sleep_wait_stats(w, done)
               all == ActiveLocks(w, WAKE_LOCK_SUSPEND)
           IN  /\ u \in LockStates
               /\ u.inited = w.inited /\ u.left = w.left
               /\ u.active = w.active /\ u.autoExpire = w.autoExpire
               /\ done => u.preventing = w.preventing \ all
               /\ u.preventing \subseteq w.preventing \cup all
<1> DEFINE all == ActiveLocks(w, WAKE_LOCK_SUSPEND)
           p == IF done THEN w.preventing \ all
                ELSE (w.preventing \ all) \cup {l \in all : ~ Expired(w, l)}
<1>1. all \subseteq Locks
  BY DEF ActiveLocks, LockStates
<1>2. update_sleep_wait_stats(w, done) = [w EXCEPT !.preventing = p]
  BY DEF update_sleep_wait_stats, LockStates
<1>3. p \in SUBSET Locks
  BY <1>1 DEF LockStates
<1>4. p \subseteq w.preventing \cup all /\ (done => p = w.preventing \ all)
  OBVIOUS
<1> HIDE DEF p
<1> QED BY <1>2, <1>3, <1>4 DEF LockStates

\* Acquire and the accounting that follows it.
LEMMA LockedEffect ==
    ASSUME NEW w \in LockStates, NEW l \in Locks,
           NEW h \in BOOLEAN, NEW t \in 0..MaxTimeout
    PROVE  LET a == Locked(w, l, h, t)
           IN  /\ a \in LockStates
               /\ a.inited = w.inited
               /\ a.active = w.active \cup {l}
               /\ h => a.autoExpire = w.autoExpire \cup {l}
               /\ ~ h => a.autoExpire = w.autoExpire \ {l}
               /\ \A k \in Locks \ {l} : a.left[k] = w.left[k]
               /\ a.left[l] = IF h THEN t ELSE 0
               /\ a.preventing \subseteq
                    w.preventing \cup ActiveLocks(a, WAKE_LOCK_SUSPEND)
               /\ l = main_wake_lock =>
                    a.preventing \subseteq
                       w.preventing \ ActiveLocks(a, WAKE_LOCK_SUSPEND)
               /\ main_wake_lock \in a.active => a.preventing \subseteq w.preventing
<1> DEFINE b == Acquire(w, l, h, t)
           a == Locked(w, l, h, t)
<1>1. /\ b \in LockStates
      /\ b.inited = w.inited
      /\ b.active = w.active \cup {l}
      /\ h => b.autoExpire = w.autoExpire \cup {l}
      /\ ~ h => b.autoExpire = w.autoExpire \ {l}
      /\ \A k \in Locks \ {l} : b.left[k] = w.left[k]
      /\ b.left[l] = IF h THEN t ELSE 0
      /\ b.preventing \subseteq w.preventing
  <2> DEFINE x == IF h THEN w.autoExpire \cup {l} ELSE w.autoExpire \ {l}
             p == IF Expired(w, l) THEN w.preventing \ {l} ELSE w.preventing
             f == [w.left EXCEPT ![l] = IF h THEN t ELSE 0]
  <2>1. x \in SUBSET Locks /\ p \in SUBSET Locks /\ p \subseteq w.preventing
    BY DEF LockStates
  <2>2. f \in [Locks -> 0..MaxTimeout]
    BY LockAssumption DEF LockStates
  <2>3. b = [inited |-> w.inited, active |-> w.active \cup {l},
             autoExpire |-> x, preventing |-> p, left |-> f]
    BY DEF Acquire
  <2> HIDE DEF x, p, f
  <2>4. /\ b \in LockStates /\ b.inited = w.inited
        /\ b.active = w.active \cup {l} /\ b.autoExpire = x
        /\ b.preventing = p /\ b.left = f
    <3>1. w.active \cup {l} \in SUBSET Locks
      BY DEF LockStates
    <3>2. w.inited \in SUBSET Locks
      BY DEF LockStates
    <3> HIDE DEF b
    <3> QED BY <2>1, <2>2, <2>3, <3>1, <3>2 DEF LockStates
  <2>5. f[l] = (IF h THEN t ELSE 0) /\ \A k \in Locks \ {l} : f[k] = w.left[k]
    BY DEF f, LockStates
  <2> QED BY <2>1, <2>4, <2>5 DEF x
<1> HIDE DEF b
<1>2. a = IF LockType(l) = WAKE_LOCK_SUSPEND THEN Charge(b, l) ELSE b
  BY DEF Locked, b
<1>3. CASE LockType(l) # WAKE_LOCK_SUSPEND
  <2>1. l # main_wake_lock
    BY <1>3, LockAssumption DEF LockType, WAKE_LOCK_SUSPEND
  <2> QED BY <1>1, <1>2, <1>3, <2>1
<1>4. CASE l = main_wake_lock
  <2>1. a = update_sleep_wait_stats(b, TRUE)
    BY <1>2, <1>4, LockAssumption DEF Charge, LockType, WAKE_LOCK_SUSPEND
  <2>2. ActiveLocks(a, WAKE_LOCK_SUSPEND) = ActiveLocks(b, WAKE_LOCK_SUSPEND)
    BY <1>1, <2>1, StatsEffect DEF ActiveLocks
  <2>3. /\ a \in LockStates /\ a.inited = b.inited /\ a.left = b.left
        /\ a.active = b.active /\ a.autoExpire = b.autoExpire
        /\ a.preventing = b.preventing \ ActiveLocks(b, WAKE_LOCK_SUSPEND)
    BY <1>1, <2>1, StatsEffect, ZenonT(60)
  <2> HIDE DEF a
  <2> QED BY <1>1, <2>2, <2>3 DEF a
<1>5. CASE l # main_wake_lock /\ LockType(l) = WAKE_LOCK_SUSPEND
           /\ main_wake_lock \notin b.active
  <2>1. a = update_sleep_wait_stats(b, FALSE)
    BY <1>2, <1>5 DEF Charge
  <2>2. ActiveLocks(a, WAKE_LOCK_SUSPEND) = ActiveLocks(b, WAKE_LOCK_SUSPEND)
    BY <1>1, <2>1, StatsEffect DEF ActiveLocks
  <2>3. /\ a \in LockStates /\ a.inited = b.inited /\ a.left = b.left
        /\ a.active = b.active /\ a.autoExpire = b.autoExpire
        /\ a.preventing \subseteq b.preventing \cup ActiveLocks(b, WAKE_LOCK_SUSPEND)
    BY <1>1, <2>1, StatsEffect, ZenonT(60)
  <2> HIDE DEF a
  <2> QED BY <1>1, <1>5, <2>2, <2>3 DEF a
<1>6. CASE l # main_wake_lock /\ LockType(l) = WAKE_LOCK_SUSPEND
           /\ main_wake_lock \in b.active
  <2>1. a = b
    BY <1>2, <1>6 DEF Charge
  <2> QED BY <1>1, <1>6, <2>1
<1> QED BY <1>3, <1>4, <1>5, <1>6

\* The flags after wake_unlock has cleared them, before it looks at the list.
LEMMA ReleasedEffect ==
    ASSUME NEW w \in LockStates, NEW l \in Locks
    PROVE  LET r == Released(w, l)
           IN  /\ r \in LockStates
               /\ r.inited = w.inited
               /\ r.active = w.active \ {l}
               /\ r.autoExpire = w.autoExpire \ {l}
               /\ r.preventing = w.preventing \ {l}
               /\ \A k \in Locks \ {l} : r.left[k] = w.left[k]
<1> DEFINE e == expire_wake_lock(w, {l})
<1>1. /\ e \in LockStates
      /\ e.inited = w.inited
      /\ e.active = w.active \ {l}
      /\ e.autoExpire = w.autoExpire \ {l}
      /\ e.preventing = w.preventing \ {l}
      /\ e.left = w.left
  BY DEF expire_wake_lock, LockStates
<1> HIDE DEF e
<1>2. Released(w, l) = [e EXCEPT !.left = [e.left EXCEPT ![l] = 0]]
  BY <1>1 DEF Released, e, LockStates
<1> QED BY <1>1, <1>2, LockAssumption DEF LockStates

\* Initialising and destroying a lock
LEMMA InitDestroyEffect ==
    ASSUME NEW w \in LockStates, NEW l \in Locks
    PROVE  /\ wake_lock_init(w, l) \in LockStates
           /\ wake_lock_init(w, l).inited = w.inited \cup {l}
           /\ wake_lock_init(w, l).active = w.active \ {l}
           /\ wake_lock_init(w, l).autoExpire = w.autoExpire \ {l}
           /\ wake_lock_init(w, l).preventing = w.preventing \ {l}
           /\ wake_lock_init(w, l).left = w.left
           /\ wake_lock_destroy(w, l) \in LockStates
           /\ wake_lock_destroy(w, l).inited = w.inited \ {l}
           /\ wake_lock_destroy(w, l).active = w.active \ {l}
           /\ wake_lock_destroy(w, l).autoExpire = w.autoExpire \ {l}
           /\ wake_lock_destroy(w, l).preventing = w.preventing \ {l}
           /\ \A k \in Locks \ {l} : wake_lock_destroy(w, l).left[k] = w.left[k]
<1> DEFINE f == [w.left EXCEPT ![l] = 0]
<1>1. f \in [Locks -> 0..MaxTimeout]
  BY LockAssumption DEF LockStates
<1>2. wake_lock_destroy(w, l) =
        [w EXCEPT !.inited = w.inited \ {l}, !.active = w.active \ {l},
                  !.autoExpire = w.autoExpire \ {l},
                  !.preventing = w.preventing \ {l}, !.left = f]
  BY DEF wake_lock_destroy
<1> HIDE DEF f
<1>3. /\ wake_lock_destroy(w, l) \in LockStates
      /\ wake_lock_destroy(w, l).inited = w.inited \ {l}
      /\ wake_lock_destroy(w, l).active = w.active \ {l}
      /\ wake_lock_destroy(w, l).autoExpire = w.autoExpire \ {l}
      /\ wake_lock_destroy(w, l).preventing = w.preventing \ {l}
      /\ wake_lock_destroy(w, l).left = f
  BY <1>1, <1>2 DEF LockStates
<1> QED BY <1>3 DEF wake_lock_init, LockStates, f

\* A jiffy changes nothing but the times left.
LEMMA ElapseEffect ==
    ASSUME NEW w \in LockStates
    PROVE  /\ Elapse(w) \in LockStates
           /\ Elapse(w).inited = w.inited
           /\ Elapse(w).active = w.active
           /\ Elapse(w).autoExpire = w.autoExpire
           /\ Elapse(w).preventing = w.preventing
           /\ \A l \in Locks :
                 Elapse(w).left[l] = IF w.left[l] > 0 THEN w.left[l] - 1 ELSE 0
<1> DEFINE f == [l \in Locks |-> IF w.left[l] > 0 THEN w.left[l] - 1 ELSE 0]
<1>1. f \in [Locks -> 0..MaxTimeout]
  BY LockAssumption DEF LockStates
<1>2. Elapse(w) = [w EXCEPT !.left = f]
  BY DEF Elapse
<1> QED BY <1>1, <1>2 DEF LockStates

-----------------------------------------------------------------------------
\* Only locks that are held while the main lock is not are charged.
Accounted(w) ==
    w.preventing \subseteq
        (IF main_wake_lock \in w.active THEN {} ELSE ActiveLocks(w, WAKE_LOCK_SUSPEND))

\* The main lock is of the suspend type.
LEMMA MainIsSuspend ==
    LockType(main_wake_lock) = WAKE_LOCK_SUSPEND
BY LockAssumption DEF LockType, WAKE_LOCK_SUSPEND

\* Reaping keeps the accounts.
LEMMA ReapAccounted ==
    ASSUME NEW w \in LockStates, NEW type, Accounted(w)
    PROVE  Accounted(Reap(w, type))
BY ReapEffect DEF Accounted, ActiveLocks

\* Taking a lock keeps the accounts: the main lock clears them.
LEMMA LockedAccounted ==
    ASSUME NEW w \in LockStates, NEW l \in Locks,
           NEW h \in BOOLEAN, NEW t \in 0..MaxTimeout, Accounted(w)
    PROVE  Accounted(Locked(w, l, h, t))
<1> DEFINE a == Locked(w, l, h, t)
<1>1. /\ a.active = w.active \cup {l}
      /\ a.preventing \subseteq w.preventing \cup ActiveLocks(a, WAKE_LOCK_SUSPEND)
      /\ l = main_wake_lock =>
            a.preventing \subseteq w.preventing \ ActiveLocks(a, WAKE_LOCK_SUSPEND)
      /\ main_wake_lock \in a.active => a.preventing \subseteq w.preventing
  BY LockedEffect
<1> SUFFICES Accounted(a)
  OBVIOUS
<1> HIDE DEF a
<1>2. ActiveLocks(w, WAKE_LOCK_SUSPEND) \subseteq ActiveLocks(a, WAKE_LOCK_SUSPEND)
  BY <1>1 DEF ActiveLocks
<1>3. w.preventing \subseteq ActiveLocks(w, WAKE_LOCK_SUSPEND)
  BY DEF Accounted
<1>4. main_wake_lock \in w.active => w.preventing = {}
  BY DEF Accounted
<1>5. CASE l = main_wake_lock
  BY <1>1, <1>2, <1>3, <1>5 DEF Accounted
<1>6. CASE l # main_wake_lock /\ main_wake_lock \in w.active
  BY <1>1, <1>4, <1>6 DEF Accounted
<1>7. CASE l # main_wake_lock /\ main_wake_lock \notin w.active
  BY <1>1, <1>2, <1>3, <1>7 DEF Accounted
<1> QED BY <1>5, <1>6, <1>7

(***************************************************************************)
(* wake_lock_internal on a suspend lock.  The answer tells what is held    *)
(* afterwards: a permanent lock if it is -1, else nothing that lasts       *)
(* longer than it says.                                                    *)
(***************************************************************************)
LEMMA LockCallEffect ==
    ASSUME NEW w \in LockStates, NEW l \in Locks,
           NEW h \in BOOLEAN, NEW t \in 0..MaxTimeout,
           LockType(l) = WAKE_LOCK_SUSPEND
    PROVE  LET r == wake_lock_internal(w, l, h, t)
               n == ExpireIn(w, l, h, t)
           IN  /\ r \in LockStates /\ r.inited = w.inited
               /\ r.active \subseteq w.active \cup {l}
               /\ n \in {-1} \cup 0..MaxTimeout
               /\ n = -1 => Permanent(r, WAKE_LOCK_SUSPEND) # {}
               /\ n # -1 =>
                    \A k \in ActiveLocks(r, WAKE_LOCK_SUSPEND) : r.left[k] <= n
               /\ Accounted(w) => Accounted(r)
<1> DEFINE a == Locked(w, l, h, t)
           r == wake_lock_internal(w, l, h, t)
           n == ExpireIn(w, l, h, t)
<1>1. /\ a \in LockStates /\ a.inited = w.inited /\ a.active = w.active \cup {l}
      /\ ~ h => l \notin a.autoExpire
  BY LockedEffect
<1>2. Accounted(w) => Accounted(a)
  BY LockedAccounted
<1>3. CASE h
  <2>1. r = Reap(a, WAKE_LOCK_SUSPEND) /\ n = HasWakeLock(a, WAKE_LOCK_SUSPEND)
    BY <1>3 DEF wake_lock_internal, ExpireIn
  <2> HIDE DEF a, r, n
  <2>2. /\ r \in LockStates /\ r.inited = a.inited /\ r.active \subseteq a.active
        /\ r.left = a.left
        /\ Permanent(r, WAKE_LOCK_SUSPEND) = Permanent(a, WAKE_LOCK_SUSPEND)
    BY <1>1, <2>1, ReapEffect
  <2>3. /\ n \in {-1} \cup 0..MaxTimeout
        /\ n = -1 => Permanent(a, WAKE_LOCK_SUSPEND) # {}
        /\ n # -1 => \A k \in ActiveLocks(a, WAKE_LOCK_SUSPEND) : a.left[k] <= n
    BY <1>1, <2>1, HasWakeLockAnswer
  <2>4. ActiveLocks(r, WAKE_LOCK_SUSPEND) \subseteq ActiveLocks(a, WAKE_LOCK_SUSPEND)
    BY <2>2 DEF ActiveLocks
  <2>5. Accounted(w) => Accounted(r)
    BY <1>1, <1>2, <2>1, ReapAccounted
  <2> QED BY <1>1, <2>2, <2>3, <2>4, <2>5 DEF r, n
<1>4. CASE ~ h
  <2>1. r = a /\ n = -1
    BY <1>4 DEF wake_lock_internal, ExpireIn
  <2> HIDE DEF a, r, n
  <2>2. l \in Permanent(a, WAKE_LOCK_SUSPEND)
    BY <1>1, <1>4 DEF Permanent, ActiveLocks
  <2> QED BY <1>1, <1>2, <2>1, <2>2 DEF r, n
<1> QED BY <1>3, <1>4

\* wake_unlock on a suspend lock, with the same meaning of the answer
LEMMA UnlockCallEffect ==
    ASSUME NEW w \in LockStates, NEW l \in Locks,
           LockType(l) = WAKE_LOCK_SUSPEND
    PROVE  LET r == wake_unlock(w, l)
               n == HasLockAfterUnlock(w, l)
           IN  /\ r \in LockStates /\ r.inited = w.inited
               /\ r.active \subseteq w.active
               /\ n \in {-1} \cup 0..MaxTimeout
               /\ n = -1 => Permanent(r, WAKE_LOCK_SUSPEND) # {}
               /\ n # -1 =>
                    \A k \in ActiveLocks(r, WAKE_LOCK_SUSPEND) : r.left[k] <= n
               /\ Accounted(w) => Accounted(r)
<1> DEFINE a == Released(w, l)
           b == Reap(a, WAKE_LOCK_SUSPEND)
           r == wake_unlock(w, l)
           n == HasLockAfterUnlock(w, l)
<1>1. /\ a \in LockStates /\ a.inited = w.inited /\ a.active = w.active \ {l}
      /\ a.preventing = w.preventing \ {l}
  BY ReleasedEffect
<1>2. r = IF l = main_wake_lock THEN update_sleep_wait_stats(b, FALSE) ELSE b
  BY DEF wake_unlock
<1>3. n = HasWakeLock(a, WAKE_LOCK_SUSPEND)
  BY DEF HasLockAfterUnlock
<1> HIDE DEF a, r, n
<1>4. /\ b \in LockStates /\ b.inited = a.inited /\ b.active \subseteq a.active
      /\ b.left = a.left
      /\ Permanent(b, WAKE_LOCK_SUSPEND) = Permanent(a, WAKE_LOCK_SUSPEND)
  BY <1>1, ReapEffect
<1>5. /\ n \in {-1} \cup 0..MaxTimeout
      /\ n = -1 => Permanent(a, WAKE_LOCK_SUSPEND) # {}
      /\ n # -1 => \A k \in ActiveLocks(a, WAKE_LOCK_SUSPEND) : a.left[k] <= n
  BY <1>1, <1>3, HasWakeLockAnswer
<1>6. Accounted(w) => b.preventing \subseteq
                        (IF main_wake_lock \in b.active THEN {}
                         ELSE ActiveLocks(b, WAKE_LOCK_SUSPEND))
  <2> SUFFICES ASSUME Accounted(w) PROVE Accounted(b)
    BY DEF Accounted
  <2>1. CASE main_wake_lock \in w.active
    <3>1. a.preventing = {}
      BY <1>1, <2>1 DEF Accounted
    <3>2. Accounted(a)
      BY <3>1 DEF Accounted
    <3> QED BY <1>1, <3>2, ReapAccounted
  <2>2. CASE main_wake_lock \notin w.active
    <3>1. Accounted(a)
      BY <1>1, <2>2 DEF Accounted, ActiveLocks
    <3> QED BY <1>1, <3>1, ReapAccounted
  <2> QED BY <2>1, <2>2
<1> HIDE DEF b
<1>7. /\ r \in LockStates /\ r.inited = b.inited /\ r.left = b.left
      /\ r.active = b.active /\ r.autoExpire = b.autoExpire
      /\ r.preventing \subseteq b.preventing \cup
            (IF l = main_wake_lock THEN ActiveLocks(b, WAKE_LOCK_SUSPEND) ELSE {})
  BY <1>2, <1>4, StatsEffect
<1>8. /\ ActiveLocks(r, WAKE_LOCK_SUSPEND) = ActiveLocks(b, WAKE_LOCK_SUSPEND)
      /\ Permanent(r, WAKE_LOCK_SUSPEND) = Permanent(b, WAKE_LOCK_SUSPEND)
      /\ ActiveLocks(b, WAKE_LOCK_SUSPEND) \subseteq ActiveLocks(a, WAKE_LOCK_SUSPEND)
  BY <1>4, <1>7 DEF ActiveLocks, Permanent
<1>9. Accounted(w) => Accounted(r)
  <2>1. l = main_wake_lock => main_wake_lock \notin r.active
    BY <1>1, <1>4, <1>7
  <2> QED BY <1>6, <1>7, <1>8, <2>1 DEF Accounted
<1> QED BY <1>1, <1>4, <1>5, <1>7, <1>8, <1>9 DEF r, n

\* Neither call does anything to suspend locks when it is for an idle lock.
LEMMA IdleCallEffect ==
    ASSUME NEW w \in LockStates, NEW l \in Locks,
           NEW h \in BOOLEAN, NEW t \in 0..MaxTimeout,
           LockType(l) # WAKE_LOCK_SUSPEND,
           NEW r \in {wake_lock_internal(w, l, h, t), wake_unlock(w, l)}
    PROVE  /\ r \in LockStates /\ r.inited = w.inited
           /\ r.active \subseteq w.active \cup {l}
           /\ ActiveLocks(r, WAKE_LOCK_SUSPEND) = ActiveLocks(w, WAKE_LOCK_SUSPEND)
           /\ Permanent(r, WAKE_LOCK_SUSPEND) = Permanent(w, WAKE_LOCK_SUSPEND)
           /\ \A k \in ActiveLocks(w, WAKE_LOCK_SUSPEND) : r.left[k] = w.left[k]
           /\ Accounted(w) => Accounted(r)
<1>1. l # main_wake_lock
  BY MainIsSuspend
<1>2. \A k \in ActiveLocks(w, WAKE_LOCK_SUSPEND) : k # l /\ k \in Locks
  BY DEF ActiveLocks, LockStates
<1>3. CASE r = wake_lock_internal(w, l, h, t)
  <2>1. r = Acquire(w, l, h, t)
    BY <1>3 DEF wake_lock_internal, Locked
  <2>2. r = Locked(w, l, h, t)
    BY <2>1 DEF Locked
  <2>3. /\ r \in LockStates /\ r.inited = w.inited /\ r.active = w.active \cup {l}
        /\ h => r.autoExpire = w.autoExpire \cup {l}
        /\ ~ h => r.autoExpire = w.autoExpire \ {l}
        /\ \A k \in Locks \ {l} : r.left[k] = w.left[k]
    BY <2>2, LockedEffect
  <2>4. Accounted(w) => Accounted(r)
    BY <2>2, LockedAccounted
  <2>5. w.left \in [Locks -> 0..MaxTimeout]
    BY DEF LockStates
  <2> QED BY <1>2, <2>3, <2>4, <2>5 DEF ActiveLocks, Permanent
<1>4. CASE r = wake_unlock(w, l)
  <2>1. r = Released(w, l)
    BY <1>4 DEF wake_unlock
  <2>2. /\ r \in LockStates /\ r.inited = w.inited /\ r.active = w.active \ {l}
        /\ r.autoExpire = w.autoExpire \ {l}
        /\ r.preventing = w.preventing \ {l}
        /\ \A k \in Locks \ {l} : r.left[k] = w.left[k]
    BY <2>1, ReleasedEffect
  <2>3. w.left \in [Locks -> 0..MaxTimeout]
    BY DEF LockStates
  <2> QED BY <1>1, <1>2, <2>2, <2>3 DEF ActiveLocks, Permanent, Accounted
<1> QED BY <1>3, <1>4

=============================================================================
