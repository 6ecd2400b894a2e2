------------------------- MODULE WakeLockList_proofs -------------------------
(***************************************************************************)
(* Proofs about WakeLockList, for every set of locks and every timeout:    *)
(* the lists match the flags, locks without a timeout come first, and the  *)
(* list code implements the set view of the locks, WakeLockSet.            *)
(***************************************************************************)
EXTENDS WakeLockList, WakeLockOps_proofs

-----------------------------------------------------------------------------
(* Lists *)

On(s) == {s[i] : i \in DOMAIN s}

\* The list s holds each lock of S once, ...
Listed(s, S) == s \in Seq(Locks) /\ IsInjective(s) /\ On(s) = S

\* ... and those of P behind the others.
Ordered(s, P) == \A i, j \in DOMAIN s : i < j /\ s[i] \in P => s[j] \in P

LEMMA Unlinked ==
    ASSUME NEW s, NEW S, Listed(s, S), NEW P, Ordered(s, P), NEW l,
           NEW q, q = RemoveFirst(s, l)
    PROVE  /\ Listed(q, S \ {l})
           /\ \A Q : (\A k \in S \ {l} : k \in Q <=> k \in P) => Ordered(q, Q)
<1>s. s \in Seq(Locks) /\ DOMAIN s = 1..Len(s) /\ On(s) = S /\ IsInjective(s)
  BY DEF Listed
<1>1. CASE l \notin S
  <2>1. q = s
    BY <1>1, <1>s DEF RemoveFirst, On
  <2>2. \A i \in DOMAIN s : s[i] \in S \ {l}
    BY <1>1, <1>s DEF On
  <2> QED BY <1>1, <2>1, <2>2 DEF Listed, Ordered
<1>2. CASE l \in S
  <2>1. l \in {s[i] : i \in 1..Len(s)}
    BY <1>2, <1>s DEF On
  <2>2. PICK k \in 1..Len(s) : s[k] = l /\ q = RemoveAt(s, k)
    BY <1>s, <2>1, RemoveFirstPlace
  <2>3. k \in 1..Len(s) /\ s[k] = l /\ q = RemoveAt(s, k)
    BY <2>2
  <2>4. /\ q \in Seq(Locks) /\ Len(q) = Len(s) - 1 /\ DOMAIN q = 1..Len(q)
        /\ \A i \in 1..Len(q) : q[i] = IF i < k THEN s[i] ELSE s[i + 1]
    <3>1. /\ q \in Seq(Locks) /\ Len(q) = Len(s) - 1
          /\ \A i \in 1..Len(q) : q[i] = IF i < k THEN s[i] ELSE s[i + 1]
      <4>1. s \in Seq(Locks) /\ k \in 1..Len(s) /\ q = RemoveAt(s, k)
        BY <1>s, <2>3
      <4> QED BY ONLY <4>1, RemoveElements, ZenonT(60)
    <3> QED BY <3>1
  <2> DEFINE Old(i) == IF i < k THEN i ELSE i + 1
  <2>5. /\ \A i \in 1..Len(q) : Old(i) \in 1..Len(s) /\ q[i] = s[Old(i)] /\ Old(i) # k
        /\ \A i, j \in 1..Len(q) : (Old(i) = Old(j) => i = j) /\ (i < j => Old(i) < Old(j))
    BY <1>s, <2>3, <2>4
  <2>6. ASSUME NEW m \in 1..Len(s), m # k PROVE \E i \in 1..Len(q) : q[i] = s[m]
    <3>1. CASE m < k
      <4>1. m \in 1..Len(q) /\ q[m] = s[m]
        BY <1>s, <2>3, <2>4, <3>1
      <4> QED BY <4>1
    <3>2. CASE m > k
      <4>1. m - 1 \in 1..Len(q) /\ ~ (m - 1 < k) /\ (m - 1) + 1 = m
        BY <1>s, <2>3, <2>4, <3>2
      <4> QED BY <2>4, <4>1
    <3> QED BY <2>6, <3>1, <3>2
  <2> HIDE DEF Old
  <2>7. IsInjective(q)
    BY <1>s, <2>4, <2>5, SMTT(30) DEF IsInjective
  <2>8. \A i \in 1..Len(q) : q[i] \in S \ {l}
    BY <1>s, <2>3, <2>5 DEF On, IsInjective
  <2>9. S \ {l} \subseteq On(q)
    <3> SUFFICES ASSUME NEW x \in S, x # l PROVE x \in On(q)
      OBVIOUS
    <3>1. PICK m \in 1..Len(s) : s[m] = x
      BY <1>s DEF On
    <3>2. PICK i \in 1..Len(q) : q[i] = s[m]
      BY <2>3, <2>6, <3>1
    <3> QED BY <2>4, <3>1, <3>2 DEF On
  <2>10. On(q) = S \ {l}
    BY <2>4, <2>8, <2>9 DEF On
  <2>11. ASSUME NEW Q, \A x \in S \ {l} : x \in Q <=> x \in P
         PROVE  Ordered(q, Q)
    <3> SUFFICES ASSUME NEW i \in 1..Len(q), NEW j \in 1..Len(q), i < j, q[i] \in Q
                 PROVE  q[j] \in Q
      BY <2>4 DEF Ordered
    <3>1. q[i] \in P
      BY <2>8, <2>11
    <3>2. /\ Old(i) \in 1..Len(s) /\ Old(j) \in 1..Len(s) /\ Old(i) < Old(j)
          /\ q[i] = s[Old(i)] /\ q[j] = s[Old(j)]
      BY <2>5
    <3>3. q[j] \in P
      BY <1>s, <3>1, <3>2 DEF Ordered
    <3> QED BY <2>8, <2>11, <3>3
  <2> QED BY <2>4, <2>7, <2>10, <2>11 DEF Listed
<1> QED BY <1>1, <1>2

LEMMA AtHead ==
    ASSUME NEW s, NEW S, Listed(s, S), NEW l \in Locks, l \notin S, NEW q, q = <<l>> \o s
    PROVE  /\ Listed(q, S \cup {l})
           /\ \A P : l \notin P /\ Ordered(s, P) => Ordered(q, P)
<1>s. s \in Seq(Locks) /\ DOMAIN s = 1..Len(s) /\ On(s) = S /\ IsInjective(s) /\ Len(s) \in Nat
  BY DEF Listed
<1>1. /\ q \in Seq(Locks) /\ Len(q) = Len(s) + 1 /\ DOMAIN q = 1..Len(q)
      /\ \A i \in 1..Len(q) : q[i] = IF i = 1 THEN l ELSE s[i - 1]
  BY <1>s
<1>2. \A i \in 1..Len(q) : i # 1 => i - 1 \in 1..Len(s)
  BY <1>s, <1>1
<1>3. IsInjective(q)
  <2> SUFFICES ASSUME NEW i \in 1..Len(q), NEW j \in 1..Len(q), q[i] = q[j] PROVE i = j
    BY <1>1 DEF IsInjective
  <2>1. CASE i = 1 /\ j = 1
    BY <2>1
  <2>2. CASE i # 1 /\ j # 1
    <3>1. s[i - 1] = s[j - 1] /\ i - 1 \in 1..Len(s) /\ j - 1 \in 1..Len(s)
      BY <1>1, <1>2, <2>2
    <3>2. i - 1 = j - 1
      BY <1>s, <3>1 DEF IsInjective
    <3> QED BY <3>2
  <2>3. CASE (i = 1 /\ j # 1) \/ (i # 1 /\ j = 1)
    <3>1. \A i0 \in 1..Len(q) : i0 # 1 => q[i0] \in S
      BY <1>s, <1>1, <1>2 DEF On
    <3> QED BY <1>1, <2>3, <3>1
  <2> QED BY <2>1, <2>2, <2>3
<1>4. On(q) = S \cup {l}
  <2>1. On(q) \subseteq S \cup {l}
    BY <1>s, <1>1, <1>2 DEF On
  <2>2. l \in On(q)
    <3>1. 1 \in DOMAIN q /\ q[1] = l
      BY <1>s, <1>1
    <3> QED BY <3>1 DEF On
  <2>3. ASSUME NEW i \in 1..Len(s) PROVE s[i] \in On(q)
    <3>1. i + 1 \in DOMAIN q /\ i + 1 # 1 /\ (i + 1) - 1 = i
      BY <1>s, <1>1
    <3>2. q[i + 1] = s[i]
      BY <1>1, <3>1
    <3> QED BY <3>1, <3>2 DEF On
  <2> QED BY <1>s, <2>1, <2>2, <2>3 DEF On
<1>5. ASSUME NEW P, l \notin P, Ordered(s, P) PROVE Ordered(q, P)
  <2> SUFFICES ASSUME NEW i \in 1..Len(q), NEW j \in 1..Len(q), i < j, q[i] \in P PROVE q[j] \in P
    BY <1>1 DEF Ordered
  <2>1. i # 1 /\ j # 1
    BY <1>1, <1>5
  <2>2. i - 1 \in 1..Len(s) /\ j - 1 \in 1..Len(s) /\ i - 1 < j - 1
    BY <1>2, <2>1
  <2>3. q[i] = s[i - 1] /\ q[j] = s[j - 1]
    BY <1>1, <2>1
  <2> QED BY <1>s, <1>5, <2>2, <2>3 DEF Ordered
<1> QED BY <1>1, <1>3, <1>4, <1>5 DEF Listed

LEMMA AtTail ==
    ASSUME NEW s, NEW S, Listed(s, S), NEW l \in Locks, l \notin S, NEW q, q = Append(s, l)
    PROVE  /\ Listed(q, S \cup {l})
           /\ \A P : l \in P /\ Ordered(s, P) => Ordered(q, P)
<1>s. s \in Seq(Locks) /\ DOMAIN s = 1..Len(s) /\ On(s) = S /\ IsInjective(s) /\ Len(s) \in Nat
  BY DEF Listed
<1>1. /\ q \in Seq(Locks) /\ Len(q) = Len(s) + 1 /\ DOMAIN q = 1..Len(q)
      /\ q[Len(s) + 1] = l /\ \A i \in 1..Len(s) : q[i] = s[i]
  BY <1>s
<1>2. /\ \A i \in 1..Len(q) : i = Len(s) + 1 \/ i \in 1..Len(s)
      /\ 1..Len(s) \subseteq DOMAIN q /\ Len(s) + 1 \in DOMAIN q
  BY <1>s, <1>1
<1>3. IsInjective(q)
  BY <1>s, <1>1, <1>2 DEF IsInjective, On
<1>4. On(q) = S \cup {l}
  <2>1. On(q) \subseteq S \cup {l}
    BY <1>s, <1>1, <1>2 DEF On
  <2>2. S \cup {l} \subseteq On(q)
    BY <1>s, <1>1, <1>2 DEF On
  <2> QED BY <2>1, <2>2
<1>5. ASSUME NEW P, l \in P, Ordered(s, P) PROVE Ordered(q, P)
  <2> SUFFICES ASSUME NEW i \in 1..Len(q), NEW j \in 1..Len(q), i < j, q[i] \in P PROVE q[j] \in P
    BY <1>1 DEF Ordered
  <2>1. CASE j = Len(s) + 1
    BY <1>1, <1>5, <2>1
  <2>2. CASE j # Len(s) + 1
    <3>1. i \in 1..Len(s) /\ j \in 1..Len(s)
      BY <1>s, <1>1, <2>2
    <3> QED BY <1>s, <1>1, <1>5, <3>1 DEF Ordered
  <2> QED BY <2>1, <2>2
<1> QED BY <1>1, <1>3, <1>4, <1>5 DEF Listed

-----------------------------------------------------------------------------
(* The locks and the lists as one value *)

DataTypes ==
    [flags : [Locks -> SUBSET Flags], left : [Locks -> 0..MaxTimeout],
     active : [LockTypes -> Seq(Locks)], inactive : Seq(Locks)]

FlagOf(d, f) == {l \in Locks : f \in d.flags[l]}
OfType(S, type) == {l \in S : LockType(l) = type}

\* The active lists hold A, those of P behind, and the inactive list holds I.
Lists(d, A, I, P) ==
    /\ \A type \in LockTypes :
          Listed(d.active[type], OfType(A, type)) /\ Ordered(d.active[type], P)
    /\ Listed(d.inactive, I)

\* The lists match the flags: the inductive invariant
Good(d) ==
    /\ d \in DataTypes
    /\ FlagOf(d, "ACTIVE") \subseteq FlagOf(d, "INITIALIZED")
    /\ Lists(d, FlagOf(d, "ACTIVE"), FlagOf(d, "INITIALIZED") \ FlagOf(d, "ACTIVE"),
             FlagOf(d, "AUTO_EXPIRE"))

\* New flags of one lock
LEMMA FlagsOf ==
    ASSUME NEW d \in DataTypes, NEW e, NEW l \in Locks, NEW F,
           e.flags = [d.flags EXCEPT ![l] = F]
    PROVE  \A f : /\ f \in F => FlagOf(e, f) = FlagOf(d, f) \cup {l}
                  /\ f \notin F => FlagOf(e, f) = FlagOf(d, f) \ {l}
BY DEF DataTypes, FlagOf

\* A lock is taken off the list that it is on.
LEMMA DelLists ==
    ASSUME NEW d \in DataTypes, NEW A, NEW I, NEW P, Lists(d, A, I, P), NEW l,
           NEW e, e = list_del(d, l), NEW Q, \A k \in A \ {l} : k \in Q <=> k \in P
    PROVE  /\ e \in DataTypes /\ e.flags = d.flags /\ e.left = d.left
           /\ Lists(e, A \ {l}, I \ {l}, Q)
<1> DEFINE a == [type \in LockTypes |-> RemoveFirst(d.active[type], l)]
           b == RemoveFirst(d.inactive, l)
<1>1. e = [d EXCEPT !.active = a, !.inactive = b]
  BY DEF list_del, DataTypes
<1>2. ASSUME NEW type \in LockTypes
      PROVE  Listed(a[type], OfType(A \ {l}, type)) /\ Ordered(a[type], Q)
  <2> DEFINE s == d.active[type]
             S == OfType(A, type)
             q == RemoveFirst(s, l)
  <2>1. Listed(s, S) /\ Ordered(s, P) /\ q = a[type]
    BY DEF Lists
  <2>2. (\A k \in S \ {l} : k \in Q <=> k \in P) /\ OfType(A \ {l}, type) = S \ {l}
    BY DEF OfType
  <2>3. q = RemoveFirst(s, l)
    OBVIOUS
  <2> HIDE DEF s, S, q
  <2>4. Listed(q, S \ {l}) /\ Ordered(q, Q)
    BY ONLY <2>1, <2>2, <2>3, Unlinked
  <2> QED BY <2>1, <2>2, <2>4
<1>3. Listed(b, I \ {l})
  <2> DEFINE s == d.inactive
  <2>1. Listed(s, I) /\ b = RemoveFirst(s, l) /\ Ordered(s, {})
    BY DEF Lists, Ordered
  <2> HIDE DEF s, b
  <2> QED BY ONLY <2>1, Unlinked
<1>4. a \in [LockTypes -> Seq(Locks)] /\ b \in Seq(Locks)
  <2>1. \A type \in LockTypes : a[type] \in Seq(Locks)
    BY <1>2 DEF Listed
  <2>2. b \in Seq(Locks)
    BY <1>3 DEF Listed
  <2> QED BY <2>1, <2>2
<1> HIDE DEF a, b
<1>5. /\ e \in DataTypes /\ e.flags = d.flags /\ e.left = d.left
      /\ e.active = a /\ e.inactive = b
  BY <1>1, <1>4 DEF DataTypes
<1> QED BY <1>2, <1>3, <1>5 DEF Lists

Cleared == {"ACTIVE", "AUTO_EXPIRE", "PREVENTING_SUSPEND"}

\* expire_wake_lock, of any initialised lock
LEMMA DeactivateEffect ==
    ASSUME NEW d, Good(d), NEW l \in FlagOf(d, "INITIALIZED"), NEW e, e = Deactivate(d, l)
    PROVE  /\ Good(e) /\ e.left = d.left
           /\ e.flags = [d.flags EXCEPT ![l] = @ \ Cleared]
<1>0. d \in DataTypes /\ l \in Locks
  BY DEF Good, FlagOf
<1> DEFINE x == list_del(d, l)
           A == FlagOf(d, "ACTIVE")
           N == FlagOf(d, "INITIALIZED")
           P == FlagOf(d, "AUTO_EXPIRE")
           F == d.flags[l] \ Cleared
           b == <<l>> \o x.inactive
<1>1. /\ x \in DataTypes /\ x.flags = d.flags /\ x.left = d.left
      /\ Lists(x, A \ {l}, (N \ A) \ {l}, P \ {l})
  <2>1. Lists(d, A, N \ A, P) /\ \A k \in A \ {l} : k \in P \ {l} <=> k \in P
    BY DEF Good
  <2>2. x = list_del(d, l)
    OBVIOUS
  <2> HIDE DEF A, N, P, x
  <2> QED BY ONLY <1>0, <2>1, <2>2, DelLists
<1>2. e = [x EXCEPT !.flags = [d.flags EXCEPT ![l] = F], !.inactive = b]
  <2>1. e = [x EXCEPT !.flags[l] = @ \ Cleared, !.inactive = <<l>> \o @]
    BY DEF Deactivate, Cleared
  <2> HIDE DEF x
  <2> QED BY <1>1, <2>1 DEF DataTypes
<1>3. Listed(b, ((N \ A) \ {l}) \cup {l})
  <2> DEFINE s == x.inactive
             S == (N \ A) \ {l}
  <2>1. Listed(s, S) /\ l \notin S /\ b = <<l>> \o s
    BY <1>1 DEF Lists
  <2> HIDE DEF s, S, b
  <2>2. Listed(b, S \cup {l})
    BY ONLY <1>0, <2>1, AtHead
  <2> QED BY <2>2 DEF S
<1>4. F \in SUBSET Flags /\ b \in Seq(Locks)
  BY <1>0, <1>3 DEF DataTypes, Listed
<1> HIDE DEF x, F, b
<1>5. /\ e \in DataTypes /\ e.flags = [d.flags EXCEPT ![l] = F] /\ e.left = d.left
      /\ e.active = x.active /\ e.inactive = b
  <2> DEFINE G == [d.flags EXCEPT ![l] = F]
  <2>1. G \in [Locks -> SUBSET Flags]
    BY <1>0, <1>4 DEF DataTypes
  <2> HIDE DEF G
  <2>2. e = [x EXCEPT !.flags = G, !.inactive = b]
    BY <1>2 DEF G
  <2>3. e \in DataTypes /\ e.flags = G /\ e.left = x.left /\ e.active = x.active /\ e.inactive = b
    BY <1>1, <1>4, <2>1, <2>2 DEF DataTypes
  <2> QED BY <1>1, <2>3 DEF G
<1>6. "INITIALIZED" \in F /\ \A f \in Cleared : f \notin F
  BY <1>0 DEF F, FlagOf, Cleared
<1>7. /\ FlagOf(e, "ACTIVE") = A \ {l} /\ FlagOf(e, "AUTO_EXPIRE") = P \ {l}
      /\ FlagOf(e, "INITIALIZED") = N
  <2>1. \A f : /\ f \in F => FlagOf(e, f) = FlagOf(d, f) \cup {l}
               /\ f \notin F => FlagOf(e, f) = FlagOf(d, f) \ {l}
    BY <1>0, <1>5, FlagsOf
  <2>2. "INITIALIZED" \in F /\ "ACTIVE" \notin F /\ "AUTO_EXPIRE" \notin F
    BY <1>6 DEF Cleared
  <2>3. FlagOf(e, "INITIALIZED") = N \cup {l}
    BY <2>1, <2>2
  <2>4. FlagOf(e, "ACTIVE") = A \ {l} /\ FlagOf(e, "AUTO_EXPIRE") = P \ {l}
    BY <2>1, <2>2
  <2> QED BY <2>3, <2>4
<1>8. A \subseteq N /\ N \ (A \ {l}) = ((N \ A) \ {l}) \cup {l}
  BY DEF Good
<1>9. Lists(e, A \ {l}, N \ (A \ {l}), P \ {l})
  BY <1>1, <1>3, <1>5, <1>8 DEF Lists
<1>10. Good(e)
  BY <1>5, <1>7, <1>8, <1>9 DEF Good
<1> QED BY <1>5, <1>10 DEF F

-----------------------------------------------------------------------------
(* The loop of has_wake_lock_locked *)

\* g is what the loop has made of d after each of its first n turns.
Partial(d, list, n, g) ==
    /\ DOMAIN g = 0..n /\ g[0] = d
    /\ \A k \in 1..n : g[k] = Visit(d, g[k - 1], list[k])

LEMMA PartialExists ==
    ASSUME NEW d, NEW S, NEW list \in Seq(S), NEW n \in Nat
    PROVE  \E g : Partial(d, list, n, g)
<1> DEFINE Bad == {m \in Nat : ~ \E g : Partial(d, list, m, g)}
<1>1. SUFFICES ASSUME Bad # {} PROVE FALSE
  OBVIOUS
<1>2. PICK m \in Bad : \A y \in Bad : m <= y
  BY <1>1, NatMin
<1>3. CASE m = 0
  <2>1. Partial(d, list, 0, [k \in 0..0 |-> d])
    BY DEF Partial
  <2> QED BY <1>3, <2>1
<1>4. CASE m > 0
  <2>1. m - 1 \in Nat /\ m - 1 \notin Bad
    BY <1>2, <1>4
  <2>2. PICK g : Partial(d, list, m - 1, g)
    BY <2>1
  <2> DEFINE h == [k \in 0..m |-> IF k = m THEN Visit(d, g[m - 1], list[m]) ELSE g[k]]
  <2>3. DOMAIN h = 0..m /\ h[0] = d
    BY <1>4, <2>2 DEF Partial
  <2>4. ASSUME NEW k \in 1..m PROVE h[k] = Visit(d, h[k - 1], list[k])
    <3>1. h[k - 1] = g[k - 1]
      OBVIOUS
    <3>2. CASE k = m
      BY <3>1, <3>2
    <3>3. CASE k # m
      <4>1. k \in 1..(m - 1) /\ h[k] = g[k]
        BY <3>3
      <4> QED BY <2>2, <3>1, <4>1 DEF Partial
    <3> QED BY <3>2, <3>3
  <2>5. Partial(d, list, m, h)
    BY <2>3, <2>4 DEF Partial
  <2> QED BY <2>5
<1> QED BY <1>2, <1>3, <1>4

LEMMA WalkPartial ==
    ASSUME NEW d, NEW S, NEW list \in Seq(S)
    PROVE  \E g : Partial(d, list, Len(list), g) /\ Walk(d, list) = g[Len(list)]
<1> DEFINE N == Len(list)
           Eq(f) == f = [n \in 0..N |-> IF n = 0 THEN d ELSE Visit(d, f[n - 1], list[n])]
           a == CHOOSE f : Eq(f)
<1>1. N \in Nat
  OBVIOUS
<1>2. PICK g : Partial(d, list, N, g)
  BY <1>1, PartialExists
<1> HIDE DEF N
<1>3. \E f : Eq(f)
  <2> DEFINE f == [n \in 0..N |-> g[n]]
  <2>1. \A n \in 0..N : f[n] = IF n = 0 THEN d ELSE Visit(d, f[n - 1], list[n])
    <3> SUFFICES ASSUME NEW n \in 0..N
                 PROVE  g[n] = IF n = 0 THEN d ELSE Visit(d, f[n - 1], list[n])
      OBVIOUS
    <3>1. CASE n = 0
      BY <1>2, <3>1 DEF Partial
    <3>2. CASE n # 0
      <4>1. n \in 1..N /\ f[n - 1] = g[n - 1]
        BY <1>1, <3>2
      <4> QED BY <1>2, <4>1, <3>2 DEF Partial
    <3> QED BY <3>1, <3>2
  <2>2. Eq(f)
    BY <2>1
  <2> QED BY <2>2
<1>4. Eq(a)
  BY <1>3, Zenon
<1>5. Walk(d, list) = a[N]
  BY DEF Walk, N
<1> HIDE DEF a
<1>6. Partial(d, list, N, a)
  <2>1. DOMAIN a = 0..N
    BY <1>4
  <2>2. a[0] = d
    BY <1>1, <1>4
  <2>3. \A k \in 1..N : a[k] = Visit(d, a[k - 1], list[k])
    BY <1>1, <1>4
  <2> QED BY <2>1, <2>2, <2>3 DEF Partial
<1> QED BY <1>5, <1>6 DEF N

\* What the flags become when the locks of S have been looked at
After(d, S, l) == IF l \in S /\ OutOfTime(d, l) THEN d.flags[l] \ Cleared ELSE d.flags[l]

LEMMA WalkEffect ==
    ASSUME NEW d, Good(d), NEW list \in Seq(Locks), IsInjective(list),
           On(list) \subseteq FlagOf(d, "ACTIVE"), NEW e, e = Walk(d, list)
    PROVE  /\ Good(e) /\ e.left = d.left
           /\ \A l \in Locks : e.flags[l] = After(d, On(list), l)
<1>1. PICK g : Partial(d, list, Len(list), g) /\ e = g[Len(list)]
  BY WalkPartial
<1> DEFINE N == Len(list)
           Seen(n) == {list[k] : k \in 1..n}
           Ok(n) == /\ Good(g[n]) /\ g[n].left = d.left
                    /\ \A l \in Locks : g[n].flags[l] = After(d, Seen(n), l)
           Bad == {n \in 0..N : ~ Ok(n)}
<1>2. N \in Nat /\ DOMAIN list = 1..N /\ \A k \in 1..N : list[k] \in Locks
  OBVIOUS
<1>3. g[0] = d /\ \A k \in 1..N : g[k] = Visit(d, g[k - 1], list[k])
  BY <1>1 DEF Partial
<1> HIDE DEF N
<1>4. Bad = {}
  <2> SUFFICES ASSUME Bad # {} PROVE FALSE
    OBVIOUS
  <2>1. PICK m \in Bad : \A y \in Bad : m <= y
    <3>1. Bad \subseteq Nat
      BY <1>2
    <3> HIDE DEF Bad
    <3> QED BY <3>1, NatMin
  <2>2. m \in 0..N /\ ~ Ok(m)
    BY <2>1
  <2>3. CASE m = 0
    <3>1. Seen(0) = {}
      OBVIOUS
    <3>2. \A l \in Locks : After(d, Seen(0), l) = d.flags[l]
      BY <3>1 DEF After
    <3>3. Ok(0)
      BY <1>3, <3>2
    <3> HIDE DEF Ok
    <3> QED BY <2>2, <2>3, <3>3
  <2>4. CASE m # 0
    <3> DEFINE p == m - 1
               l == list[m]
               x == g[p]
    <3>1. p \in 0..N /\ m \in 1..N /\ p \notin Bad
      BY <1>2, <2>1, <2>2, <2>4
    <3>2. Ok(p)
      <4> HIDE DEF Ok, p
      <4> QED BY <3>1
    <3>3. g[m] = Visit(d, x, l) /\ l \in Locks
      BY <1>2, <1>3, <3>1
    <3>4. Seen(m) = Seen(p) \cup {l} /\ l \notin Seen(p)
      <4>1. 1..m = (1..p) \cup {m} /\ m \notin 1..p /\ 1..p \subseteq 1..N
        BY <1>2, <3>1
      <4>2. Seen(m) = Seen(p) \cup {l}
        <5> HIDE DEF p
        <5> QED BY <4>1
      <4>3. l \notin Seen(p)
        <5> HIDE DEF p
        <5> QED BY <1>2, <3>1, <4>1 DEF IsInjective
      <4> QED BY <4>2, <4>3
    <3>5. x.flags[l] = d.flags[l]
      BY <3>2, <3>3, <3>4 DEF After
    <3>6. CASE OutOfTime(d, l)
      <4>1. g[m] = Deactivate(x, l)
        BY <3>3, <3>6 DEF Visit
      <4>2. l \in FlagOf(x, "INITIALIZED")
        <5>1. l \in On(list)
          BY <1>2, <3>1 DEF On
        <5>2. "INITIALIZED" \in d.flags[l]
          BY <5>1 DEF Good, FlagOf
        <5> QED BY <3>3, <3>5, <5>2 DEF FlagOf
      <4>3. /\ Good(g[m]) /\ g[m].left = x.left
            /\ g[m].flags = [x.flags EXCEPT ![l] = @ \ Cleared]
        <5>1. Good(x)
          BY <3>2
        <5> HIDE DEF x, l, Ok
        <5> QED BY <4>1, <4>2, <5>1, DeactivateEffect
      <4>4. x.flags \in [Locks -> SUBSET Flags]
        BY <3>2 DEF Good, DataTypes
      <4>5. \A k \in Locks : g[m].flags[k] = After(d, Seen(m), k)
        <5> SUFFICES ASSUME NEW k \in Locks PROVE g[m].flags[k] = After(d, Seen(m), k)
          OBVIOUS
        <5>1. x.flags[k] = After(d, Seen(p), k)
          BY <3>2
        <5> HIDE DEF x, l, Ok, Seen
        <5>2. CASE k = l
          BY <3>3, <3>4, <3>5, <3>6, <4>3, <4>4, <5>2 DEF After
        <5>3. CASE k # l
          BY <3>3, <3>4, <4>3, <4>4, <5>1, <5>3 DEF After
        <5> QED BY <5>2, <5>3
      <4>6. Ok(m)
        BY <3>2, <4>3, <4>5
      <4> QED BY <2>2, <4>6
    <3>7. CASE ~ OutOfTime(d, l)
      <4>1. g[m] = x
        BY <3>3, <3>7 DEF Visit
      <4>2. \A k \in Locks : After(d, Seen(m), k) = After(d, Seen(p), k)
        <5> HIDE DEF Seen, l
        <5> QED BY <3>4, <3>7 DEF After
      <4>3. Ok(m)
        BY <3>2, <4>1, <4>2
      <4> QED BY <2>2, <4>3
    <3> QED BY <3>6, <3>7
  <2> QED BY <2>3, <2>4
<1>5. Ok(N)
  <2>1. N \in 0..N /\ N \notin Bad
    BY <1>2, <1>4
  <2> HIDE DEF Ok
  <2> QED BY <2>1
<1>6. Seen(N) = On(list)
  BY <1>2 DEF On
<1>7. e = g[N]
  BY <1>1 DEF N
<1> QED BY <1>5, <1>6, <1>7

-----------------------------------------------------------------------------
(* What the flags stand for in the set view *)

View(d) == [inited     |-> FlagOf(d, "INITIALIZED"),
            active     |-> FlagOf(d, "ACTIVE"),
            autoExpire |-> FlagOf(d, "AUTO_EXPIRE"),
            preventing |-> FlagOf(d, "PREVENTING_SUSPEND"),
            left       |-> d.left]

LEMMA ViewTypes ==
    ASSUME NEW d \in DataTypes
    PROVE  View(d) \in LockStates
BY DEF DataTypes, View, FlagOf, LockStates

LEMMA ViewIs ==
    ASSUME NEW d, NEW w \in LockStates,
           w.inited = FlagOf(d, "INITIALIZED"), w.active = FlagOf(d, "ACTIVE"),
           w.autoExpire = FlagOf(d, "AUTO_EXPIRE"),
           w.preventing = FlagOf(d, "PREVENTING_SUSPEND"), w.left = d.left
    PROVE  View(d) = w
BY DEF View, LockStates

LEMMA ViewOf ==
    ASSUME NEW d
    PROVE  /\ \A type : ActiveLocks(View(d), type) = OfType(FlagOf(d, "ACTIVE"), type)
           /\ \A l \in Locks : Expired(View(d), l) <=> OutOfTime(d, l)
           /\ \A type : Permanent(View(d), type) =
                 OfType(FlagOf(d, "ACTIVE"), type) \ FlagOf(d, "AUTO_EXPIRE")
BY DEF View, ActiveLocks, OfType, Expired, OutOfTime, Has, FlagOf, Permanent

\* Locks without a timeout are in front: the loop meets one at once or never.
LEMMA ReachedAll ==
    ASSUME NEW d, Good(d), NEW type \in LockTypes
    PROVE  /\ Permanent(View(d), type) # {} =>
                 Reached(d, type) = <<>> /\ Reached(d, type) # d.active[type]
           /\ Permanent(View(d), type) = {} => Reached(d, type) = d.active[type]
<1> DEFINE list == d.active[type]
           P == FlagOf(d, "AUTO_EXPIRE")
           I == {i \in 1..Len(list) : ~ Has(d, list[i], "AUTO_EXPIRE")}
           first == IF I # {} THEN Min(I) ELSE 0
<1>1. Reached(d, type) = IF first = 0 THEN list ELSE SubSeq(list, 1, first - 1)
  BY DEF Reached, SelectInSeq
<1>2. /\ list \in Seq(Locks) /\ DOMAIN list = 1..Len(list) /\ Len(list) \in Nat
      /\ On(list) = OfType(FlagOf(d, "ACTIVE"), type) /\ Ordered(list, P)
  BY DEF Good, Lists, Listed
<1>3. \A i \in 1..Len(list) : i \in I <=> list[i] \notin P
  BY <1>2 DEF Has, FlagOf
<1>4. Permanent(View(d), type) = On(list) \ P
  BY <1>2, ViewOf
<1> HIDE DEF list, P
<1>5. I # {} <=> On(list) \ P # {}
  BY <1>2, <1>3 DEF On
<1>6. CASE I = {}
  BY <1>1, <1>4, <1>5, <1>6 DEF list
<1>7. CASE I # {}
  <2>1. I \subseteq 1..Len(list) /\ I \subseteq Nat
    BY <1>2
  <2> DEFINE m == Min(I)
  <2>2. m \in I /\ \A y \in I : m <= y
    <3> HIDE DEF I
    <3> QED BY <1>7, <2>1, NatMin
  <2>3. m = 1
    <3>1. m \in 1..Len(list) /\ list[m] \notin P
      BY <1>3, <2>1, <2>2
    <3>2. CASE m # 1
      <4>1. 1 \in 1..Len(list) /\ 1 < m
        BY <1>2, <3>1, <3>2
      <4>2. list[1] \notin P
        BY <1>2, <3>1, <4>1 DEF Ordered
      <4>3. 1 \in I
        BY <1>3, <4>1, <4>2
      <4> QED BY <2>2, <4>1, <4>3
    <3> QED BY <3>2
  <2>4. first = 1 /\ Len(list) # 0
    BY <1>2, <1>7, <2>1, <2>2, <2>3
  <2> HIDE DEF first, I, m
  <2>5. Reached(d, type) = SubSeq(list, 1, 0)
    BY <1>1, <2>4
  <2>6. SubSeq(list, 1, 0) = <<>> /\ list # <<>>
    BY <1>2, <2>4
  <2> QED BY <1>4, <1>5, <1>7, <2>5, <2>6 DEF list
<1> QED BY <1>6, <1>7

\* has_wake_lock_locked answers and expires as the set view has it.
LEMMA LoopEffect ==
    ASSUME NEW d, Good(d), NEW type \in LockTypes, NEW e, e = AfterLoop(d, type)
    PROVE  /\ Good(e) /\ View(e) = Reap(View(d), type)
           /\ has_wake_lock_locked(d, type) = HasWakeLock(View(d), type)
<1> DEFINE list == d.active[type]
           w == View(d)
           A == OfType(FlagOf(d, "ACTIVE"), type)
<1>0. /\ d \in DataTypes /\ w \in LockStates /\ list \in Seq(Locks) /\ IsInjective(list)
      /\ On(list) = A /\ ActiveLocks(w, type) = A
  BY ViewTypes, ViewOf DEF Good, Lists, Listed
<1>1. CASE Permanent(w, type) # {}
  <2>1. Reached(d, type) = <<>> /\ Reached(d, type) # d.active[type]
    BY <1>1, ReachedAll
  <2>2. e = Walk(d, <<>>)
    BY <2>1 DEF AfterLoop
  <2>3. e = d
    <3>1. <<>> \in Seq(Locks) /\ Len(<<>>) = 0
      OBVIOUS
    <3>2. PICK g : Partial(d, <<>>, 0, g) /\ Walk(d, <<>>) = g[0]
      BY <3>1, WalkPartial
    <3> QED BY <2>2, <3>2 DEF Partial
  <2> QED BY <1>1, <2>1, <2>3 DEF Reap, HasWakeLock, has_wake_lock_locked
<1>2. CASE Permanent(w, type) = {}
  <2>1. Reached(d, type) = list
    BY <1>2, ReachedAll
  <2>2. e = Walk(d, list)
    BY <2>1 DEF AfterLoop
  <2>3. /\ Good(e) /\ e.left = d.left
        /\ \A l \in Locks : e.flags[l] = After(d, On(list), l)
    <3>1. On(list) \subseteq FlagOf(d, "ACTIVE")
      BY <1>0 DEF OfType
    <3>2. list \in Seq(Locks) /\ IsInjective(list) /\ Good(d)
      BY <1>0
    <3> HIDE DEF list
    <3> QED BY ONLY <2>2, <3>1, <3>2, WalkEffect
  <2> DEFINE D == {l \in A : Expired(w, l)}
             v == expire_wake_lock(w, D)
  <2>4. Reap(w, type) = v
    BY <1>0, <1>2 DEF Reap
  <2>5. /\ v \in LockStates /\ v.inited = w.inited /\ v.left = w.left
        /\ v.active = w.active \ D /\ v.autoExpire = w.autoExpire \ D
        /\ v.preventing = w.preventing \ D
    BY <1>0 DEF expire_wake_lock, LockStates
  <2>6. /\ w.inited = FlagOf(d, "INITIALIZED") /\ w.active = FlagOf(d, "ACTIVE")
        /\ w.autoExpire = FlagOf(d, "AUTO_EXPIRE") /\ w.left = d.left
        /\ w.preventing = FlagOf(d, "PREVENTING_SUSPEND")
    BY DEF View
  <2>7. \A l \in Locks : e.flags[l] = IF l \in D THEN d.flags[l] \ Cleared ELSE d.flags[l]
    <3>1. \A l \in Locks : l \in D <=> l \in On(list) /\ OutOfTime(d, l)
      BY <1>0, ViewOf
    <3> HIDE DEF D, list
    <3> QED BY <2>3, <3>1 DEF After
  <2>8. /\ FlagOf(e, "INITIALIZED") = FlagOf(d, "INITIALIZED")
        /\ \A f \in Cleared : FlagOf(e, f) = FlagOf(d, f) \ D
    <3> HIDE DEF D
    <3>1. "INITIALIZED" \notin Cleared
      BY DEF Cleared
    <3> QED BY <2>7, <3>1 DEF FlagOf
  <2>9. View(e) = v
    <3>1. "ACTIVE" \in Cleared /\ "AUTO_EXPIRE" \in Cleared /\ "PREVENTING_SUSPEND" \in Cleared
      BY DEF Cleared
    <3>2. /\ v \in LockStates
          /\ v.inited = FlagOf(e, "INITIALIZED") /\ v.active = FlagOf(e, "ACTIVE")
          /\ v.autoExpire = FlagOf(e, "AUTO_EXPIRE")
          /\ v.preventing = FlagOf(e, "PREVENTING_SUSPEND") /\ v.left = e.left
      BY <2>3, <2>5, <2>6, <2>8, <3>1
    <3> HIDE DEF v
    <3> QED BY ONLY <3>2, ViewIs
  <2>10. has_wake_lock_locked(d, type) = HasWakeLock(w, type)
    <3>1. ToSet(list) = A
      BY <1>0 DEF ToSet, On
    <3>2. has_wake_lock_locked(d, type) = Max({0} \cup {d.left[l] : l \in A})
      BY <2>1, <3>1 DEF has_wake_lock_locked
    <3>3. HasWakeLock(w, type) = Max({0} \cup {w.left[l] : l \in A})
      BY <1>0, <1>2 DEF HasWakeLock
    <3> QED BY <2>6, <3>2, <3>3
  <2> QED BY <2>3, <2>4, <2>9, <2>10
<1> QED BY <1>1, <1>2

-----------------------------------------------------------------------------
(* The calls *)

\* Neither the times nor PREVENTING_SUSPEND matter to the lists.
LEMMA SameLists ==
    ASSUME NEW d, Good(d), NEW e \in DataTypes,
           e.active = d.active, e.inactive = d.inactive,
           \A f \in {"INITIALIZED", "ACTIVE", "AUTO_EXPIRE"} : FlagOf(e, f) = FlagOf(d, f)
    PROVE  Good(e)
BY DEF Good, Lists

LEMMA StatsList ==
    ASSUME NEW d, Good(d), NEW done \in BOOLEAN,
           NEW e, e = update_sleep_wait_stats_locked(d, done)
    PROVE  Good(e) /\ View(e) = update_sleep_wait_stats(View(d), done)
<1> DEFINE A == OfType(FlagOf(d, "ACTIVE"), WAKE_LOCK_SUSPEND)
           w == View(d)
           F == [l \in Locks |->
                   IF l \notin A THEN d.flags[l]
                   ELSE IF done \/ OutOfTime(d, l) THEN d.flags[l] \ {"PREVENTING_SUSPEND"}
                   ELSE d.flags[l] \cup {"PREVENTING_SUSPEND"}]
<1>0. d \in DataTypes /\ w \in LockStates
  BY ViewTypes DEF Good
<1>1. ToSet(d.active[WAKE_LOCK_SUSPEND]) = A
  BY DEF Good, Lists, Listed, LockTypes, ToSet, On
<1> HIDE DEF A
<1>2. e = [d EXCEPT !.flags = F]
  BY <1>0, <1>1 DEF update_sleep_wait_stats_locked, DataTypes
<1>3. F \in [Locks -> SUBSET Flags]
  <2> SUFFICES ASSUME NEW l \in Locks PROVE F[l] \in SUBSET Flags
    OBVIOUS
  <2> QED BY <1>0 DEF DataTypes, Flags
<1>4. /\ \A l \in Locks, f \in {"INITIALIZED", "ACTIVE", "AUTO_EXPIRE"} :
            f \in F[l] <=> f \in d.flags[l]
      /\ \A l \in Locks : "PREVENTING_SUSPEND" \in F[l] <=>
            IF l \in A THEN ~ (done \/ OutOfTime(d, l)) ELSE "PREVENTING_SUSPEND" \in d.flags[l]
  OBVIOUS
<1> HIDE DEF F
<1>5. /\ e \in DataTypes /\ e.flags = F /\ e.left = d.left
      /\ e.active = d.active /\ e.inactive = d.inactive
  BY <1>0, <1>2, <1>3 DEF DataTypes
<1>6. \A f \in {"INITIALIZED", "ACTIVE", "AUTO_EXPIRE"} : FlagOf(e, f) = FlagOf(d, f)
  BY <1>4, <1>5 DEF FlagOf
<1>7. Good(e)
  BY <1>5, <1>6, SameLists
<1> DEFINE v == update_sleep_wait_stats(w, done)
           G == IF done THEN w.preventing \ A
                ELSE (w.preventing \ A) \cup {l \in A : ~ Expired(w, l)}
<1>8. ActiveLocks(w, WAKE_LOCK_SUSPEND) = A /\ A \subseteq Locks
  BY ViewOf DEF A, OfType, FlagOf
<1>9. /\ v \in LockStates /\ v.inited = w.inited /\ v.active = w.active
      /\ v.autoExpire = w.autoExpire /\ v.preventing = G /\ v.left = w.left
  BY <1>0, <1>8 DEF update_sleep_wait_stats, LockStates
<1>10. G = FlagOf(e, "PREVENTING_SUSPEND")
  <2>1. w.preventing = FlagOf(d, "PREVENTING_SUSPEND")
    BY DEF View
  <2>2. \A l \in Locks : Expired(w, l) <=> OutOfTime(d, l)
    BY ViewOf
  <2> HIDE DEF w
  <2> QED BY <1>4, <1>5, <1>8, <2>1, <2>2 DEF FlagOf
<1>11. /\ w.inited = FlagOf(d, "INITIALIZED") /\ w.active = FlagOf(d, "ACTIVE")
       /\ w.autoExpire = FlagOf(d, "AUTO_EXPIRE") /\ w.left = d.left
  BY DEF View
<1> HIDE DEF v, G
<1>12. View(e) = v
  BY <1>5, <1>6, <1>9, <1>10, <1>11, ViewIs
<1> QED BY <1>7, <1>12 DEF v

\* The lock of wake_unlock
Freed(d, l) == [Deactivate(d, l) EXCEPT !.left[l] = 0]

LEMMA ReleaseList ==
    ASSUME NEW d, Good(d), NEW l \in FlagOf(d, "INITIALIZED"), NEW e, e = Freed(d, l)
    PROVE  Good(e) /\ View(e) = Released(View(d), l)
<1> DEFINE x == Deactivate(d, l)
           w == View(d)
<1>0. d \in DataTypes /\ w \in LockStates /\ l \in Locks
  BY ViewTypes DEF Good, FlagOf
<1>1. Good(x) /\ x.left = d.left /\ x.flags = [d.flags EXCEPT ![l] = @ \ Cleared]
  BY DeactivateEffect
<1>2. x \in DataTypes
  BY <1>1 DEF Good
<1> DEFINE Z == [d.left EXCEPT ![l] = 0]
<1>z. Z \in [Locks -> 0..MaxTimeout]
  BY <1>0, LockAssumption DEF DataTypes
<1>3. e = [x EXCEPT !.left = Z]
  <2>1. e = [x EXCEPT !.left = [x.left EXCEPT ![l] = 0]]
    BY Zenon DEF Freed
  <2> QED BY <1>1, <2>1, Zenon
<1> HIDE DEF x, Z
<1>4. /\ e \in DataTypes /\ e.flags = x.flags /\ e.active = x.active /\ e.inactive = x.inactive
      /\ e.left = Z
  BY <1>2, <1>3, <1>z DEF DataTypes
<1>5. \A f : FlagOf(e, f) = FlagOf(x, f)
  BY <1>4 DEF FlagOf
<1>6. Good(e)
  BY <1>1, <1>4, <1>5, SameLists
<1>7. /\ FlagOf(x, "INITIALIZED") = FlagOf(d, "INITIALIZED")
      /\ \A f \in Cleared : FlagOf(x, f) = FlagOf(d, f) \ {l}
  <2>1. \A k \in Locks : x.flags[k] = IF k = l THEN d.flags[k] \ Cleared ELSE d.flags[k]
    BY <1>0, <1>1 DEF DataTypes
  <2>2. "INITIALIZED" \notin Cleared
    BY DEF Cleared
  <2> QED BY <2>1, <2>2 DEF FlagOf
<1> DEFINE v == Released(w, l)
<1>8. /\ v \in LockStates /\ v.inited = w.inited /\ v.active = w.active \ {l}
      /\ v.autoExpire = w.autoExpire \ {l} /\ v.preventing = w.preventing \ {l}
      /\ v.left = Z
  <2>1. w.left = d.left
    BY DEF View
  <2> HIDE DEF w
  <2> QED BY <1>0, <1>z, <2>1 DEF Released, expire_wake_lock, LockStates, Z
<1>9. /\ w.inited = FlagOf(d, "INITIALIZED") /\ w.active = FlagOf(d, "ACTIVE")
      /\ w.autoExpire = FlagOf(d, "AUTO_EXPIRE") /\ w.left = d.left
      /\ w.preventing = FlagOf(d, "PREVENTING_SUSPEND")
  BY DEF View
<1>10. {"ACTIVE", "AUTO_EXPIRE", "PREVENTING_SUSPEND"} \subseteq Cleared
  BY DEF Cleared
<1> HIDE DEF v, w
<1>11. View(e) = v
  <2>1. /\ v.inited = FlagOf(e, "INITIALIZED") /\ v.active = FlagOf(e, "ACTIVE")
        /\ v.autoExpire = FlagOf(e, "AUTO_EXPIRE")
        /\ v.preventing = FlagOf(e, "PREVENTING_SUSPEND") /\ v.left = e.left
    BY <1>4, <1>5, <1>7, <1>8, <1>9, <1>10
  <2> QED BY <1>8, <2>1, ViewIs
<1> QED BY <1>6, <1>11 DEF v, w

\* The lock goes to the head of its list, or to the tail with a timeout.
LEMMA LinkList ==
    ASSUME NEW s, NEW S, Listed(s, S), NEW l \in Locks, l \notin S, NEW P, Ordered(s, P),
           NEW h \in BOOLEAN, h <=> l \in P, NEW q, q = Link(s, l, h)
    PROVE  Listed(q, S \cup {l}) /\ Ordered(q, P)
<1>1. CASE h
  <2>1. q = Append(s, l)
    BY <1>1 DEF Link
  <2> QED BY <1>1, <2>1, AtTail
<1>2. CASE ~ h
  <2>1. q = <<l>> \o s
    BY <1>2 DEF Link
  <2> QED BY <1>2, <2>1, AtHead
<1> QED BY <1>1, <1>2

LEMMA AcquireEffect ==
    ASSUME Good(Data), NEW l \in FlagOf(Data, "INITIALIZED"),
           NEW h \in BOOLEAN, NEW t \in 0..MaxTimeout, NEW e, e = AcquireList(l, h, t)
    PROVE  Good(e) /\ View(e) = Acquire(View(Data), l, h, t)
<1> DEFINE d == Data
           x == list_del(d, l)
           w == View(d)
           A == FlagOf(d, "ACTIVE")
           N == FlagOf(d, "INITIALIZED")
           P == FlagOf(d, "AUTO_EXPIRE")
           R == FlagOf(d, "PREVENTING_SUSPEND")
           Q == IF h THEN P \cup {l} ELSE P \ {l}
           f == IF OutOfTime(d, l) THEN d.flags[l] \ {"PREVENTING_SUSPEND"} ELSE d.flags[l]
           F == (f \ {"AUTO_EXPIRE"}) \cup {"ACTIVE"} \cup (IF h THEN {"AUTO_EXPIRE"} ELSE {})
           z == IF h THEN t ELSE 0
           Z == [d.left EXCEPT ![l] = z]
           G == [d.flags EXCEPT ![l] = F]
           k == LockType(l)
           s == x.active[k]
           q == Link(s, l, h)
           B == [x.active EXCEPT ![k] = q]
<1>0. d \in DataTypes /\ w \in LockStates /\ l \in Locks /\ k \in LockTypes /\ A \subseteq N
  BY ViewTypes DEF Good, FlagOf, LockType, LockTypes
<1>1. /\ x \in DataTypes /\ x.flags = d.flags /\ x.left = d.left
      /\ Lists(x, A \ {l}, (N \ A) \ {l}, Q)
  <2>1. Lists(d, A, N \ A, P)
    BY DEF Good
  <2>2. \A m \in A \ {l} : m \in Q <=> m \in P
    OBVIOUS
  <2> HIDE DEF d, A, N, P, Q
  <2> QED BY <1>0, <2>1, <2>2, DelLists
<1>2. d.flags = flags /\ d.left = left
  BY DEF Data
<1>3. e = [x EXCEPT !.flags[l] = F, !.left[l] = z, !.active[k] = q]
  BY <1>2, Zenon DEF AcquireList
<1> HIDE DEF d
<1>4. F \in SUBSET Flags /\ "INITIALIZED" \in F /\ "ACTIVE" \in F /\ ("AUTO_EXPIRE" \in F <=> h)
  <2>1. d.flags[l] \in SUBSET Flags /\ "INITIALIZED" \in d.flags[l]
    BY <1>0 DEF DataTypes, FlagOf, d
  <2>2. {"ACTIVE", "AUTO_EXPIRE"} \subseteq Flags
    BY DEF Flags
  <2> QED BY <2>1, <2>2
<1>5. "PREVENTING_SUSPEND" \in F <=> l \in R /\ ~ OutOfTime(d, l)
  BY <1>0 DEF FlagOf
<1>6. Listed(q, OfType(A \ {l}, k) \cup {l}) /\ Ordered(q, Q)
  <2>1. Listed(s, OfType(A \ {l}, k)) /\ Ordered(s, Q)
    BY <1>0, <1>1 DEF Lists
  <2>2. l \notin OfType(A \ {l}, k) /\ (h <=> l \in Q)
    BY DEF OfType
  <2> HIDE DEF s, A, Q, k
  <2> QED BY <1>0, <2>1, <2>2, LinkList
<1>7. q \in Seq(Locks)
  BY <1>6 DEF Listed
<1>8. z \in 0..MaxTimeout
  BY LockAssumption
<1>9. /\ Z \in [Locks -> 0..MaxTimeout] /\ G \in [Locks -> SUBSET Flags]
      /\ B \in [LockTypes -> Seq(Locks)]
  <2> HIDE DEF F, z, q, k, x
  <2>1. Z \in [Locks -> 0..MaxTimeout]
    BY <1>0, <1>8 DEF DataTypes
  <2>2. G \in [Locks -> SUBSET Flags]
    BY <1>0, <1>4 DEF DataTypes
  <2>3. B \in [LockTypes -> Seq(Locks)]
    BY <1>0, <1>1, <1>7 DEF DataTypes
  <2> QED BY <2>1, <2>2, <2>3
<1> HIDE DEF x, F, z, q, k
<1>10. e = [x EXCEPT !.flags = G, !.left = Z, !.active = B]
  <2>1. e = [x EXCEPT !.flags = [x.flags EXCEPT ![l] = F], !.left = [x.left EXCEPT ![l] = z],
                      !.active = [x.active EXCEPT ![k] = q]]
    BY <1>3, Zenon
  <2> QED BY <1>1, <2>1, Zenon
<1> HIDE DEF G, Z, B
<1>11. /\ e \in DataTypes /\ e.flags = G /\ e.left = Z /\ e.active = B
       /\ e.inactive = x.inactive
  BY <1>1, <1>9, <1>10 DEF DataTypes
<1>12. /\ FlagOf(e, "INITIALIZED") = N \cup {l} /\ FlagOf(e, "ACTIVE") = A \cup {l}
       /\ FlagOf(e, "AUTO_EXPIRE") = Q
       /\ FlagOf(e, "PREVENTING_SUSPEND") = IF OutOfTime(d, l) THEN R \ {l} ELSE R
  <2>1. \A g : /\ g \in F => FlagOf(e, g) = FlagOf(d, g) \cup {l}
               /\ g \notin F => FlagOf(e, g) = FlagOf(d, g) \ {l}
    BY <1>0, <1>11, FlagsOf DEF G
  <2>2. FlagOf(e, "INITIALIZED") = N \cup {l} /\ FlagOf(e, "ACTIVE") = A \cup {l}
    BY <1>4, <2>1
  <2>3. FlagOf(e, "AUTO_EXPIRE") = Q
    BY <1>4, <2>1
  <2>4. FlagOf(e, "PREVENTING_SUSPEND") = IF OutOfTime(d, l) THEN R \ {l} ELSE R
    BY <1>5, <2>1
  <2> QED BY <2>2, <2>3, <2>4
<1>13. N \cup {l} = N /\ N \ (A \cup {l}) = (N \ A) \ {l} /\ A \cup {l} \subseteq N
  <2>1. l \in N
    BY DEF d
  <2> HIDE DEF A, N
  <2> QED BY <1>0, <2>1
<1>14. Lists(e, A \cup {l}, (N \ A) \ {l}, Q)
  <2>1. ASSUME NEW type \in LockTypes
        PROVE  Listed(B[type], OfType(A \cup {l}, type)) /\ Ordered(B[type], Q)
    <3>1. x.active \in [LockTypes -> Seq(Locks)]
      BY <1>1 DEF DataTypes
    <3>2. CASE type = k
      <4>1. B[type] = q
        BY <1>0, <3>1, <3>2 DEF B
      <4>2. OfType(A \cup {l}, type) = OfType(A \ {l}, k) \cup {l}
        BY <3>2 DEF OfType, k
      <4> QED BY <1>6, <4>1, <4>2
    <3>3. CASE type # k
      <4>1. B[type] = x.active[type]
        BY <1>0, <3>1, <3>3 DEF B
      <4>2. OfType(A \cup {l}, type) = OfType(A \ {l}, type)
        BY <3>3 DEF OfType, k
      <4> QED BY <1>1, <4>1, <4>2 DEF Lists
    <3> QED BY <3>2, <3>3
  <2>2. Listed(e.inactive, (N \ A) \ {l})
    BY <1>1, <1>11 DEF Lists
  <2> HIDE DEF Q, A, N
  <2> QED BY <1>11, <2>1, <2>2 DEF Lists
<1>15. Good(e)
  BY <1>11, <1>12, <1>13, <1>14 DEF Good
<1> DEFINE v == Acquire(w, l, h, t)
<1>16. /\ w.inited = N /\ w.active = A /\ w.autoExpire = P /\ w.left = d.left
       /\ w.preventing = R
  BY DEF View
<1>17. Expired(w, l) <=> OutOfTime(d, l)
  BY <1>0, ViewOf
<1>18. /\ v \in LockStates /\ v.inited = N /\ v.active = A \cup {l} /\ v.autoExpire = Q
       /\ v.preventing = (IF OutOfTime(d, l) THEN R \ {l} ELSE R) /\ v.left = Z
  <2>1. N \subseteq Locks /\ A \subseteq Locks /\ P \subseteq Locks /\ R \subseteq Locks
    BY DEF FlagOf
  <2> HIDE DEF w, N, A, P, R
  <2> QED BY <1>0, <1>9, <1>16, <1>17, <2>1 DEF Acquire, LockStates, Z, z
<1> HIDE DEF v, w, N, A, P, R, Q
<1>19. View(e) = v
  <2>1. /\ v.inited = FlagOf(e, "INITIALIZED") /\ v.active = FlagOf(e, "ACTIVE")
        /\ v.autoExpire = FlagOf(e, "AUTO_EXPIRE")
        /\ v.preventing = FlagOf(e, "PREVENTING_SUSPEND") /\ v.left = e.left
    BY <1>11, <1>12, <1>13, <1>18
  <2> QED BY <1>18, <2>1, ViewIs
<1> QED BY <1>15, <1>19 DEF v, w, d

\* d with lock l initialised or destroyed, or with one jiffy gone
Inited(d, l) == [d EXCEPT !.flags[l] = {"INITIALIZED"}, !.inactive = <<l>> \o @]
Destroyed(d, l) == [list_del(d, l) EXCEPT !.flags[l] = {}, !.left[l] = 0]
Elapsed(d) == [d EXCEPT !.left = [l \in Locks |-> IF @[l] > 0 THEN @[l] - 1 ELSE 0]]

LEMMA InitEffect ==
    ASSUME NEW d, Good(d), NEW l \in Locks \ FlagOf(d, "INITIALIZED"),
           NEW e, e = Inited(d, l)
    PROVE  Good(e) /\ View(e) = wake_lock_init(View(d), l)
<1> DEFINE w == View(d)
           A == FlagOf(d, "ACTIVE")
           N == FlagOf(d, "INITIALIZED")
           P == FlagOf(d, "AUTO_EXPIRE")
           R == FlagOf(d, "PREVENTING_SUSPEND")
           F == {"INITIALIZED"}
           G == [d.flags EXCEPT ![l] = F]
           b == <<l>> \o d.inactive
<1>0. /\ d \in DataTypes /\ w \in LockStates /\ l \in Locks /\ A \subseteq N /\ l \notin N
      /\ Lists(d, A, N \ A, P)
  BY ViewTypes DEF Good
<1>1. Listed(b, (N \ A) \cup {l})
  <2>1. Listed(d.inactive, N \ A) /\ l \notin N \ A
    BY <1>0 DEF Lists
  <2> HIDE DEF N, A
  <2> QED BY <1>0, <2>1, AtHead
<1>2. b \in Seq(Locks)
  BY <1>1 DEF Listed
<1>3. G \in [Locks -> SUBSET Flags]
  BY <1>0 DEF DataTypes, Flags
<1>4. e = [d EXCEPT !.flags = G, !.inactive = b]
  BY Zenon DEF Inited
<1> HIDE DEF G, b
<1>5. /\ e \in DataTypes /\ e.flags = G /\ e.inactive = b /\ e.left = d.left
      /\ e.active = d.active
  BY <1>0, <1>2, <1>3, <1>4 DEF DataTypes
<1>6. /\ FlagOf(e, "INITIALIZED") = N \cup {l} /\ FlagOf(e, "ACTIVE") = A \ {l}
      /\ FlagOf(e, "AUTO_EXPIRE") = P \ {l} /\ FlagOf(e, "PREVENTING_SUSPEND") = R \ {l}
  <2>1. \A g : /\ g \in F => FlagOf(e, g) = FlagOf(d, g) \cup {l}
               /\ g \notin F => FlagOf(e, g) = FlagOf(d, g) \ {l}
    BY <1>0, <1>5, FlagsOf DEF G
  <2> QED BY <2>1
<1>7. A \ {l} = A /\ A \subseteq N \cup {l} /\ (N \cup {l}) \ A = (N \ A) \cup {l}
  <2> HIDE DEF N, A
  <2> QED BY <1>0
<1>8. \A type \in LockTypes :
         Listed(e.active[type], OfType(A, type)) /\ Ordered(e.active[type], P \ {l})
  <2> SUFFICES ASSUME NEW type \in LockTypes
               PROVE  Listed(e.active[type], OfType(A, type)) /\ Ordered(e.active[type], P \ {l})
    OBVIOUS
  <2>1. Listed(e.active[type], OfType(A, type)) /\ Ordered(e.active[type], P)
    BY <1>0, <1>5 DEF Lists
  <2>2. l \notin On(e.active[type])
    BY <1>7, <2>1 DEF Listed, OfType
  <2>3. Ordered(e.active[type], P \ {l})
    BY <2>1, <2>2 DEF Ordered, On
  <2> QED BY <2>1, <2>3
<1>9. Good(e)
  <2> HIDE DEF N, A, P
  <2>1. Lists(e, A, (N \ A) \cup {l}, P \ {l})
    BY <1>1, <1>5, <1>8 DEF Lists
  <2> QED BY <1>5, <1>6, <1>7, <2>1 DEF Good
<1> DEFINE v == wake_lock_init(w, l)
<1>10. /\ w.inited = N /\ w.active = A /\ w.autoExpire = P /\ w.left = d.left
       /\ w.preventing = R
  BY DEF View
<1> HIDE DEF w, N, A, P, R
<1>11. /\ v \in LockStates /\ v.inited = N \cup {l} /\ v.active = A \ {l}
       /\ v.autoExpire = P \ {l} /\ v.preventing = R \ {l} /\ v.left = d.left
  BY <1>0, <1>10 DEF wake_lock_init, LockStates
<1> HIDE DEF v
<1>12. View(e) = v
  <2>1. /\ v.inited = FlagOf(e, "INITIALIZED") /\ v.active = FlagOf(e, "ACTIVE")
        /\ v.autoExpire = FlagOf(e, "AUTO_EXPIRE")
        /\ v.preventing = FlagOf(e, "PREVENTING_SUSPEND") /\ v.left = e.left
    BY <1>5, <1>6, <1>11
  <2> QED BY <1>11, <2>1, ViewIs
<1> QED BY <1>9, <1>12 DEF v, w

LEMMA DestroyEffect ==
    ASSUME NEW d, Good(d), NEW l \in FlagOf(d, "INITIALIZED"), NEW e, e = Destroyed(d, l)
    PROVE  Good(e) /\ View(e) = wake_lock_destroy(View(d), l)
<1> DEFINE w == View(d)
           x == list_del(d, l)
           A == FlagOf(d, "ACTIVE")
           N == FlagOf(d, "INITIALIZED")
           P == FlagOf(d, "AUTO_EXPIRE")
           R == FlagOf(d, "PREVENTING_SUSPEND")
           G == [d.flags EXCEPT ![l] = {}]
           Z == [d.left EXCEPT ![l] = 0]
<1>0. d \in DataTypes /\ w \in LockStates /\ l \in Locks /\ A \subseteq N
  BY ViewTypes DEF Good, FlagOf
<1>1. /\ x \in DataTypes /\ x.flags = d.flags /\ x.left = d.left
      /\ Lists(x, A \ {l}, (N \ A) \ {l}, P \ {l})
  <2>1. Lists(d, A, N \ A, P)
    BY DEF Good
  <2>2. \A m \in A \ {l} : m \in P \ {l} <=> m \in P
    OBVIOUS
  <2> HIDE DEF A, N, P
  <2> QED BY <1>0, <2>1, <2>2, DelLists
<1>2. G \in [Locks -> SUBSET Flags] /\ Z \in [Locks -> 0..MaxTimeout]
  BY <1>0, LockAssumption DEF DataTypes
<1>3. e = [x EXCEPT !.flags = G, !.left = Z]
  <2>1. e = [x EXCEPT !.flags = [x.flags EXCEPT ![l] = {}], !.left = [x.left EXCEPT ![l] = 0]]
    BY Zenon DEF Destroyed
  <2> QED BY <1>1, <2>1, Zenon
<1> HIDE DEF x, G, Z
<1>4. /\ e \in DataTypes /\ e.flags = G /\ e.left = Z /\ e.active = x.active
      /\ e.inactive = x.inactive
  BY <1>1, <1>2, <1>3 DEF DataTypes
<1>5. \A f : FlagOf(e, f) = FlagOf(d, f) \ {l}
  <2> DEFINE F == {}
  <2>1. e.flags = [d.flags EXCEPT ![l] = F] /\ \A f : f \notin F
    BY <1>4 DEF G
  <2> HIDE DEF F
  <2> QED BY <1>0, <2>1, FlagsOf
<1>6. Good(e)
  <2>1. Lists(e, A \ {l}, (N \ A) \ {l}, P \ {l})
    BY <1>1, <1>4 DEF Lists
  <2>2. (N \ A) \ {l} = (N \ {l}) \ (A \ {l}) /\ A \ {l} \subseteq N \ {l}
    BY <1>0
  <2>3. /\ FlagOf(e, "INITIALIZED") = N \ {l} /\ FlagOf(e, "ACTIVE") = A \ {l}
        /\ FlagOf(e, "AUTO_EXPIRE") = P \ {l}
    BY <1>5
  <2> HIDE DEF N, A, P
  <2> QED BY <1>4, <2>1, <2>2, <2>3 DEF Good
<1> DEFINE v == wake_lock_destroy(w, l)
<1>7. /\ w.inited = N /\ w.active = A /\ w.autoExpire = P /\ w.left = d.left
      /\ w.preventing = R
  BY DEF View
<1>8. /\ FlagOf(e, "INITIALIZED") = N \ {l} /\ FlagOf(e, "ACTIVE") = A \ {l}
      /\ FlagOf(e, "AUTO_EXPIRE") = P \ {l} /\ FlagOf(e, "PREVENTING_SUSPEND") = R \ {l}
  BY <1>5
<1> HIDE DEF w, N, A, P, R
<1>9. /\ v \in LockStates /\ v.inited = N \ {l} /\ v.active = A \ {l}
      /\ v.autoExpire = P \ {l} /\ v.preventing = R \ {l} /\ v.left = Z
  BY <1>0, <1>2, <1>7 DEF wake_lock_destroy, LockStates, Z
<1> HIDE DEF v
<1>10. View(e) = v
  BY <1>4, <1>8, <1>9, ViewIs
<1> QED BY <1>6, <1>10 DEF v, w

LEMMA TickEffect ==
    ASSUME NEW d, Good(d), NEW e, e = Elapsed(d)
    PROVE  Good(e) /\ View(e) = Elapse(View(d))
<1> DEFINE Z == [l \in Locks |-> IF d.left[l] > 0 THEN d.left[l] - 1 ELSE 0]
           w == View(d)
           v == Elapse(w)
<1>0. d \in DataTypes /\ w \in LockStates
  BY ViewTypes DEF Good
<1>1. Z \in [Locks -> 0..MaxTimeout]
  BY <1>0, LockAssumption DEF DataTypes
<1>2. e = [d EXCEPT !.left = Z]
  BY Zenon DEF Elapsed
<1>3. /\ w.inited = FlagOf(d, "INITIALIZED") /\ w.active = FlagOf(d, "ACTIVE")
      /\ w.autoExpire = FlagOf(d, "AUTO_EXPIRE") /\ w.left = d.left
      /\ w.preventing = FlagOf(d, "PREVENTING_SUSPEND")
  BY DEF View
<1> HIDE DEF w
<1>4. v = [w EXCEPT !.left = Z]
  BY <1>3, Zenon DEF Elapse
<1> HIDE DEF Z, v
<1>5. /\ e \in DataTypes /\ e.flags = d.flags /\ e.left = Z /\ e.active = d.active
      /\ e.inactive = d.inactive
  BY <1>0, <1>1, <1>2 DEF DataTypes
<1>6. \A f : FlagOf(e, f) = FlagOf(d, f)
  BY <1>5 DEF FlagOf
<1>7. Good(e)
  BY <1>5, <1>6, SameLists
<1>8. /\ v \in LockStates /\ v.inited = w.inited /\ v.active = w.active
      /\ v.autoExpire = w.autoExpire /\ v.preventing = w.preventing /\ v.left = Z
  BY <1>0, <1>1, <1>4 DEF LockStates
<1>9. View(e) = v
  BY <1>3, <1>5, <1>6, <1>8, ViewIs
<1> QED BY <1>7, <1>9 DEF v, w

-----------------------------------------------------------------------------
(* The steps *)

Answers == {Nothing, -1} \cup 0..MaxTimeout

LEMMA AnswerType ==
    ASSUME NEW w \in LockStates, NEW type
    PROVE  HasWakeLock(w, type) \in Answers
BY HasWakeLockAnswer DEF Answers

LEMMA Becomes ==
    ASSUME NEW e \in DataTypes, Become(e)
    PROVE  Data' = e
BY DEF Become, Data, DataTypes

LEMMA BarIs ==
    wlBar = View(Data) /\ wlBar' = View(Data')
BY DEF wlBar, View, Data, FlagSet, FlagOf

\* The operators of the set specification are those of WakeLockOps.
LEMMA SameQueries ==
    /\ \A l : Abstract!LockType(l) = LockType(l)
    /\ \A w, k : Abstract!HasWakeLock(w, k) = HasWakeLock(w, k)
    /\ \A w, k : Abstract!Reap(w, k) = Reap(w, k)
    /\ \A w, l : Abstract!Expired(w, l) = Expired(w, l)
    /\ Abstract!LockTypes = LockTypes /\ Abstract!Nothing = Nothing
BY DEF Abstract!LockType, LockType, Abstract!HasWakeLock, HasWakeLock, Abstract!Reap, Reap,
   Abstract!Permanent, Permanent, Abstract!ActiveLocks, ActiveLocks, Abstract!Max, Max,
   Abstract!Expired, Expired, Abstract!expire_wake_lock, expire_wake_lock,
   Abstract!WAKE_LOCK_SUSPEND, WAKE_LOCK_SUSPEND, Abstract!WAKE_LOCK_IDLE, WAKE_LOCK_IDLE,
   Abstract!LockTypes, LockTypes, Abstract!Nothing, Nothing

LEMMA SameCalls ==
    /\ \A w, l, h, t : Abstract!Locked(w, l, h, t) = Locked(w, l, h, t)
    /\ \A w, l : Abstract!Released(w, l) = Released(w, l)
    /\ \A w, d : Abstract!update_sleep_wait_stats(w, d) = update_sleep_wait_stats(w, d)
    /\ \A w, l : Abstract!wake_lock_init(w, l) = wake_lock_init(w, l)
    /\ \A w, l : Abstract!wake_lock_destroy(w, l) = wake_lock_destroy(w, l)
    /\ \A w : Abstract!Elapse(w) = Elapse(w)
    /\ Abstract!wakelocks_init = wakelocks_init
    /\ Abstract!WAKE_LOCK_SUSPEND = WAKE_LOCK_SUSPEND
BY DEF Abstract!LockType, LockType, Abstract!ActiveLocks, ActiveLocks,
   Abstract!Expired, Expired, Abstract!expire_wake_lock, expire_wake_lock,
   Abstract!WAKE_LOCK_SUSPEND, WAKE_LOCK_SUSPEND, Abstract!WAKE_LOCK_IDLE, WAKE_LOCK_IDLE,
   Abstract!Locked, Locked, Abstract!Acquire, Acquire, Abstract!Charge, Charge,
   Abstract!update_sleep_wait_stats, update_sleep_wait_stats, Abstract!Released, Released,
   Abstract!wake_lock_init, wake_lock_init, Abstract!wake_lock_destroy, wake_lock_destroy,
   Abstract!Elapse, Elapse, Abstract!wakelocks_init, wakelocks_init

LEMMA SameResults ==
    /\ \A w, l, h, t : Abstract!wake_lock_internal(w, l, h, t) = wake_lock_internal(w, l, h, t)
    /\ \A w, l, h, t : Abstract!ExpireIn(w, l, h, t) = ExpireIn(w, l, h, t)
    /\ \A w, l : Abstract!wake_unlock(w, l) = wake_unlock(w, l)
    /\ \A w, l : Abstract!HasLockAfterUnlock(w, l) = HasLockAfterUnlock(w, l)
BY SameQueries, SameCalls
   DEF Abstract!wake_lock_internal, wake_lock_internal, Abstract!ExpireIn, ExpireIn,
   Abstract!wake_unlock, wake_unlock, Abstract!HasLockAfterUnlock, HasLockAfterUnlock

\* wake_lock and wake_lock_timeout
LEMMA LockStep ==
    ASSUME Good(Data), NEW l \in Locks, NEW h \in BOOLEAN, NEW t \in 0..MaxTimeout,
           wake_lock_list(l, h, t)
    PROVE  Good(Data') /\ answer' \in Answers /\ Abstract!Lock(l, h, t)
<1> DEFINE w == View(Data)
           a == AcquireList(l, h, t)
           b == CASE l = main_wake_lock -> update_sleep_wait_stats_locked(a, TRUE)
                  [] l # main_wake_lock /\ ~ Has(a, main_wake_lock, "ACTIVE")
                                        -> update_sleep_wait_stats_locked(a, FALSE)
                  [] OTHER              -> a
           e == AfterLoop(b, WAKE_LOCK_SUSPEND)
           n == has_wake_lock_locked(b, WAKE_LOCK_SUSPEND)
<1>1. /\ "INITIALIZED" \in flags[l]
      /\ IF LockType(l) = WAKE_LOCK_IDLE
         THEN Become(a) /\ answer' = Nothing
         ELSE IF h THEN Become(e) /\ answer' = n
                   ELSE Become(b) /\ answer' = -1
  BY DEF wake_lock_list
<1>2. l \in FlagOf(Data, "INITIALIZED") /\ w \in LockStates /\ l \in w.inited
  BY <1>1, ViewTypes DEF FlagOf, Data, Good, View
<1>3. Good(a) /\ View(a) = Acquire(w, l, h, t)
  BY <1>2, AcquireEffect
<1>4. Good(b) /\ View(b) = Charge(View(a), l)
  <2> HIDE DEF a
  <2>1. Has(a, main_wake_lock, "ACTIVE") <=> main_wake_lock \in View(a).active
    BY LockAssumption DEF Has, View, FlagOf
  <2>2. CASE l = main_wake_lock
    <3>1. b = update_sleep_wait_stats_locked(a, TRUE)
      BY <2>2
    <3>2. Charge(View(a), l) = update_sleep_wait_stats(View(a), TRUE)
      BY <2>2 DEF Charge
    <3> QED BY <1>3, <3>1, <3>2, StatsList
  <2>3. CASE l # main_wake_lock /\ ~ Has(a, main_wake_lock, "ACTIVE")
    <3>1. b = update_sleep_wait_stats_locked(a, FALSE)
      BY <2>3
    <3>2. Charge(View(a), l) = update_sleep_wait_stats(View(a), FALSE)
      BY <2>1, <2>3 DEF Charge
    <3> QED BY <1>3, <3>1, <3>2, StatsList
  <2>4. CASE l # main_wake_lock /\ Has(a, main_wake_lock, "ACTIVE")
    <3>1. b = a /\ Charge(View(a), l) = View(a)
      BY <2>1, <2>4 DEF Charge
    <3> QED BY <1>3, <3>1
  <2> QED BY <2>2, <2>3, <2>4
<1>5. WAKE_LOCK_SUSPEND \in LockTypes
  BY DEF LockTypes
<1>6. /\ Good(e) /\ View(e) = Reap(View(b), WAKE_LOCK_SUSPEND)
      /\ n = HasWakeLock(View(b), WAKE_LOCK_SUSPEND) /\ View(b) \in LockStates
  <2> HIDE DEF b
  <2> QED BY <1>4, <1>5, LoopEffect, ViewTypes DEF Good
<1>7. n \in Answers
  BY <1>6, AnswerType
<1> HIDE DEF a, b, e, n
<1>8. a \in DataTypes /\ b \in DataTypes /\ e \in DataTypes
  BY <1>3, <1>4, <1>6 DEF Good
<1>9. /\ Good(Data') /\ answer' \in Answers
      /\ View(Data') = wake_lock_internal(w, l, h, t)
      /\ answer' = IF LockType(l) = WAKE_LOCK_SUSPEND THEN ExpireIn(w, l, h, t) ELSE Nothing
  <2>1. CASE LockType(l) = WAKE_LOCK_IDLE
    <3>1. LockType(l) # WAKE_LOCK_SUSPEND
      BY <2>1 DEF WAKE_LOCK_IDLE, WAKE_LOCK_SUSPEND
    <3>2. Data' = a /\ answer' = Nothing
      BY <1>1, <1>8, <2>1, Becomes
    <3>3. wake_lock_internal(w, l, h, t) = Acquire(w, l, h, t)
      BY <3>1 DEF wake_lock_internal, Locked
    <3> QED BY <1>3, <3>1, <3>2, <3>3 DEF Answers
  <2>2. CASE LockType(l) # WAKE_LOCK_IDLE
    <3>1. LockType(l) = WAKE_LOCK_SUSPEND
      BY <2>2 DEF LockType
    <3>2. Locked(w, l, h, t) = View(b)
      BY <1>3, <1>4, <3>1 DEF Locked
    <3>3. CASE h
      <4>1. Data' = e /\ answer' = n
        BY <1>1, <1>8, <2>2, <3>3, Becomes
      <4> QED BY <1>6, <1>7, <3>1, <3>2, <3>3, <4>1 DEF wake_lock_internal, ExpireIn
    <3>4. CASE ~ h
      <4>1. Data' = b /\ answer' = -1
        BY <1>1, <1>8, <2>2, <3>4, Becomes
      <4> QED BY <1>4, <3>1, <3>2, <3>4, <4>1 DEF wake_lock_internal, ExpireIn, Answers
    <3> QED BY <3>3, <3>4
  <2> QED BY <2>1, <2>2
<1>10. Abstract!Lock(l, h, t)
  BY <1>2, <1>9, BarIs, SameQueries, SameCalls, SameResults DEF Abstract!Lock
<1> QED BY <1>9, <1>10

LEMMA UnlockStep ==
    ASSUME Good(Data), NEW l \in Locks, wake_unlock_list(l)
    PROVE  Good(Data') /\ answer' \in Answers /\ Abstract!Unlock(l)
<1> DEFINE w == View(Data)
           r == Freed(Data, l)
           s == AfterLoop(r, WAKE_LOCK_SUSPEND)
           u == update_sleep_wait_stats_locked(s, FALSE)
           e == IF l = main_wake_lock THEN u ELSE s
           n == has_wake_lock_locked(r, WAKE_LOCK_SUSPEND)
<1>1. /\ "INITIALIZED" \in flags[l]
      /\ IF LockType(l) = WAKE_LOCK_IDLE
         THEN Become(r) /\ answer' = Nothing
         ELSE Become(e) /\ answer' = n
  BY DEF wake_unlock_list, Freed
<1>2. l \in FlagOf(Data, "INITIALIZED") /\ w \in LockStates /\ l \in w.inited
  BY <1>1, ViewTypes DEF FlagOf, Data, Good, View
<1>3. Good(r) /\ View(r) = Released(w, l)
  BY <1>2, ReleaseList
<1>4. WAKE_LOCK_SUSPEND \in LockTypes
  BY DEF LockTypes
<1>5. /\ Good(s) /\ View(s) = Reap(View(r), WAKE_LOCK_SUSPEND)
      /\ n = HasWakeLock(View(r), WAKE_LOCK_SUSPEND) /\ View(r) \in LockStates
  <2> HIDE DEF r
  <2> QED BY <1>3, <1>4, LoopEffect, ViewTypes DEF Good
<1>6. n \in Answers
  BY <1>5, AnswerType
<1>7. Good(u) /\ View(u) = update_sleep_wait_stats(View(s), FALSE)
  <2> HIDE DEF s
  <2> QED BY <1>5, StatsList
<1> HIDE DEF r, s, u, n
<1>8. r \in DataTypes /\ e \in DataTypes /\ Good(e)
  BY <1>3, <1>5, <1>7 DEF Good
<1>9. /\ Good(Data') /\ answer' \in Answers
      /\ View(Data') = wake_unlock(w, l)
      /\ answer' = IF LockType(l) = WAKE_LOCK_SUSPEND THEN HasLockAfterUnlock(w, l) ELSE Nothing
  <2>1. CASE LockType(l) = WAKE_LOCK_IDLE
    <3>1. LockType(l) # WAKE_LOCK_SUSPEND
      BY <2>1 DEF WAKE_LOCK_IDLE, WAKE_LOCK_SUSPEND
    <3>2. Data' = r /\ answer' = Nothing
      BY <1>1, <1>8, <2>1, Becomes
    <3> QED BY <1>3, <3>1, <3>2 DEF Answers, wake_unlock
  <2>2. CASE LockType(l) # WAKE_LOCK_IDLE
    <3>1. LockType(l) = WAKE_LOCK_SUSPEND
      BY <2>2 DEF LockType
    <3>2. Data' = e /\ answer' = n
      <4> HIDE DEF e
      <4> QED BY <1>1, <1>8, <2>2, Becomes
    <3>3. View(e) = wake_unlock(w, l)
      BY <1>3, <1>5, <1>7, <3>1 DEF wake_unlock
    <3> HIDE DEF e
    <3> QED BY <1>3, <1>5, <1>6, <1>8, <3>1, <3>2, <3>3 DEF HasLockAfterUnlock
  <2> QED BY <2>1, <2>2
<1>10. Abstract!Unlock(l)
  BY <1>2, <1>9, BarIs, SameQueries, SameCalls, SameResults DEF Abstract!Unlock
<1> QED BY <1>9, <1>10

LEMMA InitStep ==
    ASSUME Good(Data), NEW l \in Locks, wake_lock_init_list(l)
    PROVE  Good(Data') /\ answer' \in Answers /\ Abstract!InitLock(l)
<1>1. l \in Locks \ FlagOf(Data, "INITIALIZED") /\ answer' = Nothing
  BY DEF wake_lock_init_list, FlagOf, Data
<1>2. Data' = Inited(Data, l)
  <2> DEFINE G == [flags EXCEPT ![l] = {"INITIALIZED"}]
             b == <<l>> \o inactive
  <2>1. flags' = G /\ inactive' = b /\ left' = left /\ active' = active
    BY DEF wake_lock_init_list
  <2>2. Data.flags = flags /\ Data.inactive = inactive
    BY DEF Data
  <2>3. Inited(Data, l) = [Data EXCEPT !.flags = G, !.inactive = b]
    BY <2>2, Zenon DEF Inited
  <2> HIDE DEF G, b
  <2> QED BY <2>1, <2>3 DEF Data
<1>3. Good(Data') /\ View(Data') = wake_lock_init(View(Data), l)
  BY <1>1, <1>2, InitEffect
<1>4. l \notin View(Data).inited
  BY <1>1 DEF View
<1>5. Abstract!InitLock(l)
  BY <1>1, <1>3, <1>4, BarIs, SameQueries, SameCalls DEF Abstract!InitLock
<1> QED BY <1>1, <1>3, <1>5 DEF Answers

LEMMA DestroyStep ==
    ASSUME Good(Data), NEW l \in Locks, wake_lock_destroy_list(l)
    PROVE  Good(Data') /\ answer' \in Answers /\ Abstract!DestroyLock(l)
<1>1. /\ l \in FlagOf(Data, "INITIALIZED") /\ answer' = Nothing
      /\ l \notin {main_wake_lock, unknown_wakeup} /\ Become(Destroyed(Data, l))
  BY DEF wake_lock_destroy_list, FlagOf, Data, Destroyed
<1>2. /\ Good(Destroyed(Data, l))
      /\ View(Destroyed(Data, l)) = wake_lock_destroy(View(Data), l)
  BY <1>1, DestroyEffect
<1>3. Data' = Destroyed(Data, l)
  BY <1>1, <1>2, Becomes DEF Good
<1>4. l \in View(Data).inited
  BY <1>1 DEF View
<1>5. Abstract!DestroyLock(l)
  BY <1>1, <1>2, <1>3, <1>4, BarIs, SameQueries, SameCalls DEF Abstract!DestroyLock
<1> QED BY <1>1, <1>2, <1>3, <1>5 DEF Answers

LEMMA AskStep ==
    ASSUME Good(Data), NEW type \in LockTypes, has_wake_lock(type)
    PROVE  Good(Data') /\ answer' \in Answers /\ Abstract!Ask(type)
<1> DEFINE e == AfterLoop(Data, type)
<1>1. Become(e) /\ answer' = has_wake_lock_locked(Data, type)
  BY DEF has_wake_lock
<1>2. /\ Good(e) /\ View(e) = Reap(View(Data), type)
      /\ has_wake_lock_locked(Data, type) = HasWakeLock(View(Data), type)
  BY LoopEffect
<1> HIDE DEF e
<1>3. Data' = e
  BY <1>1, <1>2, Becomes DEF Good
<1>4. View(Data) \in LockStates
  BY ViewTypes DEF Good
<1>5. answer' \in Answers
  BY <1>1, <1>2, <1>4, AnswerType
<1>6. Abstract!Ask(type)
  BY <1>1, <1>2, <1>3, BarIs, SameQueries DEF Abstract!Ask
<1> QED BY <1>2, <1>3, <1>5, <1>6

LEMMA TickStep ==
    ASSUME Good(Data), Tick
    PROVE  Good(Data') /\ answer' \in Answers /\ Abstract!Tick
<1>1. Data' = Elapsed(Data) /\ answer' = Nothing
  BY DEF Tick, Data, Elapsed
<1>2. Good(Data') /\ View(Data') = Elapse(View(Data))
  BY <1>1, TickEffect
<1>3. Abstract!Tick
  BY <1>1, <1>2, BarIs, SameQueries, SameCalls DEF Abstract!Tick
<1> QED BY <1>1, <1>2, <1>3 DEF Answers

-----------------------------------------------------------------------------
(* The theorems *)

ListInv == Good(Data) /\ answer \in Answers

LEMMA ListInvInit ==
    ASSUME Init
    PROVE  ListInv /\ View(Data) = wakelocks_init
<1> DEFINE m == main_wake_lock
           k == unknown_wakeup
<1>0. m \in Locks /\ k \in Locks /\ m # k /\ LockType(m) = WAKE_LOCK_SUSPEND /\ 0 \in 0..MaxTimeout
  BY LockAssumption DEF LockType, WAKE_LOCK_SUSPEND
<1>1. /\ Data.flags = [l \in Locks |->
           IF l = m THEN {"INITIALIZED", "ACTIVE"}
           ELSE IF l = k THEN {"INITIALIZED"} ELSE {}]
      /\ Data.left = [l \in Locks |-> 0]
      /\ Data.active = [type \in LockTypes |-> IF type = WAKE_LOCK_SUSPEND THEN <<m>> ELSE <<>>]
      /\ Data.inactive = <<k>>
  BY <1>0 DEF Init, Data
<1>2. /\ FlagOf(Data, "INITIALIZED") = {m, k} /\ FlagOf(Data, "ACTIVE") = {m}
      /\ FlagOf(Data, "AUTO_EXPIRE") = {} /\ FlagOf(Data, "PREVENTING_SUSPEND") = {}
  BY <1>0, <1>1 DEF FlagOf
<1>3. ASSUME NEW x \in Locks PROVE Listed(<<x>>, {x}) /\ Ordered(<<x>>, {})
  BY DEF Listed, Ordered, IsInjective, On
<1>4. Listed(<<>>, {}) /\ Ordered(<<>>, {})
  BY DEF Listed, Ordered, IsInjective, On
<1>5. Data \in DataTypes
  <2>1. /\ Data = [flags |-> Data.flags, left |-> Data.left,
                   active |-> Data.active, inactive |-> Data.inactive]
    BY DEF Data
  <2>2. Data.flags \in [Locks -> SUBSET Flags]
    BY <1>1 DEF Flags
  <2>3. Data.left \in [Locks -> 0..MaxTimeout]
    BY <1>0, <1>1
  <2>4. Data.active \in [LockTypes -> Seq(Locks)] /\ Data.inactive \in Seq(Locks)
    BY <1>0, <1>1
  <2> QED BY <2>1, <2>2, <2>3, <2>4 DEF DataTypes
<1>6. Lists(Data, {m}, {k}, {})
  <2>1. ASSUME NEW type \in LockTypes
        PROVE  Listed(Data.active[type], OfType({m}, type)) /\ Ordered(Data.active[type], {})
    <3>1. CASE type = WAKE_LOCK_SUSPEND
      <4>1. Data.active[type] = <<m>> /\ OfType({m}, type) = {m}
        BY <1>0, <1>1, <3>1 DEF OfType
      <4> QED BY <1>0, <1>3, <4>1
    <3>2. CASE type # WAKE_LOCK_SUSPEND
      <4>1. Data.active[type] = <<>> /\ OfType({m}, type) = {}
        BY <1>0, <1>1, <3>2 DEF OfType
      <4> QED BY <1>4, <4>1
    <3> QED BY <3>1, <3>2
  <2> QED BY <1>0, <1>1, <1>3, <2>1 DEF Lists
<1>7. Good(Data)
  <2>1. {m, k} \ {m} = {k}
    BY <1>0
  <2> QED BY <1>2, <1>5, <1>6, <2>1 DEF Good
<1>8. View(Data) = wakelocks_init
  BY <1>1, <1>2 DEF View, wakelocks_init
<1>9. answer \in Answers
  BY DEF Init, Answers
<1> QED BY <1>7, <1>8, <1>9 DEF ListInv

\* Each step keeps the lists in order and is a step of the set specification.
LEMMA ListInvNext ==
    ASSUME ListInv, [Next]_vars
    PROVE  ListInv' /\ [Abstract!Next]_<<wlBar, answer>>
<1>0. Good(Data) /\ answer \in Answers
  BY DEF ListInv
<1> SUFFICES Good(Data') /\ answer' \in Answers /\ [Abstract!Next]_<<wlBar, answer>>
  BY DEF ListInv, Answers, Nothing
<1>1. ASSUME NEW l \in Locks, wake_lock_init_list(l)
      PROVE  Good(Data') /\ answer' \in Answers /\ Abstract!Next
  BY <1>0, <1>1, InitStep DEF Abstract!Next
<1>2. ASSUME NEW l \in Locks, wake_lock_destroy_list(l)
      PROVE  Good(Data') /\ answer' \in Answers /\ Abstract!Next
  BY <1>0, <1>2, DestroyStep DEF Abstract!Next
<1>3. ASSUME NEW l \in Locks, wake_lock_list(l, FALSE, 0)
      PROVE  Good(Data') /\ answer' \in Answers /\ Abstract!Next
  <2>1. 0 \in 0..MaxTimeout
    BY LockAssumption
  <2> QED BY <1>0, <1>3, <2>1, LockStep DEF Abstract!Next
<1>4. ASSUME NEW l \in Locks, NEW t \in 0..MaxTimeout, wake_lock_list(l, TRUE, t)
      PROVE  Good(Data') /\ answer' \in Answers /\ Abstract!Next
  BY <1>0, <1>4, LockStep DEF Abstract!Next
<1>5. ASSUME NEW l \in Locks, wake_unlock_list(l)
      PROVE  Good(Data') /\ answer' \in Answers /\ Abstract!Next
  BY <1>0, <1>5, UnlockStep DEF Abstract!Next
<1>6. ASSUME NEW type \in LockTypes, has_wake_lock(type)
      PROVE  Good(Data') /\ answer' \in Answers /\ Abstract!Next
  BY <1>0, <1>6, AskStep, SameQueries DEF Abstract!Next
<1>7. CASE Tick
  BY <1>0, <1>7, TickStep DEF Abstract!Next
<1>8. CASE UNCHANGED vars
  BY <1>0, <1>8 DEF vars, Data, wlBar, FlagSet
<1> QED BY <1>1, <1>2, <1>3, <1>4, <1>5, <1>6, <1>7, <1>8 DEF Next

LEMMA ListInvImplies ==
    ASSUME ListInv
    PROVE  TypeOK /\ ListsMatchFlags /\ PermanentFirst
<1> DEFINE A == FlagOf(Data, "ACTIVE")
           N == FlagOf(Data, "INITIALIZED")
           P == FlagOf(Data, "AUTO_EXPIRE")
<1>1. /\ Data.flags = flags /\ Data.left = left /\ Data.active = active
      /\ Data.inactive = inactive
  BY DEF Data
<1>2. Data \in DataTypes /\ Lists(Data, A, N \ A, P) /\ answer \in Answers
  BY DEF ListInv, Good
<1>3. TypeOK
  BY <1>1, <1>2 DEF TypeOK, DataTypes, Answers
<1>4. \A f : FlagOf(Data, f) = {l \in Locks : f \in flags[l]}
  BY <1>1 DEF FlagOf
<1>5. ListsMatchFlags
  BY <1>1, <1>2, <1>4 DEF ListsMatchFlags, Lists, Listed, OfType, On
<1>6. PermanentFirst
  <2> SUFFICES ASSUME NEW type \in LockTypes, NEW i \in DOMAIN active[type],
                      NEW j \in DOMAIN active[type], i < j,
                      "AUTO_EXPIRE" \in flags[active[type][i]]
               PROVE  "AUTO_EXPIRE" \in flags[active[type][j]]
    BY DEF PermanentFirst
  <2>1. active[type] \in Seq(Locks) /\ Ordered(active[type], P)
    BY <1>1, <1>2 DEF Lists, Listed
  <2>2. active[type][i] \in P
    BY <1>4, <2>1
  <2>3. active[type][j] \in P
    BY <2>1, <2>2 DEF Ordered
  <2> QED BY <1>4, <2>3
<1> QED BY <1>3, <1>5, <1>6

(***************************************************************************)
(* Types are kept, and no call answers anything but "not at all", "for     *)
(* ever" or a number of jiffies up to the longest timeout.                 *)
(***************************************************************************)
THEOREM ListTypeCorrect == Spec => []TypeOK
<1>1. Init => ListInv
  BY ListInvInit
<1>2. ListInv /\ [Next]_vars => ListInv'
  BY ListInvNext
<1>3. ListInv => TypeOK
  BY ListInvImplies
<1> QED BY <1>1, <1>2, <1>3, PTL DEF Spec

(***************************************************************************)
(* Every initialised lock is on exactly one list, once: the one that its   *)
(* ACTIVE flag and its type name, whatever calls were made in which order. *)
(***************************************************************************)
THEOREM EveryLockListed == Spec => []ListsMatchFlags
<1>1. Init => ListInv
  BY ListInvInit
<1>2. ListInv /\ [Next]_vars => ListInv'
  BY ListInvNext
<1>3. ListInv => ListsMatchFlags
  BY ListInvImplies
<1> QED BY <1>1, <1>2, <1>3, PTL DEF Spec

(***************************************************************************)
(* Locks without a timeout are in front on the active lists, so the early  *)
(* return of has_wake_lock_locked misses no such lock and expires nothing. *)
(***************************************************************************)
THEOREM PermanentLocksFirst == Spec => []PermanentFirst
<1>1. Init => ListInv
  BY ListInvInit
<1>2. ListInv /\ [Next]_vars => ListInv'
  BY ListInvNext
<1>3. ListInv => PermanentFirst
  BY ListInvImplies
<1> QED BY <1>1, <1>2, <1>3, PTL DEF Spec

(***************************************************************************)
(* The list code, its loop with the early return included, implements the  *)
(* set specification WakeLockSet: every call of wakelock.c returns the     *)
(* answer, and leaves the flags and times, that the set view gives.        *)
(***************************************************************************)
THEOREM ListImplementsSet == Spec => ImplementsSet
<1>1. Init => ListInv /\ Abstract!Init
  <2> SUFFICES ASSUME Init PROVE ListInv /\ Abstract!Init
    OBVIOUS
  <2>1. ListInv /\ wlBar = wakelocks_init /\ answer = Nothing
    BY ListInvInit, BarIs DEF Init
  <2> QED BY <2>1, SameQueries, SameCalls DEF Abstract!Init
<1>2. ListInv /\ [Next]_vars => ListInv' /\ [Abstract!Next]_<<wlBar, answer>>
  BY ListInvNext
<1> QED BY <1>1, <1>2, PTL DEF Spec, ImplementsSet, Abstract!Spec
=============================================================================
