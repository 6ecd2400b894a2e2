---------------------------- MODULE Binder_proofs ----------------------------
(***************************************************************************)
(* Proofs about Binder, for any number of clients, threads, buffers and    *)
(* commands: that the counts are those of what there is to count, that     *)
(* death notifications are neither lost nor sent too early, and that the   *)
(* owner has its object as long as somebody has a strong reference.        *)
(***************************************************************************)
EXTENDS Binder, TLAPS, FiniteSetTheorems, WellFoundedInduction

-----------------------------------------------------------------------------
(* The least element; elements of lists *)

\* A non-empty set of naturals has a minimum, and Min is it.
LEMMA NatMin ==
    ASSUME NEW S, S \subseteq Nat, S # {}
    PROVE  /\ Min(S) \in S
           /\ \A y \in S : Min(S) <= y
<1>1. PICK t \in S : \A u \in S : ~ (<<u, t>> \in OpToRel(<, Nat))
  BY WFMin, NatLessThanWellFounded, Zenon
<1>2. \A u \in S : ~ (u < t)
  BY <1>1 DEF OpToRel
<1>3. \A u \in S : t <= u
  BY <1>2
<1> QED BY <1>3 DEF Min

\* What a concatenation consists of
LEMMA ConcatElements ==
    ASSUME NEW S, NEW s \in Seq(S), NEW t \in Seq(S), NEW q, q = s \o t
    PROVE  /\ q \in Seq(S) /\ Len(q) = Len(s) + Len(t)
           /\ \A i \in 1..Len(s) : q[i] = s[i]
           /\ \A i \in (Len(s) + 1)..(Len(s) + Len(t)) : q[i] = t[i - Len(s)]
OBVIOUS

\* What a list that lost its element at place m consists of
LEMMA RemoveElements ==
    ASSUME NEW S, NEW s \in Seq(S), NEW m \in 1..Len(s), NEW q, q = RemoveAt(s, m)
    PROVE  /\ q \in Seq(S) /\ Len(q) = Len(s) - 1
           /\ \A i \in 1..Len(q) : q[i] = IF i < m THEN s[i] ELSE s[i + 1]
<1> DEFINE a == SubSeq(s, 1, m - 1)
           b == SubSeq(s, m + 1, Len(s))
<1>1. /\ a \in Seq(S) /\ Len(a) = m - 1 /\ \A i \in 1..(m - 1) : a[i] = s[i]
  OBVIOUS
<1>2. /\ b \in Seq(S) /\ Len(b) = Len(s) - m
      /\ \A i \in 1..(Len(s) - m) : b[i] = s[m + i]
  <2>1. CASE m = Len(s)
    BY <2>1
  <2>2. CASE m < Len(s)
    BY <2>2
  <2> QED BY <2>1, <2>2
<1>3. q = a \o b
  BY DEF RemoveAt
<1> HIDE DEF a, b
<1>6. /\ q \in Seq(S) /\ Len(q) = Len(a) + Len(b)
      /\ \A i \in 1..Len(a) : q[i] = a[i]
      /\ \A i \in (Len(a) + 1)..(Len(a) + Len(b)) : q[i] = b[i - Len(a)]
  <2>1. a \in Seq(S) /\ b \in Seq(S)
    BY <1>1, <1>2
  <2> QED BY <1>3, <2>1, ConcatElements
<1>4. q \in Seq(S) /\ Len(q) = Len(s) - 1
  BY <1>1, <1>2, <1>6
<1>5. ASSUME NEW i \in 1..Len(q) PROVE q[i] = IF i < m THEN s[i] ELSE s[i + 1]
  <2>1. CASE i < m
    BY <1>1, <1>6, <2>1
  <2>2. CASE i >= m
    <3>1. q[i] = b[i - (m - 1)] /\ i - (m - 1) \in 1..(Len(s) - m)
      BY <1>1, <1>2, <1>4, <1>6, <2>2
    <3>2. b[i - (m - 1)] = s[m + (i - (m - 1))] /\ m + (i - (m - 1)) = i + 1
      BY <1>2, <3>1
    <3> QED BY <2>2, <3>1, <3>2
  <2> QED BY <2>1, <2>2
<1> QED BY <1>4, <1>5

\* RemoveFirst takes an element out at a place where it is.
LEMMA RemoveFirstPlace ==
    ASSUME NEW S, NEW s \in Seq(S), NEW h, h \in {s[i] : i \in 1..Len(s)}
    PROVE  \E m \in 1..Len(s) : s[m] = h /\ RemoveFirst(s, h) = RemoveAt(s, m)
<1> DEFINE I == {i \in 1..Len(s) : s[i] = h}
           m == Min(I)
<1>1. I # {} /\ I \subseteq Nat
  OBVIOUS
<1>2. m \in I
  BY <1>1, NatMin
<1>3. RemoveFirst(s, h) = RemoveAt(s, m)
  BY <1>1 DEF RemoveFirst, SelectInSeq
<1> QED BY <1>2, <1>3

\* An element that is in a list once at most is not in it afterwards.
LEMMA RemoveOnly ==
    ASSUME NEW S, NEW s \in Seq(S), NEW h,
           \A i, j \in 1..Len(s) : s[i] = h /\ s[j] = h => i = j
    PROVE  /\ RemoveFirst(s, h) \in Seq(S)
           /\ \A i \in 1..Len(RemoveFirst(s, h)) : RemoveFirst(s, h)[i] # h
<1>1. CASE h \in {s[i] : i \in 1..Len(s)}
  <2> DEFINE q == RemoveFirst(s, h)
  <2>1. PICK m \in 1..Len(s) : s[m] = h /\ q = RemoveAt(s, m)
    BY <1>1, RemoveFirstPlace
  <2>2. /\ q \in Seq(S) /\ Len(q) = Len(s) - 1
        /\ \A i \in 1..Len(q) : q[i] = IF i < m THEN s[i] ELSE s[i + 1]
    <3>1. m \in 1..Len(s) /\ q = RemoveAt(s, m)
      BY <2>1
    <3> HIDE DEF q
    <3> QED BY <3>1, RemoveElements
  <2>3. ASSUME NEW i \in 1..Len(q) PROVE q[i] # h
    <3> HIDE DEF q
    <3>1. CASE i < m
      BY <2>1, <2>2, <3>1
    <3>2. CASE i >= m
      <4>1. i + 1 \in 1..Len(s) /\ i + 1 # m
        BY <2>1, <2>2, <3>2
      <4> QED BY <2>1, <2>2, <3>2, <4>1
    <3> QED BY <3>1, <3>2
  <2> QED BY <2>2, <2>3
<1>2. CASE h \notin {s[i] : i \in 1..Len(s)}
  <2>1. RemoveFirst(s, h) = s
    BY <1>2 DEF RemoveFirst
  <2> QED BY <1>2, <2>1
<1> QED BY <1>1, <1>2

-----------------------------------------------------------------------------
(* The types of the driver's state *)

Nodes ==
    [there : BOOLEAN, proc : BOOLEAN, internal_strong_refs : Nat,
     local_strong_refs : Nat, local_weak_refs : Nat,
     has_strong_ref : BOOLEAN, pending_strong_ref : BOOLEAN,
     has_weak_ref : BOOLEAN, pending_weak_ref : BOOLEAN]

RefTypes == [there : BOOLEAN, strong : Nat, weak : Nat]
WorkTypes == {"node", "complete"}

Drivers ==
    [node : Nodes, ref : [Clients -> RefTypes], todo : [Lists -> Seq(WorkTypes)]]

\* The node's work is on one list at most, and there once.
Once(todo) ==
    \A l, m \in Lists : \A i \in DOMAIN todo[l], j \in DOMAIN todo[m] :
        todo[l][i] = "node" /\ todo[m][j] = "node" => l = m /\ i = j

OnList(todo) == \E l \in Lists : \E i \in DOMAIN todo[l] : todo[l][i] = "node"
Empty(todo) == \A l \in Lists : todo[l] = <<>>

\* list_del_init takes the node's work off its list.
LEMMA UnqueuedEffect ==
    ASSUME NEW todo \in [Lists -> Seq(WorkTypes)], Once(todo)
    PROVE  /\ Unqueued(todo) \in [Lists -> Seq(WorkTypes)]
           /\ ~ OnList(Unqueued(todo))
           /\ Empty(todo) => Empty(Unqueued(todo))
<1> DEFINE u == Unqueued(todo)
<1>0. \A l \in Lists : u[l] = RemoveFirst(todo[l], "node")
  BY DEF Unqueued
<1>1. ASSUME NEW l \in Lists
      PROVE  /\ u[l] \in Seq(WorkTypes)
             /\ \A i \in DOMAIN u[l] : u[l][i] # "node"
  <2>1. todo[l] \in Seq(WorkTypes) /\ DOMAIN todo[l] = 1..Len(todo[l])
    OBVIOUS
  <2>2. \A i, j \in 1..Len(todo[l]) : todo[l][i] = "node" /\ todo[l][j] = "node" => i = j
    BY <2>1 DEF Once
  <2> DEFINE s == todo[l]
             q == RemoveFirst(s, "node")
  <2>3. s \in Seq(WorkTypes) /\ \A i, j \in 1..Len(s) : s[i] = "node" /\ s[j] = "node" => i = j
    BY <2>1, <2>2
  <2> HIDE DEF s
  <2>4. q \in Seq(WorkTypes) /\ \A i \in 1..Len(q) : q[i] # "node"
    BY <2>3, RemoveOnly
  <2>5. u[l] = q
    BY <1>0 DEF s
  <2> HIDE DEF q
  <2> QED BY <2>4, <2>5
<1>2. u = [l \in Lists |-> u[l]]
  BY DEF Unqueued
<1>3. Empty(todo) => Empty(u)
  <2>1. RemoveFirst(<<>>, "node") = <<>>
    BY DEF RemoveFirst
  <2> HIDE DEF u
  <2> QED BY <1>0, <2>1 DEF Empty
<1> HIDE DEF u
<1>4. u \in [Lists -> Seq(WorkTypes)] /\ ~ OnList(u)
  BY <1>1, <1>2 DEF OnList
<1> QED BY <1>3, <1>4 DEF u

\* list_add_tail puts it on one.
LEMMA EnqueueEffect ==
    ASSUME NEW todo \in [Lists -> Seq(WorkTypes)], ~ OnList(todo), NEW l \in Lists
    PROVE  /\ Enqueue(todo, l) \in [Lists -> Seq(WorkTypes)]
           /\ Once(Enqueue(todo, l)) /\ OnList(Enqueue(todo, l))
<1> DEFINE e == Enqueue(todo, l)
<1>1. todo[l] \in Seq(WorkTypes) /\ "node" \in WorkTypes /\ Len(todo[l]) \in Nat
  BY DEF WorkTypes
<1>2. /\ e \in [Lists -> Seq(WorkTypes)] /\ e[l] = Append(todo[l], "node")
      /\ \A m \in Lists \ {l} : e[m] = todo[m]
  BY <1>1 DEF Enqueue
<1>3. /\ DOMAIN e[l] = 1..(Len(todo[l]) + 1) /\ e[l][Len(todo[l]) + 1] = "node"
      /\ \A i \in 1..Len(todo[l]) : e[l][i] # "node"
  BY <1>1, <1>2 DEF OnList
<1> HIDE DEF e
<1>4. \A m \in Lists : \A i \in DOMAIN e[m] : e[m][i] = "node" => m = l /\ i = Len(todo[l]) + 1
  <2> SUFFICES ASSUME NEW m \in Lists, NEW i \in DOMAIN e[m], e[m][i] = "node"
               PROVE  m = l /\ i = Len(todo[l]) + 1
    OBVIOUS
  <2>1. m = l
    BY <1>2 DEF OnList
  <2> QED BY <1>1, <1>3, <2>1
<1>5. Once(e)
  BY <1>4 DEF Once
<1>6. OnList(e)
  BY <1>1, <1>3 DEF OnList
<1> QED BY <1>2, <1>5, <1>6 DEF e

-----------------------------------------------------------------------------
(* Counting at the node *)

\* The flags of two nodes are the same.
SameFlags(m, n) ==
    /\ m.there = n.there /\ m.proc = n.proc
    /\ m.has_strong_ref = n.has_strong_ref /\ m.pending_strong_ref = n.pending_strong_ref
    /\ m.has_weak_ref = n.has_weak_ref /\ m.pending_weak_ref = n.pending_weak_ref

\* Node m has a, b and c internal, local and weak references more than n.
MoreThan(m, n, a, b, c) ==
    /\ m \in Nodes /\ SameFlags(m, n)
    /\ m.internal_strong_refs = n.internal_strong_refs + a
    /\ m.local_strong_refs = n.local_strong_refs + b
    /\ m.local_weak_refs = n.local_weak_refs + c

\* A node with one of its counts set
LEMMA CountSet ==
    ASSUME NEW n \in Nodes, NEW x \in Nat, NEW m
    PROVE
        /\ m = [n EXCEPT !.internal_strong_refs = x] =>
              /\ m \in Nodes /\ SameFlags(m, n) /\ m.internal_strong_refs = x
              /\ m.local_strong_refs = n.local_strong_refs
              /\ m.local_weak_refs = n.local_weak_refs
        /\ m = [n EXCEPT !.local_strong_refs = x] =>
              /\ m \in Nodes /\ SameFlags(m, n) /\ m.local_strong_refs = x
              /\ m.internal_strong_refs = n.internal_strong_refs
              /\ m.local_weak_refs = n.local_weak_refs
        /\ m = [n EXCEPT !.local_weak_refs = x] =>
              /\ m \in Nodes /\ SameFlags(m, n) /\ m.local_weak_refs = x
              /\ m.internal_strong_refs = n.internal_strong_refs
              /\ m.local_strong_refs = n.local_strong_refs
<1>1. ASSUME m = [n EXCEPT !.internal_strong_refs = x]
      PROVE  /\ m \in Nodes /\ SameFlags(m, n) /\ m.internal_strong_refs = x
             /\ m.local_strong_refs = n.local_strong_refs
             /\ m.local_weak_refs = n.local_weak_refs
  BY <1>1 DEF Nodes, SameFlags
<1>2. ASSUME m = [n EXCEPT !.local_strong_refs = x]
      PROVE  /\ m \in Nodes /\ SameFlags(m, n) /\ m.local_strong_refs = x
             /\ m.internal_strong_refs = n.internal_strong_refs
             /\ m.local_weak_refs = n.local_weak_refs
  BY <1>2 DEF Nodes, SameFlags
<1>3. ASSUME m = [n EXCEPT !.local_weak_refs = x]
      PROVE  /\ m \in Nodes /\ SameFlags(m, n) /\ m.local_weak_refs = x
             /\ m.internal_strong_refs = n.internal_strong_refs
             /\ m.local_strong_refs = n.local_strong_refs
  BY <1>3 DEF Nodes, SameFlags
<1> QED BY <1>1, <1>2, <1>3

\* One reference more
LEMMA CountedEffect ==
    ASSUME NEW n \in Nodes
    PROVE  /\ MoreThan(Counted(n, TRUE, TRUE), n, 1, 0, 0)
           /\ MoreThan(Counted(n, TRUE, FALSE), n, 0, 1, 0)
           /\ MoreThan(Counted(n, FALSE, FALSE), n, 0, 0, 1)
           /\ Counted(n, FALSE, TRUE) = n
<1>0. n.internal_strong_refs \in Nat /\ n.local_strong_refs \in Nat /\ n.local_weak_refs \in Nat
  BY DEF Nodes
<1>1. MoreThan(Counted(n, TRUE, TRUE), n, 1, 0, 0)
  <2> DEFINE m == Counted(n, TRUE, TRUE)
             x == n.internal_strong_refs + 1
  <2>1. m = [n EXCEPT !.internal_strong_refs = x]
    BY DEF Counted
  <2>2. x \in Nat
    BY <1>0
  <2> HIDE DEF m, x
  <2>3. /\ m \in Nodes /\ SameFlags(m, n) /\ m.internal_strong_refs = x
        /\ m.local_strong_refs = n.local_strong_refs
        /\ m.local_weak_refs = n.local_weak_refs
    BY <2>1, <2>2, CountSet
  <2>4. MoreThan(m, n, 1, 0, 0)
    BY <1>0, <2>3 DEF MoreThan, x
  <2> QED BY <2>4 DEF m
<1>2. MoreThan(Counted(n, TRUE, FALSE), n, 0, 1, 0)
  <2> DEFINE m == Counted(n, TRUE, FALSE)
             x == n.local_strong_refs + 1
  <2>1. m = [n EXCEPT !.local_strong_refs = x]
    BY DEF Counted
  <2>2. x \in Nat
    BY <1>0
  <2> HIDE DEF m, x
  <2>3. /\ m \in Nodes /\ SameFlags(m, n) /\ m.local_strong_refs = x
        /\ m.internal_strong_refs = n.internal_strong_refs
        /\ m.local_weak_refs = n.local_weak_refs
    BY <2>1, <2>2, CountSet
  <2>4. MoreThan(m, n, 0, 1, 0)
    BY <1>0, <2>3 DEF MoreThan, x
  <2> QED BY <2>4 DEF m
<1>3. MoreThan(Counted(n, FALSE, FALSE), n, 0, 0, 1)
  <2> DEFINE m == Counted(n, FALSE, FALSE)
             x == n.local_weak_refs + 1
  <2>1. m = [n EXCEPT !.local_weak_refs = x]
    BY DEF Counted
  <2>2. x \in Nat
    BY <1>0
  <2> HIDE DEF m, x
  <2>3. /\ m \in Nodes /\ SameFlags(m, n) /\ m.local_weak_refs = x
        /\ m.internal_strong_refs = n.internal_strong_refs
        /\ m.local_strong_refs = n.local_strong_refs
    BY <2>1, <2>2, CountSet
  <2>4. MoreThan(m, n, 0, 0, 1)
    BY <1>0, <2>3 DEF MoreThan, x
  <2> QED BY <2>4 DEF m
<1>4. Counted(n, FALSE, TRUE) = n
  BY DEF Counted
<1> QED BY <1>1, <1>2, <1>3, <1>4

\* One reference less
LEMMA UncountedEffect ==
    ASSUME NEW n \in Nodes
    PROVE  /\ n.internal_strong_refs > 0 => MoreThan(Uncounted(n, TRUE, TRUE), n, -1, 0, 0)
           /\ n.local_strong_refs > 0 => MoreThan(Uncounted(n, TRUE, FALSE), n, 0, -1, 0)
           /\ n.local_weak_refs > 0 => MoreThan(Uncounted(n, FALSE, FALSE), n, 0, 0, -1)
           /\ Uncounted(n, FALSE, TRUE) = n
<1>0. n.internal_strong_refs \in Nat /\ n.local_strong_refs \in Nat /\ n.local_weak_refs \in Nat
  BY DEF Nodes
<1>1. ASSUME n.internal_strong_refs > 0
      PROVE  MoreThan(Uncounted(n, TRUE, TRUE), n, -1, 0, 0)
  <2> DEFINE m == Uncounted(n, TRUE, TRUE)
             x == n.internal_strong_refs - 1
  <2>1. m = [n EXCEPT !.internal_strong_refs = x]
    BY DEF Uncounted
  <2>2. x \in Nat
    BY <1>0, <1>1
  <2> HIDE DEF m, x
  <2>3. /\ m \in Nodes /\ SameFlags(m, n) /\ m.internal_strong_refs = x
        /\ m.local_strong_refs = n.local_strong_refs
        /\ m.local_weak_refs = n.local_weak_refs
    BY <2>1, <2>2, CountSet
  <2>4. MoreThan(m, n, -1, 0, 0)
    BY <1>0, <2>3 DEF MoreThan, x
  <2> QED BY <2>4 DEF m
<1>2. ASSUME n.local_strong_refs > 0
      PROVE  MoreThan(Uncounted(n, TRUE, FALSE), n, 0, -1, 0)
  <2> DEFINE m == Uncounted(n, TRUE, FALSE)
             x == n.local_strong_refs - 1
  <2>1. m = [n EXCEPT !.local_strong_refs = x]
    BY DEF Uncounted
  <2>2. x \in Nat
    BY <1>0, <1>2
  <2> HIDE DEF m, x
  <2>3. /\ m \in Nodes /\ SameFlags(m, n) /\ m.local_strong_refs = x
        /\ m.internal_strong_refs = n.internal_strong_refs
        /\ m.local_weak_refs = n.local_weak_refs
    BY <2>1, <2>2, CountSet
  <2>4. MoreThan(m, n, 0, -1, 0)
    BY <1>0, <2>3 DEF MoreThan, x
  <2> QED BY <2>4 DEF m
<1>3. ASSUME n.local_weak_refs > 0
      PROVE  MoreThan(Uncounted(n, FALSE, FALSE), n, 0, 0, -1)
  <2> DEFINE m == Uncounted(n, FALSE, FALSE)
             x == n.local_weak_refs - 1
  <2>1. m = [n EXCEPT !.local_weak_refs = x]
    BY DEF Uncounted
  <2>2. x \in Nat
    BY <1>0, <1>3
  <2> HIDE DEF m, x
  <2>3. /\ m \in Nodes /\ SameFlags(m, n) /\ m.local_weak_refs = x
        /\ m.internal_strong_refs = n.internal_strong_refs
        /\ m.local_strong_refs = n.local_strong_refs
    BY <2>1, <2>2, CountSet
  <2>4. MoreThan(m, n, 0, 0, -1)
    BY <1>0, <2>3 DEF MoreThan, x
  <2> QED BY <2>4 DEF m
<1>4. Uncounted(n, FALSE, TRUE) = n
  BY DEF Uncounted
<1> QED BY <1>1, <1>2, <1>3, <1>4

\* Driver r is s with node n, refs rf, and no less work queued.
Adds(s, n, rf, r) ==
    /\ r \in Drivers /\ r.node = n /\ r.ref = rf /\ Once(r.todo)
    /\ OnList(s.todo) => OnList(r.todo)

\* binder_inc_node, for an object that a thread sends ...
LEMMA IncNodeList ==
    ASSUME NEW s \in Drivers, Once(s.todo), NEW strong \in BOOLEAN, NEW internal \in BOOLEAN,
           NEW list \in Threads, Counted(s.node, strong, internal) \in Nodes
    PROVE  LET r == binder_inc_node(s, strong, internal, list)
           IN  /\ Adds(s, Counted(s.node, strong, internal), s.ref, r)
               /\ IF strong THEN ~ s.node.has_strong_ref => OnList(r.todo)
                  ELSE ~ s.node.has_weak_ref => OnList(r.todo)
<1> DEFINE r == binder_inc_node(s, strong, internal, list)
           n == Counted(s.node, strong, internal)
           td == IF MustAsk(s, strong, list) THEN Enqueue(Unqueued(s.todo), list) ELSE s.todo
<1>0. s.todo \in [Lists -> Seq(WorkTypes)] /\ s.ref \in [Clients -> RefTypes]
  BY DEF Drivers
<1>1. /\ td \in [Lists -> Seq(WorkTypes)] /\ Once(td)
      /\ OnList(s.todo) \/ MustAsk(s, strong, list) => OnList(td)
  <2>1. list \in Lists
    BY DEF Lists
  <2> DEFINE u == Unqueued(s.todo)
  <2>2. u \in [Lists -> Seq(WorkTypes)] /\ ~ OnList(u)
    BY <1>0, UnqueuedEffect
  <2> HIDE DEF u
  <2>3. Enqueue(u, list) \in [Lists -> Seq(WorkTypes)] /\ Once(Enqueue(u, list)) /\ OnList(Enqueue(u, list))
    BY <2>1, <2>2, EnqueueEffect
  <2> QED BY <1>0, <2>3 DEF u
<1>2. r = [s EXCEPT !.node = n, !.todo = td]
  BY DEF binder_inc_node
<1>3. IF strong THEN ~ s.node.has_strong_ref => MustAsk(s, strong, list)
      ELSE ~ s.node.has_weak_ref => MustAsk(s, strong, list) \/ OnList(s.todo)
  BY BinderAssumption DEF MustAsk, Queued, OnList
<1> HIDE DEF td, n
<1>4. r \in Drivers /\ r.node = n /\ r.ref = s.ref /\ r.todo = td
  <2>1. n \in Nodes
    BY DEF n
  <2> QED BY <1>0, <1>1, <1>2, <2>1 DEF Drivers
<1> HIDE DEF r
<1> QED BY <1>1, <1>3, <1>4 DEF Adds, n, r

\* ... and with no list
LEMMA IncNodeNull ==
    ASSUME NEW s \in Drivers, Once(s.todo), NEW strong \in BOOLEAN, NEW internal \in BOOLEAN,
           Counted(s.node, strong, internal) \in Nodes
    PROVE  LET r == binder_inc_node(s, strong, internal, "NULL")
           IN  Adds(s, Counted(s.node, strong, internal), s.ref, r) /\ r.todo = s.todo
<1> DEFINE r == binder_inc_node(s, strong, internal, "NULL")
           n == Counted(s.node, strong, internal)
<1>1. ~ MustAsk(s, strong, "NULL")
  BY DEF MustAsk
<1>2. r = [s EXCEPT !.node = n, !.todo = s.todo]
  BY <1>1 DEF binder_inc_node
<1> HIDE DEF n
<1>3. r \in Drivers /\ r.node = n /\ r.ref = s.ref /\ r.todo = s.todo
  <2>1. n \in Nodes
    BY DEF n
  <2> QED BY <1>2, <2>1 DEF Drivers
<1> HIDE DEF r
<1> QED BY <1>3 DEF Adds, n, r

(***************************************************************************)
(* What a release of a reference makes of driver s: r has the refs rf and  *)
(* node n, or the node is deleted and nothing was left that refers to it.  *)
(***************************************************************************)
Becomes(s, n, rf, r) ==
    /\ r \in Drivers /\ r.ref = rf /\ Once(r.todo)
    /\ Empty(s.todo) /\ ~ n.proc => Empty(r.todo)
    /\ \/ /\ r.node = n
          /\ OnList(s.todo) => OnList(r.todo)
          /\ OnList(r.todo) => OnList(s.todo) \/ n.proc
       \/ /\ r.node = NoNode /\ ~ OnList(r.todo)
          /\ \A c \in Clients : ~ rf[c].there
          /\ n.local_strong_refs = 0 /\ n.local_weak_refs = 0

\* The last reference of its kind
LEMMA LastGoneEffect ==
    ASSUME NEW s \in Drivers, Once(s.todo)
    PROVE  Becomes(s, s.node, s.ref, LastGone(s))
<1> DEFINE n == s.node
           asked == n.proc /\ (n.has_strong_ref \/ n.has_weak_ref)
           gone == Refs(s) = {} /\ n.local_strong_refs = 0 /\ n.local_weak_refs = 0
<1>0. /\ s.todo \in [Lists -> Seq(WorkTypes)] /\ s.ref \in [Clients -> RefTypes] /\ n \in Nodes
      /\ Queued(s) <=> OnList(s.todo)
  BY DEF Drivers, Queued, OnList
<1>1. CASE LastGone(s) = s
  BY <1>0, <1>1 DEF Becomes
<1>2. CASE asked /\ ~ Queued(s)
  <2> DEFINE td == Enqueue(s.todo, "proc")
  <2>1. LastGone(s) = [s EXCEPT !.todo = td]
    BY <1>2 DEF LastGone
  <2>2. td \in [Lists -> Seq(WorkTypes)] /\ Once(td) /\ OnList(td)
    BY <1>0, <1>2, EnqueueEffect DEF Lists
  <2> HIDE DEF td
  <2>3. /\ LastGone(s) \in Drivers /\ LastGone(s).node = n /\ LastGone(s).ref = s.ref
        /\ LastGone(s).todo = td
    BY <2>1, <2>2 DEF Drivers
  <2> QED BY <1>2, <2>2, <2>3 DEF Becomes
<1>3. CASE ~ asked /\ gone
  <2> DEFINE td == Unqueued(s.todo)
  <2>1. LastGone(s) = [s EXCEPT !.node = NoNode, !.todo = td]
    BY <1>3 DEF LastGone
  <2>2. td \in [Lists -> Seq(WorkTypes)] /\ ~ OnList(td) /\ (Empty(s.todo) => Empty(td))
    BY <1>0, UnqueuedEffect
  <2>3. Once(td)
    BY <2>2 DEF Once, OnList
  <2>4. NoNode \in Nodes
    BY DEF NoNode, Nodes
  <2> HIDE DEF td
  <2>5. /\ LastGone(s) \in Drivers /\ LastGone(s).node = NoNode /\ LastGone(s).ref = s.ref
        /\ LastGone(s).todo = td
    BY <2>1, <2>2, <2>4 DEF Drivers
  <2>6. \A c \in Clients : ~ s.ref[c].there
    BY <1>3 DEF Refs
  <2> QED BY <1>3, <2>2, <2>3, <2>5, <2>6 DEF Becomes
<1>4. CASE asked /\ Queued(s)
  <2>1. LastGone(s) = s
    BY <1>4 DEF LastGone
  <2> QED BY <1>1, <2>1
<1>5. CASE ~ asked /\ ~ gone
  <2>1. LastGone(s) = s
    BY <1>5 DEF LastGone
  <2> QED BY <1>1, <2>1
<1> HIDE DEF asked, gone, n
<1> QED BY <1>2, <1>3, <1>4, <1>5, Zenon

\* binder_dec_node
LEMMA DecNode ==
    ASSUME NEW s \in Drivers, Once(s.todo), NEW strong, NEW internal,
           Uncounted(s.node, strong, internal) \in Nodes
    PROVE  Becomes(s, Uncounted(s.node, strong, internal), s.ref,
                   binder_dec_node(s, strong, internal))
<1> DEFINE n == Uncounted(s.node, strong, internal)
           t == [s EXCEPT !.node = n]
           r == binder_dec_node(s, strong, internal)
<1>1. t \in Drivers /\ t.node = n /\ t.ref = s.ref /\ t.todo = s.todo
  <2>1. n \in Nodes
    OBVIOUS
  <2> HIDE DEF n
  <2> QED BY <2>1 DEF Drivers
<1>2. r = t \/ r = LastGone(t)
  BY DEF binder_dec_node
<1> HIDE DEF n, t, r
<1>3. CASE r = t
  BY <1>1, <1>3 DEF Becomes, n, r
<1>4. CASE r = LastGone(t)
  <2>1. Becomes(t, t.node, t.ref, r)
    BY <1>1, <1>4, LastGoneEffect
  <2> QED BY <1>1, <2>1 DEF Becomes, n, r
<1> QED BY <1>2, <1>3, <1>4

\* The same for each kind of reference
LEMMA DecNodeKinds ==
    ASSUME NEW s \in Drivers, Once(s.todo)
    PROVE  /\ s.node.internal_strong_refs > 0 =>
                 Becomes(s, Uncounted(s.node, TRUE, TRUE), s.ref, binder_dec_node(s, TRUE, TRUE))
           /\ s.node.local_strong_refs > 0 =>
                 Becomes(s, Uncounted(s.node, TRUE, FALSE), s.ref, binder_dec_node(s, TRUE, FALSE))
           /\ s.node.local_weak_refs > 0 =>
                 Becomes(s, Uncounted(s.node, FALSE, FALSE), s.ref, binder_dec_node(s, FALSE, FALSE))
           /\ Becomes(s, s.node, s.ref, binder_dec_node(s, FALSE, TRUE))
<1> DEFINE yes == TRUE
           no == FALSE
<1>0. s.node \in Nodes
  BY DEF Drivers
<1>1. /\ s.node.internal_strong_refs > 0 => Uncounted(s.node, yes, yes) \in Nodes
      /\ s.node.local_strong_refs > 0 => Uncounted(s.node, yes, no) \in Nodes
      /\ s.node.local_weak_refs > 0 => Uncounted(s.node, no, no) \in Nodes
      /\ Uncounted(s.node, no, yes) = s.node
  BY <1>0, UncountedEffect DEF MoreThan
<1> HIDE DEF yes, no
<1>2. /\ s.node.internal_strong_refs > 0 =>
            Becomes(s, Uncounted(s.node, yes, yes), s.ref, binder_dec_node(s, yes, yes))
      /\ s.node.local_strong_refs > 0 =>
            Becomes(s, Uncounted(s.node, yes, no), s.ref, binder_dec_node(s, yes, no))
      /\ s.node.local_weak_refs > 0 =>
            Becomes(s, Uncounted(s.node, no, no), s.ref, binder_dec_node(s, no, no))
      /\ Becomes(s, s.node, s.ref, binder_dec_node(s, no, yes))
  BY <1>0, <1>1, DecNode
<1> QED BY <1>2 DEF yes, no

-----------------------------------------------------------------------------
(* Counting at the refs *)

\* A driver with other refs
LEMMA RefSet ==
    ASSUME NEW s \in Drivers, NEW f \in [Clients -> RefTypes], NEW r, r = [s EXCEPT !.ref = f]
    PROVE  r \in Drivers /\ r.node = s.node /\ r.todo = s.todo /\ r.ref = f
BY DEF Drivers

\* binder_delete_ref: what its count at the node was goes with the ref.
LEMMA DeleteRef ==
    ASSUME NEW s \in Drivers, Once(s.todo), NEW c \in Clients, s.ref[c].there,
           s.ref[c].strong > 0 => s.node.internal_strong_refs > 0
    PROVE  Becomes(s, IF s.ref[c].strong > 0 THEN Uncounted(s.node, TRUE, TRUE) ELSE s.node,
                   [s.ref EXCEPT ![c] = NoRef], binder_delete_ref(s, c))
<1> DEFINE n == IF s.ref[c].strong > 0 THEN Uncounted(s.node, TRUE, TRUE) ELSE s.node
           t == IF s.ref[c].strong > 0 THEN binder_dec_node(s, TRUE, TRUE) ELSE s
           rf == [t.ref EXCEPT ![c] = NoRef]
           u == [t EXCEPT !.ref = rf]
           r == binder_delete_ref(s, c)
<1>1. /\ t \in Drivers /\ t.node = n /\ t.ref = s.ref /\ Once(t.todo)
      /\ OnList(s.todo) => OnList(t.todo)
      /\ OnList(t.todo) => OnList(s.todo) \/ n.proc
      /\ Empty(s.todo) /\ ~ n.proc => Empty(t.todo)
  <2>1. CASE s.ref[c].strong > 0
    BY <2>1, DecNodeKinds DEF Becomes
  <2>2. CASE ~ (s.ref[c].strong > 0)
    BY <2>2
  <2> QED BY <2>1, <2>2
<1>2. r = binder_dec_node(u, FALSE, TRUE)
  BY DEF binder_delete_ref
<1> HIDE DEF t, r, n
<1>3. /\ u \in Drivers /\ u.node = n /\ u.todo = t.todo /\ u.ref = rf
  <2>1. NoRef \in RefTypes
    BY DEF NoRef, RefTypes
  <2>2. t \in Drivers /\ rf \in [Clients -> RefTypes] /\ u = [t EXCEPT !.ref = rf]
    BY <1>1, <2>1 DEF Drivers
  <2> HIDE DEF u, rf
  <2>3. u \in Drivers /\ u.node = t.node /\ u.todo = t.todo /\ u.ref = rf
    BY <2>2, RefSet
  <2> QED BY <1>1, <2>3
<1>4. rf = [s.ref EXCEPT ![c] = NoRef]
  BY <1>1
<1> HIDE DEF u, rf
<1>5. Becomes(u, u.node, u.ref, r)
  BY <1>1, <1>2, <1>3, DecNodeKinds
<1>6. Becomes(s, n, rf, r)
  BY <1>1, <1>3, <1>5 DEF Becomes
<1> QED BY <1>4, <1>6 DEF n, r

\* The refs f with x strong, or weak, references for c
WithStrong(f, c, x) == [f EXCEPT ![c] = [there |-> f[c].there, strong |-> x, weak |-> f[c].weak]]
WithWeak(f, c, x) == [f EXCEPT ![c] = [there |-> f[c].there, strong |-> f[c].strong, weak |-> x]]

\* As the code writes it
SetStrong(s, c, x) == [s EXCEPT !.ref[c].strong = x]
SetWeak(s, c, x) == [s EXCEPT !.ref[c].weak = x]

\* Setting a count of a ref changes nothing else.
LEMMA RefWith ==
    ASSUME NEW s \in Drivers, NEW c \in Clients, NEW x \in Nat
    PROVE  /\ SetStrong(s, c, x) \in Drivers /\ SetStrong(s, c, x).node = s.node
           /\ SetStrong(s, c, x).todo = s.todo /\ SetStrong(s, c, x).ref = WithStrong(s.ref, c, x)
           /\ SetWeak(s, c, x) \in Drivers /\ SetWeak(s, c, x).node = s.node
           /\ SetWeak(s, c, x).todo = s.todo /\ SetWeak(s, c, x).ref = WithWeak(s.ref, c, x)
<1>1. s.ref \in [Clients -> RefTypes] /\ s.ref[c] \in RefTypes
  BY DEF Drivers
<1> DEFINE a == [s.ref[c] EXCEPT !.strong = x]
           b == [s.ref[c] EXCEPT !.weak = x]
           f == [s.ref EXCEPT ![c] = a]
           g == [s.ref EXCEPT ![c] = b]
<1>2. /\ a = [there |-> s.ref[c].there, strong |-> x, weak |-> s.ref[c].weak] /\ a \in RefTypes
      /\ b = [there |-> s.ref[c].there, strong |-> s.ref[c].strong, weak |-> x] /\ b \in RefTypes
  BY <1>1 DEF RefTypes
<1>3. SetStrong(s, c, x) = [s EXCEPT !.ref = f] /\ SetWeak(s, c, x) = [s EXCEPT !.ref = g]
  BY DEF SetStrong, SetWeak
<1> HIDE DEF a, b
<1>4. f = WithStrong(s.ref, c, x) /\ g = WithWeak(s.ref, c, x)
  BY <1>2 DEF WithStrong, WithWeak
<1>5. f \in [Clients -> RefTypes] /\ g \in [Clients -> RefTypes]
  BY <1>1, <1>2
<1> HIDE DEF f, g
<1> QED BY <1>3, <1>4, <1>5, RefSet

\* binder_inc_ref with the list of a thread
LEMMA IncRefList ==
    ASSUME NEW s \in Drivers, Once(s.todo), NEW c \in Clients, NEW t \in Threads
    PROVE  /\ LET r == binder_inc_ref(s, c, TRUE, t)
              IN  /\ Adds(s, IF s.ref[c].strong = 0 THEN Counted(s.node, TRUE, TRUE) ELSE s.node,
                          WithStrong(s.ref, c, s.ref[c].strong + 1), r)
                  /\ s.ref[c].strong = 0 /\ ~ s.node.has_strong_ref => OnList(r.todo)
           /\ LET r == binder_inc_ref(s, c, FALSE, t)
              IN  /\ Adds(s, s.node, WithWeak(s.ref, c, s.ref[c].weak + 1), r)
                  /\ s.ref[c].weak = 0 /\ ~ s.node.has_weak_ref => OnList(r.todo)
<1>0. s.ref[c].strong \in Nat /\ s.ref[c].weak \in Nat /\ s.node \in Nodes /\ t # "NULL"
  BY BinderAssumption DEF Drivers, RefTypes
<1> DEFINE yes == TRUE
           no == FALSE
<1>y. yes \in BOOLEAN /\ no \in BOOLEAN
  OBVIOUS
<1>c. /\ Counted(s.node, yes, yes) \in Nodes /\ Counted(s.node, no, yes) = s.node
  BY <1>0, CountedEffect DEF MoreThan
<1>1. LET r == binder_inc_ref(s, c, yes, t)
      IN  /\ Adds(s, IF s.ref[c].strong = 0 THEN Counted(s.node, yes, yes) ELSE s.node,
                  WithStrong(s.ref, c, s.ref[c].strong + 1), r)
          /\ s.ref[c].strong = 0 /\ ~ s.node.has_strong_ref => OnList(r.todo)
  <2> DEFINE x == s.ref[c].strong + 1
             n == IF s.ref[c].strong = 0 THEN Counted(s.node, yes, yes) ELSE s.node
             u == IF s.ref[c].strong = 0 THEN binder_inc_node(s, yes, yes, t) ELSE s
             r == binder_inc_ref(s, c, yes, t)
  <2>1. /\ Adds(s, n, s.ref, u)
        /\ s.ref[c].strong = 0 /\ ~ s.node.has_strong_ref => OnList(u.todo)
    <3>1. CASE s.ref[c].strong = 0
      <4>1. LET v == binder_inc_node(s, yes, yes, t)
            IN  /\ Adds(s, Counted(s.node, yes, yes), s.ref, v)
                /\ IF yes THEN ~ s.node.has_strong_ref => OnList(v.todo)
                   ELSE ~ s.node.has_weak_ref => OnList(v.todo)
        <5> HIDE DEF yes
        <5> QED BY <1>y, <1>c, IncNodeList
      <4> QED BY <3>1, <4>1
    <3>2. CASE s.ref[c].strong # 0
      BY <3>2 DEF Adds
    <3> QED BY <3>1, <3>2
  <2>2. u \in Drivers /\ u.ref = s.ref
    BY <2>1 DEF Adds
  <2>3. r = [u EXCEPT !.ref[c].strong = u.ref[c].strong + 1]
    BY <1>0 DEF binder_inc_ref
  <2> HIDE DEF u, r, n
  <2>4. x \in Nat /\ u.ref[c].strong + 1 = x
    BY <1>0, <2>2
  <2> HIDE DEF x
  <2>5. r = SetStrong(u, c, x)
    BY <2>3, <2>4 DEF SetStrong
  <2> DEFINE f == WithStrong(s.ref, c, x)
  <2>6. r \in Drivers /\ r.node = u.node /\ r.todo = u.todo /\ r.ref = f
    BY <2>2, <2>4, <2>5, RefWith, SMTT(30)
  <2> HIDE DEF f
  <2>7. Adds(s, n, f, r) /\ (s.ref[c].strong = 0 /\ ~ s.node.has_strong_ref => OnList(r.todo))
    BY <2>1, <2>6 DEF Adds
  <2> QED BY <2>7 DEF f, x, n, r
<1>2. LET r == binder_inc_ref(s, c, no, t)
      IN  /\ Adds(s, s.node, WithWeak(s.ref, c, s.ref[c].weak + 1), r)
          /\ s.ref[c].weak = 0 /\ ~ s.node.has_weak_ref => OnList(r.todo)
  <2> DEFINE x == s.ref[c].weak + 1
             u == IF s.ref[c].weak = 0 THEN binder_inc_node(s, no, yes, t) ELSE s
             r == binder_inc_ref(s, c, no, t)
  <2>1. /\ Adds(s, s.node, s.ref, u)
        /\ s.ref[c].weak = 0 /\ ~ s.node.has_weak_ref => OnList(u.todo)
    <3>1. CASE s.ref[c].weak = 0
      <4>1. LET v == binder_inc_node(s, no, yes, t)
            IN  /\ Adds(s, Counted(s.node, no, yes), s.ref, v)
                /\ IF no THEN ~ s.node.has_strong_ref => OnList(v.todo)
                   ELSE ~ s.node.has_weak_ref => OnList(v.todo)
        <5>1. Counted(s.node, no, yes) \in Nodes
          BY <1>0, <1>c
        <5> HIDE DEF yes, no
        <5> QED BY <1>y, <5>1, IncNodeList
      <4> QED BY <1>c, <3>1, <4>1
    <3>2. CASE s.ref[c].weak # 0
      BY <3>2 DEF Adds
    <3> QED BY <3>1, <3>2
  <2>2. u \in Drivers /\ u.ref = s.ref
    BY <2>1 DEF Adds
  <2>3. r = [u EXCEPT !.ref[c].weak = u.ref[c].weak + 1]
    BY <1>0 DEF binder_inc_ref
  <2> HIDE DEF u, r
  <2>4. x \in Nat /\ u.ref[c].weak + 1 = x
    BY <1>0, <2>2
  <2> HIDE DEF x
  <2>5. r = SetWeak(u, c, x)
    BY <2>3, <2>4 DEF SetWeak
  <2> DEFINE f == WithWeak(s.ref, c, x)
  <2>6. r \in Drivers /\ r.node = u.node /\ r.todo = u.todo /\ r.ref = f
    BY <2>2, <2>4, <2>5, RefWith, SMTT(30)
  <2> HIDE DEF f
  <2>7. Adds(s, s.node, f, r) /\ (s.ref[c].weak = 0 /\ ~ s.node.has_weak_ref => OnList(r.todo))
    BY <2>1, <2>6 DEF Adds
  <2> QED BY <2>7 DEF f, x, r
<1> QED BY <1>1, <1>2

\* ... and with no list: a first reference of its kind may be refused.
LEMMA IncRefNull ==
    ASSUME NEW s \in Drivers, Once(s.todo), NEW c \in Clients
    PROVE  /\ LET r == binder_inc_ref(s, c, TRUE, "NULL")
              IN  IF s.ref[c].strong = 0 /\ s.node.internal_strong_refs = 0 THEN r = s
                  ELSE /\ Adds(s, IF s.ref[c].strong = 0 THEN Counted(s.node, TRUE, TRUE) ELSE s.node,
                               WithStrong(s.ref, c, s.ref[c].strong + 1), r)
                       /\ r.todo = s.todo
           /\ LET r == binder_inc_ref(s, c, FALSE, "NULL")
              IN  IF s.ref[c].weak = 0 /\ ~ s.node.has_weak_ref /\ ~ OnList(s.todo) THEN r = s
                  ELSE /\ Adds(s, s.node, WithWeak(s.ref, c, s.ref[c].weak + 1), r)
                       /\ r.todo = s.todo
<1>0. s.ref[c].strong \in Nat /\ s.ref[c].weak \in Nat /\ s.node \in Nodes
  BY DEF Drivers, RefTypes
<1> DEFINE yes == TRUE
           no == FALSE
<1>y. yes \in BOOLEAN /\ no \in BOOLEAN
  OBVIOUS
<1>c. /\ Counted(s.node, yes, yes) \in Nodes /\ Counted(s.node, no, yes) = s.node
  BY <1>0, CountedEffect DEF MoreThan
<1>1. ASSUME ~ (s.ref[c].strong = 0 /\ s.node.internal_strong_refs = 0)
      PROVE  LET r == binder_inc_ref(s, c, yes, "NULL")
             IN  /\ Adds(s, IF s.ref[c].strong = 0 THEN Counted(s.node, yes, yes) ELSE s.node,
                         WithStrong(s.ref, c, s.ref[c].strong + 1), r)
                 /\ r.todo = s.todo
  <2> DEFINE x == s.ref[c].strong + 1
             n == IF s.ref[c].strong = 0 THEN Counted(s.node, yes, yes) ELSE s.node
             u == IF s.ref[c].strong = 0 THEN binder_inc_node(s, yes, yes, "NULL") ELSE s
             r == binder_inc_ref(s, c, yes, "NULL")
  <2>1. Adds(s, n, s.ref, u) /\ u.todo = s.todo
    <3>1. CASE s.ref[c].strong = 0
      <4>1. LET v == binder_inc_node(s, yes, yes, "NULL")
            IN  Adds(s, Counted(s.node, yes, yes), s.ref, v) /\ v.todo = s.todo
        <5> HIDE DEF yes
        <5> QED BY <1>y, <1>c, IncNodeNull
      <4> QED BY <3>1, <4>1
    <3>2. CASE s.ref[c].strong # 0
      BY <3>2 DEF Adds
    <3> QED BY <3>1, <3>2
  <2>2. u \in Drivers /\ u.ref = s.ref
    BY <2>1 DEF Adds
  <2>3. r = [u EXCEPT !.ref[c].strong = u.ref[c].strong + 1]
    BY <1>0, <1>1 DEF binder_inc_ref, InvalidInc
  <2> HIDE DEF u, r, n
  <2>4. x \in Nat /\ u.ref[c].strong + 1 = x
    BY <1>0, <2>2
  <2> HIDE DEF x
  <2>5. r = SetStrong(u, c, x)
    BY <2>3, <2>4 DEF SetStrong
  <2> DEFINE f == WithStrong(s.ref, c, x)
  <2>6. r \in Drivers /\ r.node = u.node /\ r.todo = u.todo /\ r.ref = f
    BY <2>2, <2>4, <2>5, RefWith
  <2> HIDE DEF f
  <2>7. Adds(s, n, f, r) /\ r.todo = s.todo
    BY <2>1, <2>6 DEF Adds
  <2> QED BY <2>7 DEF f, x, n, r
<1>2. ASSUME ~ (s.ref[c].weak = 0 /\ ~ s.node.has_weak_ref /\ ~ OnList(s.todo))
      PROVE  LET r == binder_inc_ref(s, c, no, "NULL")
             IN  /\ Adds(s, s.node, WithWeak(s.ref, c, s.ref[c].weak + 1), r)
                 /\ r.todo = s.todo
  <2> DEFINE x == s.ref[c].weak + 1
             u == IF s.ref[c].weak = 0 THEN binder_inc_node(s, no, yes, "NULL") ELSE s
             r == binder_inc_ref(s, c, no, "NULL")
  <2>1. Adds(s, s.node, s.ref, u) /\ u.todo = s.todo
    <3>1. CASE s.ref[c].weak = 0
      <4>1. LET v == binder_inc_node(s, no, yes, "NULL")
            IN  Adds(s, Counted(s.node, no, yes), s.ref, v) /\ v.todo = s.todo
        <5>1. Counted(s.node, no, yes) \in Nodes
          BY <1>0, <1>c
        <5> HIDE DEF yes, no
        <5> QED BY <1>y, <5>1, IncNodeNull
      <4> QED BY <1>c, <3>1, <4>1
    <3>2. CASE s.ref[c].weak # 0
      BY <3>2 DEF Adds
    <3> QED BY <3>1, <3>2
  <2>2. u \in Drivers /\ u.ref = s.ref
    BY <2>1 DEF Adds
  <2>3. r = [u EXCEPT !.ref[c].weak = u.ref[c].weak + 1]
    BY <1>0, <1>2 DEF binder_inc_ref, InvalidInc, Queued, OnList
  <2> HIDE DEF u, r
  <2>4. x \in Nat /\ u.ref[c].weak + 1 = x
    BY <1>0, <2>2
  <2> HIDE DEF x
  <2>5. r = SetWeak(u, c, x)
    BY <2>3, <2>4 DEF SetWeak
  <2> DEFINE f == WithWeak(s.ref, c, x)
  <2>6. r \in Drivers /\ r.node = u.node /\ r.todo = u.todo /\ r.ref = f
    BY <2>2, <2>4, <2>5, RefWith
  <2> HIDE DEF f
  <2>7. Adds(s, s.node, f, r) /\ r.todo = s.todo
    BY <2>1, <2>6 DEF Adds
  <2> QED BY <2>7 DEF f, x, r
<1>3. s.ref[c].strong = 0 /\ s.node.internal_strong_refs = 0 => binder_inc_ref(s, c, TRUE, "NULL") = s
  BY DEF binder_inc_ref, InvalidInc
<1>4. s.ref[c].weak = 0 /\ ~ s.node.has_weak_ref /\ ~ OnList(s.todo) =>
        binder_inc_ref(s, c, FALSE, "NULL") = s
  BY DEF binder_inc_ref, InvalidInc, Queued, OnList
<1> QED BY <1>1, <1>2, <1>3, <1>4

\* Driver r is s with node n and refs rf, and perhaps work for the owner.
Keeps(s, n, rf, r) ==
    /\ r \in Drivers /\ r.node = n /\ r.ref = rf /\ Once(r.todo)
    /\ Empty(s.todo) /\ ~ n.proc => Empty(r.todo)
    /\ OnList(s.todo) => OnList(r.todo)
    /\ OnList(r.todo) => OnList(s.todo) \/ n.proc

\* binder_dec_ref: the last count of its kind goes on to the node, the last
\* one of the ref takes the ref with it.
LEMMA DecRef ==
    ASSUME NEW s \in Drivers, Once(s.todo), NEW c \in Clients, s.ref[c].there,
           s.ref[c].strong > 0 => s.node.internal_strong_refs > 0
    PROVE  /\ s.ref[c].strong > 0 =>
                Becomes(s, IF s.ref[c].strong = 1 THEN Uncounted(s.node, TRUE, TRUE) ELSE s.node,
                        IF s.ref[c].strong = 1 /\ s.ref[c].weak = 0 THEN [s.ref EXCEPT ![c] = NoRef]
                        ELSE WithStrong(s.ref, c, s.ref[c].strong - 1),
                        binder_dec_ref(s, c, TRUE))
           /\ s.ref[c].weak > 0 =>
                Becomes(s, s.node,
                        IF s.ref[c].weak = 1 /\ s.ref[c].strong = 0 THEN [s.ref EXCEPT ![c] = NoRef]
                        ELSE WithWeak(s.ref, c, s.ref[c].weak - 1),
                        binder_dec_ref(s, c, FALSE))
<1>0. /\ s.ref[c].strong \in Nat /\ s.ref[c].weak \in Nat /\ s.node \in Nodes
      /\ s.ref[c] \in RefTypes /\ s.ref \in [Clients -> RefTypes]
  BY DEF Drivers, RefTypes
<1>1. ASSUME s.ref[c].strong > 0
      PROVE  Becomes(s, IF s.ref[c].strong = 1 THEN Uncounted(s.node, TRUE, TRUE) ELSE s.node,
                     IF s.ref[c].strong = 1 /\ s.ref[c].weak = 0 THEN [s.ref EXCEPT ![c] = NoRef]
                     ELSE WithStrong(s.ref, c, s.ref[c].strong - 1),
                     binder_dec_ref(s, c, TRUE))
  <2> DEFINE x == s.ref[c].strong - 1
             d == [s EXCEPT !.ref[c].strong = s.ref[c].strong - 1]
             n == IF s.ref[c].strong = 1 THEN Uncounted(s.node, TRUE, TRUE) ELSE s.node
             t == IF d.ref[c].strong = 0 THEN binder_dec_node(d, TRUE, TRUE) ELSE d
             r == binder_dec_ref(s, c, TRUE)
             f == WithStrong(s.ref, c, x)
  <2>1. /\ r = (IF t.ref[c].strong = 0 /\ t.ref[c].weak = 0 THEN binder_delete_ref(t, c) ELSE t)
    <3>1. s.ref[c].strong # 0
      BY <1>0, <1>1
    <3> QED BY <3>1, Zenon DEF binder_dec_ref
  <2>2. x \in Nat /\ (x = 0 <=> s.ref[c].strong = 1) /\ d = SetStrong(s, c, x)
    BY <1>0, <1>1 DEF SetStrong
  <2> HIDE DEF d, x
  <2>3. d \in Drivers /\ d.node = s.node /\ d.todo = s.todo /\ d.ref = f
    BY <2>2, RefWith
  <2>4. f[c].strong = x /\ f[c].weak = s.ref[c].weak /\ f[c].there
    BY <1>0 DEF WithStrong
  <2>5. [f EXCEPT ![c] = NoRef] = [s.ref EXCEPT ![c] = NoRef]
    BY <1>0 DEF WithStrong
  <2> HIDE DEF f
  <2>6. Keeps(s, n, f, t)
    <3>1. CASE x = 0
      <4>1. t = binder_dec_node(d, TRUE, TRUE) /\ n = Uncounted(s.node, TRUE, TRUE)
        BY <2>2, <2>3, <2>4, <3>1
      <4> HIDE DEF t, n
      <4>2. Becomes(d, n, f, t)
        BY <1>1, <2>3, <4>1, DecNodeKinds
      <4> QED BY <2>3, <2>4, <4>2 DEF Becomes, Keeps
    <3>2. CASE x # 0
      <4>1. t = d /\ n = s.node
        BY <2>2, <2>3, <2>4, <3>2
      <4> QED BY <2>3, <4>1 DEF Keeps
    <3> QED BY <3>1, <3>2
  <2> HIDE DEF t, n
  <2>7. CASE x = 0 /\ s.ref[c].weak = 0
    <3>1. r = binder_delete_ref(t, c)
      BY <2>1, <2>4, <2>6, <2>7 DEF Keeps
    <3> HIDE DEF r
    <3>2. Becomes(t, t.node, [t.ref EXCEPT ![c] = NoRef], r)
      <4>1. t \in Drivers /\ Once(t.todo) /\ t.ref[c].there /\ t.ref[c].strong = 0
        BY <2>4, <2>6, <2>7 DEF Keeps
      <4>2. ~ (t.ref[c].strong > 0)
        BY <4>1
      <4> QED BY <3>1, <4>1, <4>2, DeleteRef
    <3>3. Becomes(s, n, [s.ref EXCEPT ![c] = NoRef], r)
      BY <2>5, <2>6, <3>2 DEF Becomes, Keeps
    <3> QED BY <2>2, <2>7, <3>3 DEF n, r
  <2>8. CASE ~ (x = 0 /\ s.ref[c].weak = 0)
    <3>1. r = t
      BY <2>1, <2>4, <2>6, <2>8 DEF Keeps
    <3> HIDE DEF r
    <3>2. Becomes(s, n, f, r)
      BY <2>6, <3>1 DEF Becomes, Keeps
    <3> QED BY <2>2, <2>8, <3>2 DEF n, r, f, x
  <2> QED BY <2>7, <2>8
<1>2. ASSUME s.ref[c].weak > 0
      PROVE  Becomes(s, s.node,
                     IF s.ref[c].weak = 1 /\ s.ref[c].strong = 0 THEN [s.ref EXCEPT ![c] = NoRef]
                     ELSE WithWeak(s.ref, c, s.ref[c].weak - 1),
                     binder_dec_ref(s, c, FALSE))
  <2> DEFINE x == s.ref[c].weak - 1
             d == [s EXCEPT !.ref[c].weak = s.ref[c].weak - 1]
             r == binder_dec_ref(s, c, FALSE)
             f == WithWeak(s.ref, c, x)
  <2>1. r = (IF d.ref[c].strong = 0 /\ d.ref[c].weak = 0 THEN binder_delete_ref(d, c) ELSE d)
    BY <1>0, <1>2 DEF binder_dec_ref
  <2>2. x \in Nat /\ (x = 0 <=> s.ref[c].weak = 1) /\ d = SetWeak(s, c, x)
    BY <1>0, <1>2 DEF SetWeak
  <2> HIDE DEF d, x
  <2>3. d \in Drivers /\ d.node = s.node /\ d.todo = s.todo /\ d.ref = f
    BY <2>2, RefWith
  <2>4. f[c].weak = x /\ f[c].strong = s.ref[c].strong /\ f[c].there
    BY <1>0 DEF WithWeak
  <2>5. [f EXCEPT ![c] = NoRef] = [s.ref EXCEPT ![c] = NoRef]
    BY <1>0 DEF WithWeak
  <2> HIDE DEF f
  <2>7. CASE x = 0 /\ s.ref[c].strong = 0
    <3>1. r = binder_delete_ref(d, c)
      BY <2>1, <2>3, <2>4, <2>7
    <3> HIDE DEF r
    <3>2. Becomes(d, d.node, [d.ref EXCEPT ![c] = NoRef], r)
      <4>1. d \in Drivers /\ Once(d.todo) /\ d.ref[c].there /\ d.ref[c].strong = 0
        BY <2>3, <2>4, <2>7
      <4>2. ~ (d.ref[c].strong > 0)
        BY <4>1
      <4> QED BY <3>1, <4>1, <4>2, DeleteRef
    <3>3. Becomes(s, s.node, [s.ref EXCEPT ![c] = NoRef], r)
      BY <2>3, <2>5, <3>2 DEF Becomes
    <3> QED BY <2>2, <2>7, <3>3 DEF r
  <2>8. CASE ~ (x = 0 /\ s.ref[c].strong = 0)
    <3>1. r = d
      BY <2>1, <2>3, <2>4, <2>8
    <3> HIDE DEF r
    <3>2. Becomes(s, s.node, f, r)
      BY <2>3, <3>1 DEF Becomes
    <3> QED BY <2>2, <2>8, <3>2 DEF r, f, x
  <2> QED BY <2>7, <2>8
<1> QED BY <1>1, <1>2

-----------------------------------------------------------------------------
(* What is always true of the driver alone *)

\* The clients with a strong reference
Strong(f) == {c \in Clients : f[c].strong > 0}

\* A ref is there for something, and the node for its refs.
RefsThere(n, f) ==
    /\ \A c \in Clients : (f[c].there => n.there) /\ (~ f[c].there => f[c] = NoRef)
    /\ n.internal_strong_refs = Cardinality(Strong(f))

\* A ref that the owner was, or will be, told of has a count.
RefsNeeded(n, f) ==
    n.proc \/ n.has_weak_ref => \A c \in Clients : f[c].there => f[c].strong + f[c].weak > 0

\* The owner has a reference for the driver, or is about to be asked for one.
FlagsOK(n) ==
    /\ n.there \/ n = NoNode
    /\ n.pending_strong_ref => n.has_strong_ref
    /\ n.pending_weak_ref => n.has_weak_ref
    /\ n.has_strong_ref => n.has_weak_ref

WorkOK(s) ==
    /\ Once(s.todo)
    /\ OnList(s.todo) => s.node.proc
    /\ s.node.proc /\ ~ s.node.has_weak_ref /\ (\E c \in Clients : s.ref[c].there) => OnList(s.todo)

Sound(s) ==
    /\ s \in Drivers /\ FlagsOK(s.node) /\ WorkOK(s)
    /\ RefsThere(s.node, s.ref) /\ RefsNeeded(s.node, s.ref)

\* A strong count of one client counts at the node while it is not zero.
LEMMA StrongCard ==
    ASSUME NEW f \in [Clients -> RefTypes], NEW g \in [Clients -> RefTypes], NEW c \in Clients,
           \A d \in Clients \ {c} : g[d].strong = f[d].strong
    PROVE  /\ Cardinality(Strong(f)) \in Nat
           /\ (f[c].strong > 0 <=> g[c].strong > 0) => Cardinality(Strong(g)) = Cardinality(Strong(f))
           /\ f[c].strong = 0 /\ g[c].strong > 0 =>
                 Cardinality(Strong(g)) = Cardinality(Strong(f)) + 1
           /\ f[c].strong > 0 /\ g[c].strong = 0 =>
                 /\ Cardinality(Strong(g)) = Cardinality(Strong(f)) - 1
                 /\ Cardinality(Strong(f)) > 0
<1>0. f[c].strong \in Nat /\ g[c].strong \in Nat
  BY DEF RefTypes
<1>1. IsFiniteSet(Strong(f)) /\ IsFiniteSet(Strong(g))
  BY BinderAssumption, FS_Subset DEF Strong
<1>2. Cardinality(Strong(f)) \in Nat /\ Cardinality(Strong(g)) \in Nat
  BY <1>1, FS_CardinalityType
<1>3. (f[c].strong > 0 <=> g[c].strong > 0) => Strong(g) = Strong(f)
  BY DEF Strong
<1>4. ASSUME f[c].strong = 0, g[c].strong > 0
      PROVE  Cardinality(Strong(g)) = Cardinality(Strong(f)) + 1
  <2>1. Strong(g) = Strong(f) \cup {c} /\ c \notin Strong(f)
    BY <1>4 DEF Strong
  <2> QED BY <1>1, <2>1, FS_AddElement
<1>5. ASSUME f[c].strong > 0, g[c].strong = 0
      PROVE  Cardinality(Strong(f)) = Cardinality(Strong(g)) + 1
  <2>1. Strong(f) = Strong(g) \cup {c} /\ c \notin Strong(g)
    BY <1>5 DEF Strong
  <2> QED BY <1>1, <2>1, FS_AddElement
<1> QED BY <1>2, <1>3, <1>4, <1>5

\* A client with a strong reference is counted at the node.
LEMMA CountPositive ==
    ASSUME NEW f \in [Clients -> RefTypes], NEW c \in Clients, f[c].strong > 0
    PROVE  Cardinality(Strong(f)) > 0
<1>1. IsFiniteSet(Strong(f)) /\ c \in Strong(f)
  BY BinderAssumption, FS_Subset DEF Strong
<1>2. Cardinality(Strong(f)) # 0
  BY <1>1, FS_EmptySet
<1> QED BY <1>1, <1>2, FS_CardinalityType

\* What a release leaves of the owner's part
SameOwner(s, r) ==
    /\ Empty(s.todo) /\ ~ s.node.proc => Empty(r.todo)
    /\ \/ /\ SameFlags(r.node, s.node)
          /\ r.node.local_strong_refs = s.node.local_strong_refs
          /\ r.node.local_weak_refs = s.node.local_weak_refs
       \/ /\ r.node = NoNode /\ \A c \in Clients : ~ r.ref[c].there
          /\ s.node.local_strong_refs = 0 /\ s.node.local_weak_refs = 0

\* A release leaves a sound driver.
LEMMA SoundDec ==
    ASSUME NEW s, Sound(s), s.node.there, NEW n \in Nodes, SameFlags(n, s.node),
           NEW f \in [Clients -> RefTypes], NEW r, Becomes(s, n, f, r),
           \A c \in Clients : f[c].there => s.ref[c].there,
           \A c \in Clients : ~ f[c].there => f[c] = NoRef,
           n.internal_strong_refs = Cardinality(Strong(f)),
           RefsNeeded(n, f)
    PROVE  Sound(r)
<1>1. CASE /\ r.node = n
           /\ OnList(s.todo) => OnList(r.todo)
           /\ OnList(r.todo) => OnList(s.todo) \/ n.proc
  <2>1. r \in Drivers /\ r.ref = f /\ Once(r.todo)
    BY DEF Becomes
  <2>2. FlagsOK(n)
    BY DEF Sound, FlagsOK, SameFlags
  <2>3. RefsThere(n, f)
    BY DEF Sound, RefsThere, SameFlags
  <2>4. WorkOK(r)
    BY <1>1, <2>1 DEF WorkOK, Sound, SameFlags
  <2> QED BY <1>1, <2>1, <2>2, <2>3, <2>4 DEF Sound
<1>2. CASE r.node = NoNode /\ ~ OnList(r.todo) /\ \A c \in Clients : ~ f[c].there
  <2>1. r \in Drivers /\ r.ref = f /\ Once(r.todo)
    BY DEF Becomes
  <2>2. FlagsOK(NoNode)
    BY DEF FlagsOK, NoNode
  <2>3. Strong(f) = {}
    BY <1>2 DEF Strong, NoRef
  <2>4. RefsThere(NoNode, f)
    BY <1>2, <2>3, FS_EmptySet DEF RefsThere, NoNode
  <2>5. WorkOK(r) /\ RefsNeeded(NoNode, f)
    BY <1>2, <2>1 DEF WorkOK, NoNode, RefsNeeded
  <2> QED BY <1>2, <2>1, <2>2, <2>4, <2>5 DEF Sound
<1> QED BY <1>1, <1>2 DEF Becomes

\* Driver r is s after a release for client c: its ref has the counts x and y.
Dropped(s, c, x, y, r) ==
    /\ Sound(r) /\ SameOwner(s, r)
    /\ \A d \in Clients \ {c} : r.ref[d] = s.ref[d]
    /\ r.ref[c].strong = x /\ r.ref[c].weak = y

\* Removing a ref
LEMMA NoRefIn ==
    ASSUME NEW f \in [Clients -> RefTypes], NEW c \in Clients, NEW g, g = [f EXCEPT ![c] = NoRef]
    PROVE  /\ g \in [Clients -> RefTypes] /\ g[c] = NoRef /\ \A d \in Clients \ {c} : g[d] = f[d]
           /\ ~ g[c].there /\ g[c].strong = 0 /\ g[c].weak = 0
BY DEF NoRef, RefTypes

\* Setting a count of a ref
LEMMA WithEffect ==
    ASSUME NEW f \in [Clients -> RefTypes], NEW c \in Clients, NEW x \in Nat
    PROVE  /\ WithStrong(f, c, x) \in [Clients -> RefTypes]
           /\ \A d \in Clients \ {c} : WithStrong(f, c, x)[d] = f[d]
           /\ WithStrong(f, c, x)[c].there = f[c].there /\ WithStrong(f, c, x)[c].strong = x
           /\ WithStrong(f, c, x)[c].weak = f[c].weak
           /\ WithWeak(f, c, x) \in [Clients -> RefTypes]
           /\ \A d \in Clients \ {c} : WithWeak(f, c, x)[d] = f[d]
           /\ WithWeak(f, c, x)[c].there = f[c].there /\ WithWeak(f, c, x)[c].weak = x
           /\ WithWeak(f, c, x)[c].strong = f[c].strong
<1>1. f[c].there \in BOOLEAN /\ f[c].strong \in Nat /\ f[c].weak \in Nat
  BY DEF RefTypes
<1> QED BY <1>1 DEF WithStrong, WithWeak, RefTypes

\* A release that gives node n and refs f is sound if both agree.
LEMMA DroppedIf ==
    ASSUME NEW s, Sound(s), NEW c \in Clients, s.ref[c].there, NEW n \in Nodes, SameFlags(n, s.node),
           n.local_strong_refs = s.node.local_strong_refs, n.local_weak_refs = s.node.local_weak_refs,
           NEW f \in [Clients -> RefTypes], NEW r, Becomes(s, n, f, r),
           \A d \in Clients \ {c} : f[d] = s.ref[d],
           ~ f[c].there => f[c] = NoRef,
           f[c].there => f[c].strong + f[c].weak > 0,
           n.internal_strong_refs = Cardinality(Strong(f))
    PROVE  Dropped(s, c, f[c].strong, f[c].weak, r)
<1>1. s.node.there
  BY DEF Sound, RefsThere
<1>2. \A d \in Clients : (f[d].there => s.ref[d].there) /\ (~ f[d].there => f[d] = NoRef)
  BY DEF Sound, RefsThere
<1>3. RefsNeeded(n, f)
  BY DEF Sound, RefsNeeded, SameFlags
<1>4. Sound(r)
  BY <1>1, <1>2, <1>3, SoundDec
<1>5. r.ref = f /\ SameOwner(s, r)
  BY DEF Becomes, SameOwner, SameFlags
<1> QED BY <1>4, <1>5 DEF Dropped

\* A ref that is there has a node, and its strong count one there.
LEMMA RefCounted ==
    ASSUME NEW s, Sound(s), NEW c \in Clients
    PROVE  /\ s \in Drivers /\ Once(s.todo) /\ s.node \in Nodes
           /\ s.ref \in [Clients -> RefTypes] /\ s.ref[c] \in RefTypes
           /\ s.ref[c].strong \in Nat /\ s.ref[c].weak \in Nat
           /\ s.ref[c].strong > 0 \/ s.ref[c].weak > 0 => s.ref[c].there
           /\ s.ref[c].strong > 0 => s.node.internal_strong_refs > 0
           /\ s.node.internal_strong_refs = Cardinality(Strong(s.ref))
<1>1. s \in Drivers /\ Once(s.todo) /\ s.node.internal_strong_refs = Cardinality(Strong(s.ref))
  BY DEF Sound, WorkOK, RefsThere
<1>2. s.node \in Nodes /\ s.ref \in [Clients -> RefTypes]
  BY <1>1 DEF Drivers
<1>3. s.ref[c] \in RefTypes /\ s.ref[c].strong \in Nat /\ s.ref[c].weak \in Nat
  BY <1>2 DEF RefTypes
<1>4. s.ref[c].strong > 0 \/ s.ref[c].weak > 0 => s.ref[c].there
  BY <1>3 DEF Sound, RefsThere, NoRef
<1>5. s.ref[c].strong > 0 => s.node.internal_strong_refs > 0
  BY <1>1, <1>2, CountPositive
<1> QED BY <1>1, <1>2, <1>3, <1>4, <1>5

\* binder_dec_ref of a strong reference ...
LEMMA DropStrong ==
    ASSUME NEW s, Sound(s), NEW c \in Clients, s.ref[c].strong > 0
    PROVE  Dropped(s, c, s.ref[c].strong - 1, s.ref[c].weak, binder_dec_ref(s, c, TRUE))
<1> DEFINE x == s.ref[c].strong
           y == s.ref[c].weak
           n == IF x = 1 THEN Uncounted(s.node, TRUE, TRUE) ELSE s.node
           g == [s.ref EXCEPT ![c] = NoRef]
           h == WithStrong(s.ref, c, x - 1)
           f == IF x = 1 /\ y = 0 THEN g ELSE h
           r == binder_dec_ref(s, c, TRUE)
<1>1. /\ s \in Drivers /\ Once(s.todo) /\ s.node \in Nodes /\ s.ref[c].there
      /\ s.ref \in [Clients -> RefTypes] /\ x \in Nat /\ y \in Nat /\ x > 0
      /\ s.node.internal_strong_refs > 0 /\ s.node.internal_strong_refs = Cardinality(Strong(s.ref))
  BY RefCounted
<1>2. Becomes(s, n, f, r)
  <2>1. s.ref[c].strong > 0 => s.node.internal_strong_refs > 0
    BY <1>1
  <2> QED BY <1>1, <2>1, DecRef
<1>3. /\ n \in Nodes /\ SameFlags(n, s.node)
      /\ n.local_strong_refs = s.node.local_strong_refs /\ n.local_weak_refs = s.node.local_weak_refs
      /\ n.internal_strong_refs = s.node.internal_strong_refs - (IF x = 1 THEN 1 ELSE 0)
  <2>1. CASE x = 1
    <3>1. MoreThan(n, s.node, -1, 0, 0)
      BY <1>1, <2>1, UncountedEffect
    <3> HIDE DEF n
    <3>2. /\ s.node.internal_strong_refs \in Nat /\ s.node.local_strong_refs \in Nat
          /\ s.node.local_weak_refs \in Nat
      BY <1>1 DEF Nodes
    <3> QED BY <2>1, <3>1, <3>2 DEF MoreThan
  <2>2. CASE x # 1
    <3>1. n = s.node /\ s.node.internal_strong_refs \in Nat
      BY <1>1, <2>2 DEF Nodes
    <3> QED BY <1>1, <2>2, <3>1 DEF SameFlags
  <2> QED BY <2>1, <2>2
<1> HIDE DEF r, n
<1>g. /\ g \in [Clients -> RefTypes] /\ g[c] = NoRef /\ (\A d \in Clients \ {c} : g[d] = s.ref[d])
      /\ ~ g[c].there /\ g[c].strong = 0 /\ g[c].weak = 0
  <2> DEFINE e == s.ref
  <2> HIDE DEF g
  <2>1. g = [e EXCEPT ![c] = NoRef] /\ e \in [Clients -> RefTypes]
    BY <1>1 DEF g
  <2> HIDE DEF e
  <2>2. /\ g \in [Clients -> RefTypes] /\ g[c] = NoRef /\ (\A d \in Clients \ {c} : g[d] = e[d])
        /\ ~ g[c].there /\ g[c].strong = 0 /\ g[c].weak = 0
    BY <2>1, NoRefIn
  <2> QED BY <2>2 DEF e
<1>h. /\ h \in [Clients -> RefTypes] /\ (\A d \in Clients \ {c} : h[d] = s.ref[d])
      /\ h[c].there /\ h[c].strong = x - 1 /\ h[c].weak = y
  <2>1. x - 1 \in Nat
    BY <1>1
  <2> QED BY <1>1, <2>1, WithEffect
<1> HIDE DEF g, h, x, y
<1>4. /\ f \in [Clients -> RefTypes] /\ (\A d \in Clients \ {c} : f[d] = s.ref[d])
      /\ f[c].strong = x - 1 /\ f[c].weak = y
      /\ ~ f[c].there => f[c] = NoRef
      /\ f[c].there => f[c].strong + f[c].weak > 0
  <2>1. CASE x = 1 /\ y = 0
    BY <1>g, <2>1
  <2>2. CASE ~ (x = 1 /\ y = 0)
    BY <1>1, <1>h, <2>2
  <2> QED BY <2>1, <2>2
<1> HIDE DEF f
<1>5. n.internal_strong_refs = Cardinality(Strong(f))
  <2>1. \A d \in Clients \ {c} : f[d].strong = s.ref[d].strong
    BY <1>4
  <2>2. /\ x # 1 => Cardinality(Strong(f)) = Cardinality(Strong(s.ref))
        /\ x = 1 => Cardinality(Strong(f)) = Cardinality(Strong(s.ref)) - 1
        /\ Cardinality(Strong(s.ref)) \in Nat
    BY <1>1, <1>4, <2>1, StrongCard DEF x
  <2> QED BY <1>1, <1>3, <2>2
<1>6. Dropped(s, c, f[c].strong, f[c].weak, r)
  BY <1>1, <1>2, <1>3, <1>4, <1>5, DroppedIf
<1> QED BY <1>4, <1>6 DEF x, y, r

\* ... and of a weak one
LEMMA DropWeak ==
    ASSUME NEW s, Sound(s), NEW c \in Clients, s.ref[c].weak > 0
    PROVE  Dropped(s, c, s.ref[c].strong, s.ref[c].weak - 1, binder_dec_ref(s, c, FALSE))
<1> DEFINE x == s.ref[c].strong
           y == s.ref[c].weak
           g == [s.ref EXCEPT ![c] = NoRef]
           h == WithWeak(s.ref, c, y - 1)
           f == IF y = 1 /\ x = 0 THEN g ELSE h
           r == binder_dec_ref(s, c, FALSE)
<1>1. /\ s \in Drivers /\ Once(s.todo) /\ s.node \in Nodes /\ s.ref[c].there
      /\ s.ref \in [Clients -> RefTypes] /\ x \in Nat /\ y \in Nat /\ y > 0
      /\ s.node.internal_strong_refs = Cardinality(Strong(s.ref))
  BY RefCounted
<1>2. Becomes(s, s.node, f, r)
  <2>1. s.ref[c].strong > 0 => s.node.internal_strong_refs > 0
    BY RefCounted
  <2> QED BY <1>1, <2>1, DecRef
<1> HIDE DEF r
<1>g. /\ g \in [Clients -> RefTypes] /\ g[c] = NoRef /\ (\A d \in Clients \ {c} : g[d] = s.ref[d])
      /\ ~ g[c].there /\ g[c].strong = 0 /\ g[c].weak = 0
  <2> DEFINE e == s.ref
  <2> HIDE DEF g
  <2>1. g = [e EXCEPT ![c] = NoRef] /\ e \in [Clients -> RefTypes]
    BY <1>1 DEF g
  <2> HIDE DEF e
  <2>2. /\ g \in [Clients -> RefTypes] /\ g[c] = NoRef /\ (\A d \in Clients \ {c} : g[d] = e[d])
        /\ ~ g[c].there /\ g[c].strong = 0 /\ g[c].weak = 0
    BY <2>1, NoRefIn
  <2> QED BY <2>2 DEF e
<1>h. /\ h \in [Clients -> RefTypes] /\ (\A d \in Clients \ {c} : h[d] = s.ref[d])
      /\ h[c].there /\ h[c].weak = y - 1 /\ h[c].strong = x
  <2>1. y - 1 \in Nat
    BY <1>1
  <2> QED BY <1>1, <2>1, WithEffect
<1> HIDE DEF g, h, x, y
<1>4. /\ f \in [Clients -> RefTypes] /\ (\A d \in Clients \ {c} : f[d] = s.ref[d])
      /\ f[c].strong = x /\ f[c].weak = y - 1
      /\ ~ f[c].there => f[c] = NoRef
      /\ f[c].there => f[c].strong + f[c].weak > 0
  <2>1. CASE y = 1 /\ x = 0
    BY <1>g, <2>1
  <2>2. CASE ~ (y = 1 /\ x = 0)
    BY <1>1, <1>h, <2>2
  <2> QED BY <2>1, <2>2
<1> HIDE DEF f
<1>5. s.node.internal_strong_refs = Cardinality(Strong(f))
  <2>1. \A d \in Clients \ {c} : f[d].strong = s.ref[d].strong
    BY <1>4
  <2>2. Cardinality(Strong(f)) = Cardinality(Strong(s.ref))
    BY <1>1, <1>4, <2>1, StrongCard DEF x
  <2> QED BY <1>1, <2>2
<1>6. SameFlags(s.node, s.node)
  BY DEF SameFlags
<1>7. Dropped(s, c, f[c].strong, f[c].weak, r)
  BY <1>1, <1>2, <1>4, <1>5, <1>6, DroppedIf
<1> QED BY <1>4, <1>7 DEF x, y, r

\* binder_dec_ref refuses a count that is zero.
LEMMA DropNothing ==
    ASSUME NEW s, NEW c \in Clients
    PROVE  /\ s.ref[c].strong = 0 => binder_dec_ref(s, c, TRUE) = s
           /\ s.ref[c].weak = 0 => binder_dec_ref(s, c, FALSE) = s
<1>1. ASSUME s.ref[c].strong = 0
      PROVE  binder_dec_ref(s, c, TRUE) = s
  <2>1. (IF TRUE THEN s.ref[c].strong ELSE s.ref[c].weak) = 0
    BY <1>1
  <2> QED BY <2>1, Zenon DEF binder_dec_ref
<1>2. ASSUME s.ref[c].weak = 0
      PROVE  binder_dec_ref(s, c, FALSE) = s
  <2>1. (IF FALSE THEN s.ref[c].strong ELSE s.ref[c].weak) = 0
    BY <1>2
  <2> QED BY <2>1, Zenon DEF binder_dec_ref
<1> QED BY <1>1, <1>2

\* binder_delete_ref
LEMMA DropAll ==
    ASSUME NEW s, Sound(s), NEW c \in Clients, s.ref[c].there
    PROVE  Dropped(s, c, 0, 0, binder_delete_ref(s, c)) /\ ~ binder_delete_ref(s, c).ref[c].there
<1> DEFINE x == s.ref[c].strong
           n == IF x > 0 THEN Uncounted(s.node, TRUE, TRUE) ELSE s.node
           f == [s.ref EXCEPT ![c] = NoRef]
           r == binder_delete_ref(s, c)
<1>1. /\ s \in Drivers /\ Once(s.todo) /\ s.node \in Nodes
      /\ s.ref \in [Clients -> RefTypes] /\ x \in Nat
      /\ x > 0 => s.node.internal_strong_refs > 0
      /\ s.node.internal_strong_refs = Cardinality(Strong(s.ref))
  BY RefCounted
<1>2. Becomes(s, n, f, r)
  BY <1>1, DeleteRef
<1>3. /\ n \in Nodes /\ SameFlags(n, s.node)
      /\ n.local_strong_refs = s.node.local_strong_refs /\ n.local_weak_refs = s.node.local_weak_refs
      /\ n.internal_strong_refs = s.node.internal_strong_refs - (IF x > 0 THEN 1 ELSE 0)
  <2>1. CASE x > 0
    <3>1. MoreThan(n, s.node, -1, 0, 0)
      BY <1>1, <2>1, UncountedEffect
    <3> HIDE DEF n
    <3>2. /\ s.node.internal_strong_refs \in Nat /\ s.node.local_strong_refs \in Nat
          /\ s.node.local_weak_refs \in Nat
      BY <1>1 DEF Nodes
    <3> QED BY <2>1, <3>1, <3>2 DEF MoreThan
  <2>2. CASE ~ (x > 0)
    <3>1. n = s.node /\ s.node.internal_strong_refs \in Nat
      BY <1>1, <2>2 DEF Nodes
    <3> HIDE DEF n, x
    <3>2. SameFlags(n, s.node) /\ n \in Nodes
      BY <1>1, <3>1 DEF SameFlags
    <3> QED BY <2>2, <3>1, <3>2
  <2> QED BY <2>1, <2>2
<1> HIDE DEF r, n
<1>4. /\ f \in [Clients -> RefTypes] /\ f[c] = NoRef /\ (\A d \in Clients \ {c} : f[d] = s.ref[d])
      /\ ~ f[c].there /\ f[c].strong = 0 /\ f[c].weak = 0
  <2> DEFINE e == s.ref
  <2> HIDE DEF f
  <2>1. f = [e EXCEPT ![c] = NoRef] /\ e \in [Clients -> RefTypes]
    BY <1>1 DEF f
  <2> HIDE DEF e
  <2>2. /\ f \in [Clients -> RefTypes] /\ f[c] = NoRef /\ (\A d \in Clients \ {c} : f[d] = e[d])
        /\ ~ f[c].there /\ f[c].strong = 0 /\ f[c].weak = 0
    BY <2>1, NoRefIn
  <2> QED BY <2>2 DEF e
<1> HIDE DEF f
<1>5. n.internal_strong_refs = Cardinality(Strong(f))
  <2>1. \A d \in Clients \ {c} : f[d].strong = s.ref[d].strong
    BY <1>4
  <2>2. /\ ~ (x > 0) => Cardinality(Strong(f)) = Cardinality(Strong(s.ref))
        /\ x > 0 => Cardinality(Strong(f)) = Cardinality(Strong(s.ref)) - 1
        /\ Cardinality(Strong(s.ref)) \in Nat
    BY <1>1, <1>4, <2>1, StrongCard
  <2> QED BY <1>1, <1>3, <2>2
<1>6. Dropped(s, c, f[c].strong, f[c].weak, r)
  BY <1>1, <1>2, <1>3, <1>4, <1>5, DroppedIf
<1>7. r.ref = f
  BY <1>2 DEF Becomes
<1> QED BY <1>4, <1>6, <1>7 DEF r

\* binder_get_ref_for_node
LEMMA GetRef ==
    ASSUME NEW s \in Drivers, NEW c \in Clients
    PROVE  LET g == binder_get_ref_for_node(s, c)
           IN  /\ g \in Drivers /\ g.node = s.node /\ g.todo = s.todo
               /\ \A d \in Clients \ {c} : g.ref[d] = s.ref[d]
               /\ g.ref[c].there /\ g.ref[c].strong = s.ref[c].strong /\ g.ref[c].weak = s.ref[c].weak
               /\ s.ref[c].there => g = s
<1> DEFINE g == binder_get_ref_for_node(s, c)
           a == [s.ref[c] EXCEPT !.there = TRUE]
           f == [s.ref EXCEPT ![c] = a]
<1>1. s.ref \in [Clients -> RefTypes] /\ s.ref[c] \in RefTypes
  BY DEF Drivers
<1>2. /\ a \in RefTypes /\ a.there /\ a.strong = s.ref[c].strong /\ a.weak = s.ref[c].weak
      /\ s.ref[c].there => a = s.ref[c]
  BY <1>1 DEF RefTypes
<1>3. g = [s EXCEPT !.ref = f]
  BY DEF binder_get_ref_for_node
<1> HIDE DEF a, g
<1>4. /\ f \in [Clients -> RefTypes] /\ f[c] = a /\ (\A d \in Clients \ {c} : f[d] = s.ref[d])
      /\ a = s.ref[c] => f = s.ref
  BY <1>1, <1>2
<1> HIDE DEF f
<1>5. g \in Drivers /\ g.node = s.node /\ g.todo = s.todo /\ g.ref = f
  BY <1>3, <1>4, RefSet
<1>6. f = s.ref => g = s
  BY <1>3 DEF Drivers
<1>7. /\ g \in Drivers /\ g.node = s.node /\ g.todo = s.todo
      /\ \A d \in Clients \ {c} : g.ref[d] = s.ref[d]
      /\ g.ref[c].there /\ g.ref[c].strong = s.ref[c].strong /\ g.ref[c].weak = s.ref[c].weak
      /\ s.ref[c].there => g = s
  BY <1>2, <1>4, <1>5, <1>6
<1> QED BY <1>7 DEF g

\* Driver r is s with a ref for c that has the counts x and y.
Gained(s, c, x, y, r) ==
    /\ Sound(r) /\ SameFlags(r.node, s.node)
    /\ r.node.local_strong_refs = s.node.local_strong_refs
    /\ r.node.local_weak_refs = s.node.local_weak_refs
    /\ \A d \in Clients \ {c} : r.ref[d] = s.ref[d]
    /\ r.ref[c].there /\ r.ref[c].strong = x /\ r.ref[c].weak = y

\* A new reference is sound if node and refs agree, and the owner is asked
\* for one.
LEMMA GainedIf ==
    ASSUME NEW s, Sound(s), s.node.there, NEW c \in Clients, NEW n \in Nodes, SameFlags(n, s.node),
           n.local_strong_refs = s.node.local_strong_refs, n.local_weak_refs = s.node.local_weak_refs,
           NEW f \in [Clients -> RefTypes], \A d \in Clients \ {c} : f[d] = s.ref[d], f[c].there,
           s.node.proc \/ s.node.has_weak_ref => f[c].strong + f[c].weak > 0,
           n.internal_strong_refs = Cardinality(Strong(f)),
           NEW r \in Drivers, r.node = n, r.ref = f, Once(r.todo),
           OnList(r.todo) => s.node.proc,
           s.node.proc /\ ~ s.node.has_weak_ref => OnList(r.todo)
    PROVE  Gained(s, c, f[c].strong, f[c].weak, r)
<1>1. FlagsOK(n)
  BY DEF Sound, FlagsOK, SameFlags
<1>2. RefsThere(n, f)
  BY DEF Sound, RefsThere, SameFlags
<1>3. RefsNeeded(n, f)
  BY DEF Sound, RefsNeeded, SameFlags
<1>4. WorkOK(r)
  BY DEF WorkOK, SameFlags
<1> QED BY <1>1, <1>2, <1>3, <1>4 DEF Sound, Gained

\* Node n when a ref with x strong references gets another
CountedFirst(n, x) == IF x = 0 THEN Counted(n, TRUE, TRUE) ELSE n

\* What one more strong reference makes of the node
LEMMA CountStrong ==
    ASSUME NEW s, Sound(s), NEW c \in Clients, NEW n,
           n = CountedFirst(s.node, s.ref[c].strong),
           NEW f \in [Clients -> RefTypes], \A d \in Clients \ {c} : f[d] = s.ref[d],
           f[c].strong = s.ref[c].strong + 1
    PROVE  /\ n \in Nodes /\ SameFlags(n, s.node)
           /\ n.local_strong_refs = s.node.local_strong_refs
           /\ n.local_weak_refs = s.node.local_weak_refs
           /\ n.internal_strong_refs = Cardinality(Strong(f))
<1> DEFINE x == s.ref[c].strong
<1>1. /\ s.node \in Nodes /\ s.ref \in [Clients -> RefTypes] /\ x \in Nat
      /\ s.node.internal_strong_refs = Cardinality(Strong(s.ref))
  BY RefCounted
<1>2. /\ s.node.internal_strong_refs \in Nat /\ s.node.local_strong_refs \in Nat
      /\ s.node.local_weak_refs \in Nat
  BY <1>1 DEF Nodes
<1>3. \A d \in Clients \ {c} : f[d].strong = s.ref[d].strong
  OBVIOUS
<1>4. /\ x # 0 => Cardinality(Strong(f)) = Cardinality(Strong(s.ref))
      /\ x = 0 => Cardinality(Strong(f)) = Cardinality(Strong(s.ref)) + 1
  BY <1>1, <1>3, StrongCard
<1>5. CASE x = 0
  <2>1. MoreThan(n, s.node, 1, 0, 0)
    BY <1>1, <1>5, CountedEffect DEF CountedFirst
  <2> QED BY <1>1, <1>2, <1>4, <1>5, <2>1 DEF MoreThan
<1>6. CASE x # 0
  <2>1. n = s.node
    BY <1>6 DEF CountedFirst
  <2> QED BY <1>1, <1>4, <1>6, <2>1 DEF SameFlags
<1> QED BY <1>5, <1>6

\* What a weak one leaves alone
LEMMA CountWeak ==
    ASSUME NEW s, Sound(s), NEW c \in Clients,
           NEW f \in [Clients -> RefTypes], \A d \in Clients \ {c} : f[d] = s.ref[d],
           f[c].strong = s.ref[c].strong
    PROVE  SameFlags(s.node, s.node) /\ s.node.internal_strong_refs = Cardinality(Strong(f))
<1>1. /\ s.node \in Nodes /\ s.ref \in [Clients -> RefTypes]
      /\ s.node.internal_strong_refs = Cardinality(Strong(s.ref))
  BY RefCounted
<1>2. \A d \in Clients \ {c} : f[d].strong = s.ref[d].strong
  OBVIOUS
<1>3. Cardinality(Strong(f)) = Cardinality(Strong(s.ref))
  BY <1>1, <1>2, StrongCard
<1> QED BY <1>1, <1>3 DEF SameFlags

\* A handle is counted for c while the owner's thread t sends the object.
LEMMA HandList ==
    ASSUME NEW s, Sound(s), s.node.there, s.node.proc, NEW c \in Clients, NEW t \in Threads
    PROVE  /\ Gained(s, c, s.ref[c].strong + 1, s.ref[c].weak, Handed(s, c, "strong", t))
           /\ Gained(s, c, s.ref[c].strong, s.ref[c].weak + 1, Handed(s, c, "weak", t))
<1> DEFINE g == binder_get_ref_for_node(s, c)
           x == s.ref[c].strong
           y == s.ref[c].weak
<1>1. /\ s \in Drivers /\ Once(s.todo) /\ s.node \in Nodes /\ x \in Nat /\ y \in Nat
      /\ s.ref \in [Clients -> RefTypes] /\ (x > 0 \/ y > 0 => s.ref[c].there)
  BY RefCounted
<1>2. /\ g \in Drivers /\ g.node = s.node /\ g.todo = s.todo
      /\ \A d \in Clients \ {c} : g.ref[d] = s.ref[d]
      /\ g.ref[c].there /\ g.ref[c].strong = x /\ g.ref[c].weak = y
  BY <1>1, GetRef
<1>3. g.ref \in [Clients -> RefTypes]
  BY <1>2 DEF Drivers
<1>4. /\ Handed(s, c, "strong", t) = binder_inc_ref(g, c, TRUE, t)
      /\ Handed(s, c, "weak", t) = binder_inc_ref(g, c, FALSE, t)
  BY DEF Handed
<1>5. ~ s.node.has_weak_ref /\ (x # 0 \/ y # 0) => OnList(g.todo)
  BY <1>1, <1>2 DEF Sound, WorkOK
<1> HIDE DEF g
<1>6. Gained(s, c, x + 1, y, Handed(s, c, "strong", t))
  <2> DEFINE r == binder_inc_ref(g, c, TRUE, t)
             n == IF x = 0 THEN Counted(s.node, TRUE, TRUE) ELSE s.node
             f == WithStrong(g.ref, c, x + 1)
  <2>1. Adds(g, n, f, r) /\ (x = 0 /\ ~ s.node.has_strong_ref => OnList(r.todo))
    BY <1>1, <1>2, IncRefList
  <2>2. /\ f \in [Clients -> RefTypes] /\ (\A d \in Clients \ {c} : f[d] = s.ref[d])
        /\ f[c].there /\ f[c].strong = x + 1 /\ f[c].weak = y
    <3>1. x + 1 \in Nat
      BY <1>1
    <3> QED BY <1>2, <1>3, <3>1, WithEffect
  <2> HIDE DEF f, r
  <2>3. /\ n \in Nodes /\ SameFlags(n, s.node)
        /\ n.local_strong_refs = s.node.local_strong_refs /\ n.local_weak_refs = s.node.local_weak_refs
        /\ n.internal_strong_refs = Cardinality(Strong(f))
    <3>1. n = CountedFirst(s.node, s.ref[c].strong)
      BY DEF CountedFirst
    <3> HIDE DEF n
    <3> QED BY <2>2, <3>1, CountStrong
  <2> HIDE DEF n
  <2>4. f[c].strong + f[c].weak > 0
    BY <1>1, <2>2
  <2>5. r \in Drivers /\ r.node = n /\ r.ref = f /\ Once(r.todo)
    BY <2>1 DEF Adds
  <2>6. ~ s.node.has_weak_ref => OnList(r.todo)
    <3>1. s.node.has_strong_ref => s.node.has_weak_ref
      BY DEF Sound, FlagsOK
    <3> QED BY <1>5, <2>1, <3>1 DEF Adds
  <2>7. Gained(s, c, f[c].strong, f[c].weak, r)
    BY <2>2, <2>3, <2>4, <2>5, <2>6, GainedIf
  <2> QED BY <1>4, <2>2, <2>7 DEF r
<1>7. Gained(s, c, x, y + 1, Handed(s, c, "weak", t))
  <2> DEFINE r == binder_inc_ref(g, c, FALSE, t)
             f == WithWeak(g.ref, c, y + 1)
  <2>1. Adds(g, s.node, f, r) /\ (y = 0 /\ ~ s.node.has_weak_ref => OnList(r.todo))
    BY <1>1, <1>2, IncRefList
  <2>2. /\ f \in [Clients -> RefTypes] /\ (\A d \in Clients \ {c} : f[d] = s.ref[d])
        /\ f[c].there /\ f[c].strong = x /\ f[c].weak = y + 1
    <3>1. y + 1 \in Nat
      BY <1>1
    <3> QED BY <1>2, <1>3, <3>1, WithEffect
  <2> HIDE DEF f, r
  <2>3. SameFlags(s.node, s.node) /\ s.node.internal_strong_refs = Cardinality(Strong(f))
    BY <2>2, CountWeak
  <2>4. f[c].strong + f[c].weak > 0
    BY <1>1, <2>2
  <2>5. r \in Drivers /\ r.node = s.node /\ r.ref = f /\ Once(r.todo)
    BY <2>1 DEF Adds
  <2>6. ~ s.node.has_weak_ref => OnList(r.todo)
    BY <1>5, <2>1 DEF Adds
  <2>7. Gained(s, c, f[c].strong, f[c].weak, r)
    BY <1>1, <2>2, <2>3, <2>4, <2>5, <2>6, GainedIf
  <2> QED BY <1>4, <2>2, <2>7 DEF r
<1> QED BY <1>6, <1>7

(***************************************************************************)
(* A handle is counted for c with no list.  The node has a ref already; a  *)
(* weak one may be refused, and only when the owner died before it was     *)
(* told of the node.                                                       *)
(***************************************************************************)
LEMMA HandNull ==
    ASSUME NEW s, Sound(s), NEW c \in Clients, NEW e \in Clients, s.ref[e].there
    PROVE  /\ s.node.internal_strong_refs > 0 =>
                LET r == Handed(s, c, "strong", "NULL")
                IN  Gained(s, c, s.ref[c].strong + 1, s.ref[c].weak, r) /\ r.todo = s.todo
           /\ LET r == Handed(s, c, "weak", "NULL")
              IN  /\ r.todo = s.todo
                  /\ \/ /\ Gained(s, c, s.ref[c].strong, s.ref[c].weak + 1, r)
                        /\ s.ref[c].weak # 0 \/ s.node.has_weak_ref \/ OnList(s.todo)
                     \/ /\ Gained(s, c, s.ref[c].strong, s.ref[c].weak, r)
                        /\ r = binder_get_ref_for_node(s, c) /\ s.ref[c].weak = 0
                        /\ ~ s.node.proc /\ ~ s.node.has_weak_ref
<1> DEFINE g == binder_get_ref_for_node(s, c)
           x == s.ref[c].strong
           y == s.ref[c].weak
<1>0. s.node.there /\ (OnList(s.todo) => s.node.proc) /\ (s.node.proc /\ ~ s.node.has_weak_ref => OnList(s.todo))
  BY DEF Sound, RefsThere, WorkOK
<1>1. /\ s \in Drivers /\ Once(s.todo) /\ s.node \in Nodes /\ x \in Nat /\ y \in Nat
      /\ s.ref \in [Clients -> RefTypes]
  BY RefCounted
<1>2. /\ g \in Drivers /\ g.node = s.node /\ g.todo = s.todo
      /\ \A d \in Clients \ {c} : g.ref[d] = s.ref[d]
      /\ g.ref[c].there /\ g.ref[c].strong = x /\ g.ref[c].weak = y
  BY <1>1, GetRef
<1>3. g.ref \in [Clients -> RefTypes]
  BY <1>2 DEF Drivers
<1>4. /\ Handed(s, c, "strong", "NULL") = binder_inc_ref(g, c, TRUE, "NULL")
      /\ Handed(s, c, "weak", "NULL") = binder_inc_ref(g, c, FALSE, "NULL")
  BY DEF Handed
<1> HIDE DEF g
<1>5. ASSUME s.node.internal_strong_refs > 0
      PROVE  LET r == Handed(s, c, "strong", "NULL")
             IN  Gained(s, c, x + 1, y, r) /\ r.todo = s.todo
  <2> DEFINE r == binder_inc_ref(g, c, TRUE, "NULL")
             n == IF x = 0 THEN Counted(s.node, TRUE, TRUE) ELSE s.node
             f == WithStrong(g.ref, c, x + 1)
  <2>1. Adds(g, n, f, r) /\ r.todo = s.todo
    <3>1. s.node.internal_strong_refs # 0
      BY <1>1, <1>5 DEF Nodes
    <3> QED BY <1>1, <1>2, <3>1, IncRefNull, ZenonT(60)
  <2>2. /\ f \in [Clients -> RefTypes] /\ (\A d \in Clients \ {c} : f[d] = s.ref[d])
        /\ f[c].there /\ f[c].strong = x + 1 /\ f[c].weak = y
    <3>1. x + 1 \in Nat
      BY <1>1
    <3> QED BY <1>2, <1>3, <3>1, WithEffect
  <2> HIDE DEF f, r
  <2>3. /\ n \in Nodes /\ SameFlags(n, s.node)
        /\ n.local_strong_refs = s.node.local_strong_refs /\ n.local_weak_refs = s.node.local_weak_refs
        /\ n.internal_strong_refs = Cardinality(Strong(f))
    <3>1. n = CountedFirst(s.node, s.ref[c].strong)
      BY DEF CountedFirst
    <3> HIDE DEF n
    <3> QED BY <2>2, <3>1, CountStrong
  <2> HIDE DEF n
  <2>4. f[c].strong + f[c].weak > 0
    BY <1>1, <2>2
  <2>5. r \in Drivers /\ r.node = n /\ r.ref = f /\ Once(r.todo)
    BY <2>1 DEF Adds
  <2>6. Gained(s, c, f[c].strong, f[c].weak, r)
    BY <1>0, <2>1, <2>2, <2>3, <2>4, <2>5, GainedIf
  <2> QED BY <1>4, <2>1, <2>2, <2>6 DEF r
<1>6. LET r == Handed(s, c, "weak", "NULL")
      IN  /\ r.todo = s.todo
          /\ \/ Gained(s, c, x, y + 1, r) /\ (y # 0 \/ s.node.has_weak_ref \/ OnList(s.todo))
             \/ /\ Gained(s, c, x, y, r) /\ r = binder_get_ref_for_node(s, c) /\ y = 0
                /\ ~ s.node.proc /\ ~ s.node.has_weak_ref
  <2> DEFINE r == binder_inc_ref(g, c, FALSE, "NULL")
  <2>1. CASE y = 0 /\ ~ s.node.has_weak_ref /\ ~ OnList(s.todo)
    <3>1. r = g
      BY <1>1, <1>2, <2>1, IncRefNull
    <3> DEFINE f == g.ref
    <3>2. /\ f \in [Clients -> RefTypes] /\ (\A d \in Clients \ {c} : f[d] = s.ref[d])
          /\ f[c].there /\ f[c].strong = x /\ f[c].weak = y /\ g.ref = f
      BY <1>2, <1>3
    <3> HIDE DEF f, r
    <3>3. SameFlags(s.node, s.node) /\ s.node.internal_strong_refs = Cardinality(Strong(f))
      BY <3>2, CountWeak
    <3>4. ~ s.node.proc
      BY <1>0, <2>1
    <3>5. Gained(s, c, f[c].strong, f[c].weak, g)
      BY <1>0, <1>1, <1>2, <2>1, <3>2, <3>3, <3>4, GainedIf
    <3>6. Gained(s, c, x, y, r) /\ r = g /\ r.todo = s.todo
      BY <1>2, <3>1, <3>2, <3>5
    <3> QED BY <1>4, <2>1, <3>4, <3>6 DEF r, g
  <2>2. CASE ~ (y = 0 /\ ~ s.node.has_weak_ref /\ ~ OnList(s.todo))
    <3> DEFINE f == WithWeak(g.ref, c, y + 1)
    <3>1. Adds(g, s.node, f, r) /\ r.todo = s.todo
      BY <1>1, <1>2, <2>2, IncRefNull
    <3>2. /\ f \in [Clients -> RefTypes] /\ (\A d \in Clients \ {c} : f[d] = s.ref[d])
          /\ f[c].there /\ f[c].strong = x /\ f[c].weak = y + 1
      <4>1. y + 1 \in Nat
        BY <1>1
      <4> QED BY <1>2, <1>3, <4>1, WithEffect
    <3> HIDE DEF f, r
    <3>3. SameFlags(s.node, s.node) /\ s.node.internal_strong_refs = Cardinality(Strong(f))
      BY <3>2, CountWeak
    <3>4. f[c].strong + f[c].weak > 0
      BY <1>1, <3>2
    <3>5. r \in Drivers /\ r.node = s.node /\ r.ref = f /\ Once(r.todo)
      BY <3>1 DEF Adds
    <3>6. Gained(s, c, f[c].strong, f[c].weak, r)
      BY <1>0, <1>1, <3>1, <3>2, <3>3, <3>4, <3>5, GainedIf
    <3> QED BY <1>4, <2>2, <3>1, <3>2, <3>6 DEF r
  <2> QED BY <2>1, <2>2
<1> QED BY <1>5, <1>6

-----------------------------------------------------------------------------
(* The inductive invariant *)

Holdings == [Clients -> [Kinds -> Nat]]

\* A ref has the counts of what its process has, h in buffers and u by its
\* own commands.  Weak handles that were refused go uncounted.
RefsOK(s, h, u, live) ==
    /\ h \in Holdings /\ u \in Holdings
    /\ \A c \in Clients :
          /\ s.ref[c].strong = h[c].strong + u[c].strong
          /\ \/ s.ref[c].weak = h[c].weak + u[c].weak
             \/ s.ref[c].weak = 0 /\ u[c].weak = 0 /\ ~ live /\ ~ s.node.has_weak_ref

\* The node has those of its owner's buffers and unacknowledged commands,
\* and outlives the owner without either.
NodeOK(s, o, live) ==
    /\ o \in [Kinds -> Nat]
    /\ s.node.local_strong_refs = o.strong + One(s.node.proc /\ s.node.pending_strong_ref)
    /\ s.node.local_weak_refs = o.weak + One(s.node.proc /\ s.node.pending_weak_ref)
    /\ s.node.there => (s.node.proc <=> live)
    /\ ~ live => o = None /\ Empty(s.todo)

DeathRefs == {"none", "set", "todo", "delivered", "told"}
DeathRests == {"none", "clear", "dead_and_clear", "delivered_and_clear"}

DeathOK(s, d) ==
    /\ d \in [Clients -> [ref : DeathRefs, rest : DeathRests]]
    /\ \A c \in Clients :
          /\ d[c].ref = "set" => s.ref[c].there /\ s.node.proc
          /\ d[c].ref \in {"todo", "delivered", "told"} => s.ref[c].there /\ ~ s.node.proc

OwnerOK ==
    /\ up \in BOOLEAN
    /\ ~ up => \A t \in Threads : brs[t] = <<>>
    /\ user \in [Kinds -> Int]

BInv ==
    /\ Sound(k) /\ RefsOK(k, held, used, up) /\ NodeOK(k, obuf, up) /\ DeathOK(k, death)
    /\ OwnerOK

\* What is released for a client changes nothing for the owner ...
LEMMA NodeSame ==
    ASSUME NEW s, NEW r, NEW o, NEW live, NodeOK(s, o, live), SameOwner(s, r), Sound(s)
    PROVE  NodeOK(r, o, live)
<1>1. /\ o \in [Kinds -> Nat] /\ o.strong \in Nat /\ o.weak \in Nat
      /\ s.node.there \/ s.node = NoNode
  BY DEF NodeOK, Kinds, Sound, FlagsOK
<1>2. ~ live => o = None /\ Empty(r.todo)
  <2>1. ~ live => ~ s.node.proc
    BY <1>1 DEF NodeOK, NoNode
  <2> QED BY <2>1 DEF NodeOK, SameOwner
<1>3. CASE /\ SameFlags(r.node, s.node)
           /\ r.node.local_strong_refs = s.node.local_strong_refs
           /\ r.node.local_weak_refs = s.node.local_weak_refs
  <2>1. /\ One(s.node.proc /\ s.node.pending_strong_ref) = One(r.node.proc /\ r.node.pending_strong_ref)
        /\ One(s.node.proc /\ s.node.pending_weak_ref) = One(r.node.proc /\ r.node.pending_weak_ref)
    BY <1>3 DEF SameFlags
  <2>2. r.node.there => (r.node.proc <=> live)
    BY <1>3 DEF SameFlags, NodeOK
  <2> QED BY <1>2, <1>3, <2>1, <2>2 DEF NodeOK
<1>4. CASE r.node = NoNode /\ s.node.local_strong_refs = 0 /\ s.node.local_weak_refs = 0
  <2>1. o.strong = 0 /\ o.weak = 0
    BY <1>1, <1>4 DEF NodeOK, One
  <2>2. r.node.local_strong_refs = 0 /\ r.node.local_weak_refs = 0 /\ ~ r.node.there /\ ~ r.node.proc
    BY <1>4 DEF NoNode
  <2>3. One(r.node.proc /\ r.node.pending_strong_ref) = 0 /\ One(r.node.proc /\ r.node.pending_weak_ref) = 0
    BY <2>2 DEF One
  <2> QED BY <1>1, <1>2, <2>1, <2>2, <2>3 DEF NodeOK
<1> QED BY <1>3, <1>4 DEF SameOwner

\* ... nor for the notifications of the other clients.
LEMMA DeathSame ==
    ASSUME NEW s, NEW r, NEW d, NEW e, NEW c \in Clients, DeathOK(s, d), SameOwner(s, r),
           \A x \in Clients \ {c} : r.ref[x] = s.ref[x],
           e \in [Clients -> [ref : DeathRefs, rest : DeathRests]],
           \A x \in Clients \ {c} : e[x] = d[x],
           (e[c] = d[c] /\ r.ref[c].there) \/ e[c].ref = "none"
    PROVE  DeathOK(r, e)
<1>1. CASE SameFlags(r.node, s.node)
  BY <1>1 DEF DeathOK, SameFlags
<1>2. CASE \A x \in Clients : ~ r.ref[x].there
  <2>1. \A x \in Clients \ {c} : d[x].ref = "none"
    BY <1>2 DEF DeathOK, DeathRefs
  <2> QED BY <1>2, <2>1 DEF DeathOK
<1> QED BY <1>1, <1>2 DEF SameOwner

\* The owner is not told of a node by a release.
LEMMA UntoldSame ==
    ASSUME NEW s, NEW r, SameOwner(s, r), ~ s.node.has_weak_ref
    PROVE  ~ r.node.has_weak_ref
<1>1. ~ NoNode.has_weak_ref
  BY DEF NoNode
<1> QED BY <1>1 DEF SameOwner, SameFlags

\* Client c has one strong, or weak, reference less in i and v than in h and u.
StrongLess(h, u, c, i, v) ==
    /\ i \in Holdings /\ v \in Holdings
    /\ \A d \in Clients \ {c} : i[d] = h[d] /\ v[d] = u[d]
    /\ i[c].strong + v[c].strong = h[c].strong + u[c].strong - 1
    /\ i[c].weak = h[c].weak /\ v[c].weak = u[c].weak

WeakLess(h, u, c, i, v) ==
    /\ i \in Holdings /\ v \in Holdings
    /\ \A d \in Clients \ {c} : i[d] = h[d] /\ v[d] = u[d]
    /\ i[c].weak + v[c].weak = h[c].weak + u[c].weak - 1
    /\ u[c].weak = 0 => v[c].weak = 0
    /\ i[c].strong = h[c].strong /\ v[c].strong = u[c].strong

\* The refs of the other clients are the same.
OthersSame(s, c, r) == \A d \in Clients \ {c} : r.ref[d] = s.ref[d]

\* A release of a strong handle ...
LEMMA ReleaseStrong ==
    ASSUME NEW s, NEW h, NEW u, NEW live, Sound(s), RefsOK(s, h, u, live), NEW c \in Clients,
           NEW i, NEW v, StrongLess(h, u, c, i, v), NEW r, r = binder_dec_ref(s, c, TRUE)
    PROVE  Sound(r) /\ SameOwner(s, r) /\ RefsOK(r, i, v, live) /\ OthersSame(s, c, r)
<1> USE DEF StrongLess, OthersSame
<1> DEFINE x == s.ref[c].strong
<1>1. /\ i[c].strong \in Nat /\ v[c].strong \in Nat /\ h[c].strong \in Nat /\ u[c].strong \in Nat
      /\ x = h[c].strong + u[c].strong
  BY DEF RefsOK, Holdings, Kinds
<1>2. x > 0 /\ x - 1 = i[c].strong + v[c].strong
  BY <1>1
<1>3. Dropped(s, c, x - 1, s.ref[c].weak, r)
  BY <1>2, DropStrong
<1> HIDE DEF x
<1>4. ~ s.node.has_weak_ref => ~ r.node.has_weak_ref
  BY <1>3, UntoldSame DEF Dropped
<1>5. RefsOK(r, i, v, live)
  <2>1. \A d \in Clients : r.ref[d].strong = i[d].strong + v[d].strong
    BY <1>2, <1>3 DEF RefsOK, Dropped
  <2>2. \A d \in Clients : i[d].weak = h[d].weak /\ v[d].weak = u[d].weak /\ r.ref[d].weak = s.ref[d].weak
    BY <1>3 DEF Dropped
  <2> QED BY <1>4, <2>1, <2>2 DEF RefsOK
<1> QED BY <1>3, <1>5 DEF Dropped

\* ... and of a weak one, which may not have been counted
LEMMA ReleaseWeak ==
    ASSUME NEW s, NEW h, NEW u, NEW live, Sound(s), RefsOK(s, h, u, live), NEW c \in Clients,
           NEW i, NEW v, WeakLess(h, u, c, i, v), NEW r, r = binder_dec_ref(s, c, FALSE)
    PROVE  Sound(r) /\ SameOwner(s, r) /\ RefsOK(r, i, v, live) /\ OthersSame(s, c, r)
<1> USE DEF WeakLess, OthersSame
<1> DEFINE y == s.ref[c].weak
<1>1. /\ i[c].weak \in Nat /\ v[c].weak \in Nat /\ h[c].weak \in Nat /\ u[c].weak \in Nat
      /\ y \in Nat
  BY RefCounted DEF RefsOK, Holdings, Kinds
<1>2. CASE y > 0
  <2>1. Dropped(s, c, s.ref[c].strong, y - 1, r)
    BY <1>2, DropWeak
  <2>2. y - 1 = i[c].weak + v[c].weak
    <3>1. y = h[c].weak + u[c].weak
      BY <1>2 DEF RefsOK
    <3> QED BY <1>1, <3>1
  <2> HIDE DEF y
  <2>3. ~ s.node.has_weak_ref => ~ r.node.has_weak_ref
    BY <2>1, UntoldSame DEF Dropped
  <2>4. \A d \in Clients : r.ref[d].strong = i[d].strong + v[d].strong
    BY <2>1, ZenonT(60) DEF RefsOK, Dropped
  <2>5. r.ref[c].weak = i[c].weak + v[c].weak
    <3>1. r.ref[c].weak = y - 1
      BY <2>1 DEF Dropped
    <3> QED BY <2>2, <3>1
  <2>6. \A d \in Clients \ {c} :
          i[d].weak = h[d].weak /\ v[d].weak = u[d].weak /\ r.ref[d].weak = s.ref[d].weak
    BY <2>1 DEF Dropped
  <2>7. RefsOK(r, i, v, live)
    BY <2>3, <2>4, <2>5, <2>6 DEF RefsOK
  <2> QED BY <2>1, <2>7 DEF Dropped
<1>3. CASE y = 0
  <2>1. r = s
    BY <1>3, DropNothing
  <2>2. u[c].weak = 0 /\ ~ live /\ ~ s.node.has_weak_ref
    <3>1. h[c].weak + u[c].weak # 0
      BY <1>1
    <3> QED BY <1>3, <3>1 DEF RefsOK
  <2> HIDE DEF y
  <2>3. SameOwner(s, s)
    BY DEF SameOwner, SameFlags
  <2>4. RefsOK(s, i, v, live)
    BY <1>3, <2>2 DEF RefsOK, y
  <2> QED BY <2>1, <2>3, <2>4
<1>4. y = 0 \/ y > 0
  BY <1>1
<1> QED BY <1>2, <1>3, <1>4

-----------------------------------------------------------------------------
(* Steps of a client *)

\* Client c has x references of a kind.
Moved(h, c, kind, x) == [h EXCEPT ![c][kind] = x]

\* i is h for all but c.
OnlyFor(c, i, h) == \A d \in Clients \ {c} : i[d] = h[d]

\* Nobody else has more or fewer.
LEMMA MovedEffect ==
    ASSUME NEW h \in Holdings, NEW c \in Clients, NEW x \in Nat
    PROVE  /\ Moved(h, c, "strong", x) \in Holdings /\ Moved(h, c, "weak", x) \in Holdings
           /\ OnlyFor(c, Moved(h, c, "strong", x), h) /\ OnlyFor(c, Moved(h, c, "weak", x), h)
           /\ Moved(h, c, "strong", x)[c].strong = x /\ Moved(h, c, "strong", x)[c].weak = h[c].weak
           /\ Moved(h, c, "weak", x)[c].weak = x /\ Moved(h, c, "weak", x)[c].strong = h[c].strong
<1> DEFINE a == [h[c] EXCEPT !["strong"] = x]
           b == [h[c] EXCEPT !["weak"] = x]
<1>1. h[c] \in [Kinds -> Nat] /\ "strong" \in Kinds /\ "weak" \in Kinds
  BY DEF Holdings, Kinds
<1>2. /\ a \in [Kinds -> Nat] /\ a.strong = x /\ a.weak = h[c].weak
      /\ b \in [Kinds -> Nat] /\ b.weak = x /\ b.strong = h[c].strong
  BY <1>1
<1>3. Moved(h, c, "strong", x) = [h EXCEPT ![c] = a] /\ Moved(h, c, "weak", x) = [h EXCEPT ![c] = b]
  BY DEF Moved
<1> HIDE DEF a, b
<1> QED BY <1>2, <1>3 DEF Holdings, OnlyFor

\* What a client has, in numbers
LEMMA HoldingTypes ==
    ASSUME NEW h \in Holdings, NEW c \in Clients
    PROVE  h[c].strong \in Nat /\ h[c].weak \in Nat /\ h[c] \in [Kinds -> Nat]
BY DEF Holdings, Kinds

Notices == [Clients -> [ref : DeathRefs, rest : DeathRests]]

\* The notification of c leaves its ref.
Unnoticed(d, c) == [d EXCEPT ![c].ref = "none"]

\* It is the only one that does.
LEMMA UnnoticedEffect ==
    ASSUME NEW d \in Notices, NEW c \in Clients
    PROVE  /\ Unnoticed(d, c) \in Notices /\ Unnoticed(d, c)[c].ref = "none"
           /\ \A x \in Clients \ {c} : Unnoticed(d, c)[x] = d[x]
<1>1. "none" \in DeathRefs
  BY DEF DeathRefs
<1> QED BY <1>1 DEF Notices, Unnoticed

\* After a release for client c
LEMMA AfterRelease ==
    ASSUME BInv, NEW c \in Clients, Sound(k'), SameOwner(k, k'), RefsOK(k', held', used', up),
           OthersSame(k, c, k'),
           DeathOf(k', c), UNCHANGED <<obuf, ownerVars>>
    PROVE  BInv'
<1>1. NodeOK(k', obuf, up)
  BY NodeSame DEF BInv
<1>2. DeathOK(k', death')
  <2> DEFINE r == k'
             e == death'
  <2>1. death \in Notices /\ DeathOK(k, death)
    BY DEF BInv, DeathOK, Notices
  <2>2. IF r.ref[c].there THEN e = death ELSE e = Unnoticed(death, c)
    BY DEF DeathOf, Unnoticed
  <2> HIDE DEF r, e
  <2>3. /\ e \in Notices /\ \A x \in Clients \ {c} : e[x] = death[x]
        /\ (e[c] = death[c] /\ r.ref[c].there) \/ e[c].ref = "none"
    BY <2>1, <2>2, UnnoticedEffect
  <2>4. SameOwner(k, r) /\ \A d \in Clients \ {c} : r.ref[d] = k.ref[d]
    BY DEF r, OthersSame
  <2>5. DeathOK(r, e)
    BY <2>1, <2>3, <2>4, DeathSame DEF Notices
  <2> QED BY <2>5 DEF r, e
<1>3. OwnerOK'
  BY DEF BInv, OwnerOK, ownerVars
<1>4. up' = up /\ obuf' = obuf
  BY DEF ownerVars
<1> QED BY <1>1, <1>2, <1>3, <1>4 DEF BInv

\* BC_RELEASE, BC_DECREFS, BC_FREE_BUFFER
LEMMA ReleaseStep ==
    ASSUME BInv, NEW c \in Clients, NEW kind \in Kinds, BC_RELEASE(c, kind) \/ FreeBuffer(c, kind)
    PROVE  BInv'
<1> DEFINE i == held'
           v == used'
           r == k'
<1>0. /\ Sound(k) /\ RefsOK(k, held, used, up) /\ held \in Holdings /\ used \in Holdings
  BY DEF BInv, RefsOK
<1>1. /\ held[c].strong \in Nat /\ held[c].weak \in Nat
      /\ used[c].strong \in Nat /\ used[c].weak \in Nat
  BY <1>0, HoldingTypes
<1>2. /\ kind = "strong" \/ kind = "weak"
      /\ DeathOf(r, c) /\ UNCHANGED <<obuf, ownerVars>>
      /\ r = binder_dec_ref(k, c, kind = "strong")
      /\ \/ i = Moved(held, c, kind, held[c][kind] - 1) /\ v = used /\ held[c][kind] > 0
         \/ v = Moved(used, c, kind, used[c][kind] - 1) /\ i = held /\ used[c][kind] > 0
  BY DEF BC_RELEASE, FreeBuffer, Moved, Kinds
<1> HIDE DEF i, v, r
<1>3. Sound(r) /\ SameOwner(k, r) /\ RefsOK(r, i, v, up) /\ OthersSame(k, c, r)
  <2>1. CASE kind = "strong"
    <3>1. /\ i \in Holdings /\ v \in Holdings
          /\ \A d \in Clients \ {c} : i[d] = held[d] /\ v[d] = used[d]
          /\ i[c].strong + v[c].strong = held[c].strong + used[c].strong - 1
          /\ i[c].weak = held[c].weak /\ v[c].weak = used[c].weak
      <4>1. CASE i = Moved(held, c, "strong", held[c].strong - 1) /\ v = used /\ held[c].strong > 0
        <5>1. held[c].strong - 1 \in Nat
          BY <1>1, <4>1
        <5>2. /\ i \in Holdings /\ OnlyFor(c, i, held)
              /\ i[c].strong = held[c].strong - 1 /\ i[c].weak = held[c].weak
          BY <1>0, <4>1, <5>1, MovedEffect
        <5> QED BY <1>0, <1>1, <4>1, <5>2 DEF OnlyFor
      <4>2. CASE v = Moved(used, c, "strong", used[c].strong - 1) /\ i = held /\ used[c].strong > 0
        <5>1. used[c].strong - 1 \in Nat
          BY <1>1, <4>2
        <5>2. /\ v \in Holdings /\ OnlyFor(c, v, used)
              /\ v[c].strong = used[c].strong - 1 /\ v[c].weak = used[c].weak
          BY <1>0, <4>2, <5>1, MovedEffect
        <5> QED BY <1>0, <1>1, <4>2, <5>2 DEF OnlyFor
      <4> QED BY <1>2, <2>1, <4>1, <4>2
    <3>2. r = binder_dec_ref(k, c, TRUE)
      BY <1>2, <2>1
    <3>3. StrongLess(held, used, c, i, v)
      BY <3>1 DEF StrongLess
    <3> QED BY <1>0, <3>2, <3>3, ReleaseStrong
  <2>2. CASE kind = "weak"
    <3>1. /\ i \in Holdings /\ v \in Holdings
          /\ \A d \in Clients \ {c} : i[d] = held[d] /\ v[d] = used[d]
          /\ i[c].weak + v[c].weak = held[c].weak + used[c].weak - 1
          /\ used[c].weak = 0 => v[c].weak = 0
          /\ i[c].strong = held[c].strong /\ v[c].strong = used[c].strong
      <4>1. CASE i = Moved(held, c, "weak", held[c].weak - 1) /\ v = used /\ held[c].weak > 0
        <5>1. held[c].weak - 1 \in Nat
          BY <1>1, <4>1
        <5>2. /\ i \in Holdings /\ OnlyFor(c, i, held)
              /\ i[c].weak = held[c].weak - 1 /\ i[c].strong = held[c].strong
          BY <1>0, <4>1, <5>1, MovedEffect
        <5> QED BY <1>0, <1>1, <4>1, <5>2 DEF OnlyFor
      <4>2. CASE v = Moved(used, c, "weak", used[c].weak - 1) /\ i = held /\ used[c].weak > 0
        <5>1. used[c].weak - 1 \in Nat
          BY <1>1, <4>2
        <5>2. /\ v \in Holdings /\ OnlyFor(c, v, used)
              /\ v[c].weak = used[c].weak - 1 /\ v[c].strong = used[c].strong
          BY <1>0, <4>2, <5>1, MovedEffect
        <5> QED BY <1>0, <1>1, <4>2, <5>2 DEF OnlyFor
      <4> QED BY <1>2, <2>2, <4>1, <4>2
    <3>2. r = binder_dec_ref(k, c, FALSE)
      BY <1>2, <2>2
    <3>3. WeakLess(held, used, c, i, v)
      BY <3>1 DEF WeakLess
    <3> QED BY <1>0, <3>2, <3>3, ReleaseWeak
  <2> QED BY <1>2, <2>1, <2>2
<1> QED BY <1>2, <1>3, AfterRelease DEF i, v, r

\* Client c has x and y references in i and v, if refused handles count.
NowHas(h, u, c, i, v, x, y, refused) ==
    /\ i \in Holdings /\ v \in Holdings
    /\ \A d \in Clients \ {c} : i[d] = h[d] /\ v[d] = u[d]
    /\ x = i[c].strong + v[c].strong
    /\ y = i[c].weak + v[c].weak \/ (y = 0 /\ v[c].weak = 0 /\ refused)

\* All of the invariant that the driver's state is part of
Matches(s, h, u, o, d, live) ==
    Sound(s) /\ RefsOK(s, h, u, live) /\ NodeOK(s, o, live) /\ DeathOK(s, d)

\* A new reference is matched by what the client has.
LEMMA GainMatches ==
    ASSUME NEW s, NEW h, NEW u, NEW o, NEW d, NEW live, Matches(s, h, u, o, d, live),
           NEW c \in Clients, NEW r, NEW x, NEW y, Gained(s, c, x, y, r), live = TRUE \/ r.todo = s.todo,
           NEW i, NEW v, NEW refused, NowHas(h, u, c, i, v, x, y, refused),
           refused => ~ live /\ ~ s.node.has_weak_ref
    PROVE  Matches(r, i, v, o, d, live)
<1>1. /\ Sound(s) /\ Sound(r) /\ RefsOK(s, h, u, live) /\ NodeOK(s, o, live) /\ DeathOK(s, d)
      /\ SameFlags(r.node, s.node)
  BY DEF Matches, Gained
<1>2. RefsOK(r, i, v, live)
  <2>1. \A e \in Clients : r.ref[e].strong = i[e].strong + v[e].strong
    BY <1>1 DEF RefsOK, NowHas, Gained
  <2>2. \A e \in Clients \ {c} :
          i[e].weak = h[e].weak /\ v[e].weak = u[e].weak /\ r.ref[e].weak = s.ref[e].weak
    BY DEF NowHas, Gained
  <2>3. ~ s.node.has_weak_ref => ~ r.node.has_weak_ref
    BY <1>1 DEF SameFlags
  <2>4. \/ r.ref[c].weak = i[c].weak + v[c].weak
        \/ r.ref[c].weak = 0 /\ v[c].weak = 0 /\ ~ live /\ ~ r.node.has_weak_ref
    BY <2>3 DEF NowHas, Gained
  <2>5. i \in Holdings /\ v \in Holdings
    BY DEF NowHas
  <2> QED BY <1>1, <2>1, <2>2, <2>3, <2>4, <2>5 DEF RefsOK
<1>3. NodeOK(r, o, live)
  <2>1. CASE live
    <3>1. /\ One(s.node.proc /\ s.node.pending_strong_ref) = One(r.node.proc /\ r.node.pending_strong_ref)
          /\ One(s.node.proc /\ s.node.pending_weak_ref) = One(r.node.proc /\ r.node.pending_weak_ref)
      BY <1>1 DEF SameFlags
    <3>2. r.node.there => (r.node.proc <=> live)
      BY <1>1 DEF SameFlags, NodeOK
    <3> QED BY <1>1, <2>1, <3>1, <3>2 DEF NodeOK, Gained
  <2>2. CASE ~ live
    <3>1. r.todo = s.todo
      BY <2>2
    <3>2. SameOwner(s, r)
      BY <3>1 DEF SameOwner, Gained
    <3> QED BY <1>1, <3>2, NodeSame
  <2> QED BY <2>1, <2>2
<1>4. DeathOK(r, d)
  BY <1>1 DEF DeathOK, Gained, SameFlags
<1> QED BY <1>1, <1>2, <1>3, <1>4 DEF Matches

\* A handle in a buffer, or taken by a command
LEMMA NowHasOne ==
    ASSUME NEW s, NEW h, NEW u, NEW live, RefsOK(s, h, u, live), NEW c \in Clients
    PROVE  LET lost == ~ live /\ ~ s.node.has_weak_ref
               x == s.ref[c].strong
               y == s.ref[c].weak
           IN  /\ NowHas(h, u, c, Moved(h, c, "strong", h[c].strong + 1), u, x + 1, y, lost)
               /\ NowHas(h, u, c, h, Moved(u, c, "strong", u[c].strong + 1), x + 1, y, lost)
               /\ y # 0 \/ live \/ s.node.has_weak_ref =>
                     /\ NowHas(h, u, c, Moved(h, c, "weak", h[c].weak + 1), u, x, y + 1, lost)
                     /\ NowHas(h, u, c, h, Moved(u, c, "weak", u[c].weak + 1), x, y + 1, lost)
               /\ y = 0 /\ lost /\ u[c].weak = 0 =>
                     NowHas(h, u, c, Moved(h, c, "weak", h[c].weak + 1), u, x, y, lost)
<1> DEFINE lost == ~ live /\ ~ s.node.has_weak_ref
           x == s.ref[c].strong
           y == s.ref[c].weak
<1>0. h \in Holdings /\ u \in Holdings
  BY DEF RefsOK
<1>1. /\ h[c].strong \in Nat /\ h[c].weak \in Nat /\ u[c].strong \in Nat /\ u[c].weak \in Nat
      /\ h[c].strong + 1 \in Nat /\ h[c].weak + 1 \in Nat
      /\ u[c].strong + 1 \in Nat /\ u[c].weak + 1 \in Nat
  BY <1>0, HoldingTypes
<1>2. /\ x = h[c].strong + u[c].strong
      /\ y = h[c].weak + u[c].weak \/ (y = 0 /\ u[c].weak = 0 /\ lost)
  BY DEF RefsOK
<1> HIDE DEF x, y, lost
<1>3. NowHas(h, u, c, Moved(h, c, "strong", h[c].strong + 1), u, x + 1, y, lost)
  <2> DEFINE i == Moved(h, c, "strong", h[c].strong + 1)
  <2>1. /\ i \in Holdings /\ OnlyFor(c, i, h)
        /\ i[c].strong = h[c].strong + 1 /\ i[c].weak = h[c].weak
    BY <1>0, <1>1, MovedEffect, ZenonT(60)
  <2> HIDE DEF i
  <2>2. x + 1 = i[c].strong + u[c].strong
    BY <1>1, <1>2, <2>1
  <2>3. NowHas(h, u, c, i, u, x + 1, y, lost)
    BY <1>0, <1>2, <2>1, <2>2 DEF NowHas, OnlyFor
  <2> QED BY <2>3 DEF i
<1>4. NowHas(h, u, c, h, Moved(u, c, "strong", u[c].strong + 1), x + 1, y, lost)
  <2> DEFINE i == Moved(u, c, "strong", u[c].strong + 1)
  <2>1. /\ i \in Holdings /\ OnlyFor(c, i, u)
        /\ i[c].strong = u[c].strong + 1 /\ i[c].weak = u[c].weak
    BY <1>0, <1>1, MovedEffect, ZenonT(60)
  <2> HIDE DEF i
  <2>2. x + 1 = h[c].strong + i[c].strong
    BY <1>1, <1>2, <2>1
  <2>3. NowHas(h, u, c, h, i, x + 1, y, lost)
    BY <1>0, <1>2, <2>1, <2>2 DEF NowHas, OnlyFor
  <2> QED BY <2>3 DEF i
<1>5. ASSUME y # 0 \/ live \/ s.node.has_weak_ref
      PROVE  /\ NowHas(h, u, c, Moved(h, c, "weak", h[c].weak + 1), u, x, y + 1, lost)
             /\ NowHas(h, u, c, h, Moved(u, c, "weak", u[c].weak + 1), x, y + 1, lost)
  <2>0. y = h[c].weak + u[c].weak
    BY <1>2, <1>5 DEF lost
  <2>1. NowHas(h, u, c, Moved(h, c, "weak", h[c].weak + 1), u, x, y + 1, lost)
    <3> DEFINE i == Moved(h, c, "weak", h[c].weak + 1)
    <3>1. /\ i \in Holdings /\ OnlyFor(c, i, h)
          /\ i[c].weak = h[c].weak + 1 /\ i[c].strong = h[c].strong
      BY <1>0, <1>1, MovedEffect, ZenonT(60)
    <3> HIDE DEF i
    <3>2. y + 1 = i[c].weak + u[c].weak
      BY <1>1, <2>0, <3>1
    <3>3. NowHas(h, u, c, i, u, x, y + 1, lost)
      BY <1>0, <1>2, <3>1, <3>2 DEF NowHas, OnlyFor
    <3> QED BY <3>3 DEF i
  <2>2. NowHas(h, u, c, h, Moved(u, c, "weak", u[c].weak + 1), x, y + 1, lost)
    <3> DEFINE i == Moved(u, c, "weak", u[c].weak + 1)
    <3>1. /\ i \in Holdings /\ OnlyFor(c, i, u)
          /\ i[c].weak = u[c].weak + 1 /\ i[c].strong = u[c].strong
      BY <1>0, <1>1, MovedEffect, ZenonT(60)
    <3> HIDE DEF i
    <3>2. y + 1 = h[c].weak + i[c].weak
      BY <1>1, <2>0, <3>1
    <3>3. NowHas(h, u, c, h, i, x, y + 1, lost)
      BY <1>0, <1>2, <3>1, <3>2 DEF NowHas, OnlyFor
    <3> QED BY <3>3 DEF i
  <2> QED BY <2>1, <2>2
<1>6. ASSUME y = 0, lost, u[c].weak = 0
      PROVE  NowHas(h, u, c, Moved(h, c, "weak", h[c].weak + 1), u, x, y, lost)
  <2> DEFINE i == Moved(h, c, "weak", h[c].weak + 1)
  <2>1. /\ i \in Holdings /\ OnlyFor(c, i, h)
        /\ i[c].weak = h[c].weak + 1 /\ i[c].strong = h[c].strong
    BY <1>0, <1>1, MovedEffect, ZenonT(60)
  <2> HIDE DEF i
  <2>2. NowHas(h, u, c, i, u, x, y, lost)
    BY <1>0, <1>2, <1>6, <2>1 DEF NowHas, OnlyFor
  <2> QED BY <2>2 DEF i
<1> QED BY <1>3, <1>4, <1>5, <1>6 DEF x, y, lost

\* Without the owner nothing is queued for it.
LEMMA QueuedLive ==
    ASSUME NEW s, NEW o, NEW live, NodeOK(s, o, live), Sound(s), OnList(s.todo)
    PROVE  live
<1>1. s.todo \in [Lists -> Seq(WorkTypes)]
  BY DEF Sound, Drivers
<1>2. ~ Empty(s.todo)
  BY <1>1 DEF Empty, OnList
<1> QED BY <1>2 DEF NodeOK

\* A handle goes to another client.
LEMMA SendHandleStep ==
    ASSUME BInv, NEW c \in Clients, NEW d \in Clients, NEW kind \in Kinds, SendHandle(c, d, kind)
    PROVE  BInv'
<1> DEFINE r == k'
           i == held'
           x == k.ref[d].strong
           y == k.ref[d].weak
           a == x + 1
           b == y + 1
           lost == ~ up /\ ~ k.node.has_weak_ref
<1>0. /\ Sound(k) /\ RefsOK(k, held, used, up) /\ NodeOK(k, obuf, up)
      /\ Matches(k, held, used, obuf, death, up)
  BY DEF BInv, Matches
<1>1. /\ k.ref[c].there /\ (kind = "strong" => k.ref[c].strong > 0)
      /\ r = Handed(k, d, kind, "NULL") /\ i = Moved(held, d, kind, held[d][kind] + 1)
      /\ kind = "strong" \/ kind = "weak"
  BY DEF SendHandle, Moved, Kinds
<1>2. used' = used /\ obuf' = obuf /\ death' = death /\ up' = up /\ OwnerOK'
  BY DEF SendHandle, ownerVars, BInv, OwnerOK
<1>3. x \in Nat /\ y \in Nat /\ used[d].weak \in Nat /\ held[d].weak \in Nat
  BY <1>0, RefCounted, HoldingTypes DEF RefsOK
<1>4. lost => ~ up /\ ~ k.node.has_weak_ref
  OBVIOUS
<1> HIDE DEF r, i
<1>5. Matches(r, i, used, obuf, death, up)
  <2>1. CASE kind = "strong"
    <3>1. k.node.internal_strong_refs > 0
      BY <1>0, <1>1, <2>1, RefCounted
    <3>2. Gained(k, d, a, y, r) /\ r.todo = k.todo
      BY <1>0, <1>1, <2>1, <3>1, HandNull
    <3>3. NowHas(held, used, d, i, used, a, y, lost)
      BY <1>0, <1>1, <2>1, NowHasOne
    <3> HIDE DEF a, y, lost
    <3> QED BY <1>0, <1>4, <3>2, <3>3, GainMatches
  <2>2. CASE kind = "weak"
    <3>1. r = Handed(k, d, "weak", "NULL") /\ i = Moved(held, d, "weak", held[d].weak + 1)
      BY <1>1, <2>2
    <3>2. /\ r.todo = k.todo
          /\ \/ Gained(k, d, x, b, r) /\ (y # 0 \/ k.node.has_weak_ref \/ OnList(k.todo))
             \/ Gained(k, d, x, y, r) /\ y = 0 /\ ~ k.node.proc /\ ~ k.node.has_weak_ref
      BY <1>0, <1>1, <3>1, HandNull
    <3>3. CASE Gained(k, d, x, b, r) /\ (y # 0 \/ k.node.has_weak_ref \/ OnList(k.todo))
      <4>1. y # 0 \/ up \/ k.node.has_weak_ref
        BY <1>0, <3>3, QueuedLive
      <4>2. NowHas(held, used, d, i, used, x, b, lost)
        BY <1>0, <3>1, <4>1, NowHasOne
      <4> HIDE DEF x, b, lost
      <4> QED BY <1>0, <1>4, <3>2, <3>3, <4>2, GainMatches
    <3>4. CASE Gained(k, d, x, y, r) /\ y = 0 /\ ~ k.node.proc /\ ~ k.node.has_weak_ref
      <4>1. ~ up
        BY <1>0, <1>1, <3>4 DEF Sound, RefsThere, NodeOK
      <4>2. used[d].weak = 0
        <5>1. y = held[d].weak + used[d].weak \/ used[d].weak = 0
          BY <1>0 DEF RefsOK
        <5> HIDE DEF y
        <5> QED BY <1>3, <3>4, <5>1
      <4>3. NowHas(held, used, d, i, used, x, y, lost)
        BY <1>0, <3>1, <3>4, <4>1, <4>2, NowHasOne
      <4> HIDE DEF x, y, lost
      <4> QED BY <1>0, <1>4, <3>2, <3>4, <4>3, GainMatches
    <3> QED BY <3>2, <3>3, <3>4
  <2> QED BY <1>1, <2>1, <2>2
<1> QED BY <1>2, <1>5 DEF BInv, Matches, r, i

\* BC_ACQUIRE, BC_INCREFS: with a ref there, the count is the client's.
LEMMA AcquireStep ==
    ASSUME BInv, NEW c \in Clients, BC_ACQUIRE(c) \/ BC_INCREFS(c)
    PROVE  BInv'
<1> DEFINE r == k'
           v == used'
           x == k.ref[c].strong
           y == k.ref[c].weak
           a == x + 1
           b == y + 1
           lost == ~ up /\ ~ k.node.has_weak_ref
<1>0. /\ Sound(k) /\ RefsOK(k, held, used, up) /\ NodeOK(k, obuf, up)
      /\ Matches(k, held, used, obuf, death, up)
  BY DEF BInv, Matches
<1>1. held' = held /\ obuf' = obuf /\ death' = death /\ up' = up /\ OwnerOK' /\ k.ref[c].there
  BY DEF BC_ACQUIRE, BC_INCREFS, ownerVars, BInv, OwnerOK
<1>2. x \in Nat /\ y \in Nat /\ k \in Drivers /\ Once(k.todo)
  BY <1>0, RefCounted
<1>3. binder_get_ref_for_node(k, c) = k
  BY <1>1, <1>2, GetRef
<1>4. lost => ~ up /\ ~ k.node.has_weak_ref
  OBVIOUS
<1>5. ASSUME r = k, v = used
      PROVE  Matches(r, held, v, obuf, death, up)
  BY <1>0, <1>5
<1>6. CASE BC_ACQUIRE(c)
  <2>1. r = Handed(k, c, "strong", "NULL") /\ r = binder_inc_ref(k, c, TRUE, "NULL")
    BY <1>3, <1>6 DEF Handed, BC_ACQUIRE
  <2>2. v = IF r = k THEN used ELSE Moved(used, c, "strong", used[c].strong + 1)
    BY <1>6 DEF BC_ACQUIRE, Moved
  <2> HIDE DEF r, v
  <2>3. CASE r = k
    BY <1>1, <1>5, <2>2, <2>3 DEF BInv, Matches, r, v
  <2>4. CASE r # k
    <3>1. k.node.internal_strong_refs > 0
      <4>1. k.node.internal_strong_refs \in Nat
        BY <1>2 DEF Drivers, Nodes
      <4>2. k.ref[c].strong > 0 => k.node.internal_strong_refs > 0
        BY <1>0, RefCounted
      <4>3. ~ (k.ref[c].strong = 0 /\ k.node.internal_strong_refs = 0)
        BY <1>2, <2>1, <2>4, IncRefNull
      <4> QED BY <1>2, <4>1, <4>2, <4>3
    <3>2. Gained(k, c, a, y, r) /\ r.todo = k.todo
      BY <1>0, <1>1, <2>1, <3>1, HandNull
    <3>3. NowHas(held, used, c, held, v, a, y, lost)
      BY <1>0, <2>2, <2>4, NowHasOne
    <3> HIDE DEF a, y, lost
    <3>4. Matches(r, held, v, obuf, death, up)
      BY <1>0, <1>4, <3>2, <3>3, GainMatches
    <3> QED BY <1>1, <3>4 DEF BInv, Matches, r, v
  <2> QED BY <2>3, <2>4
<1>7. CASE BC_INCREFS(c)
  <2>1. r = Handed(k, c, "weak", "NULL")
    BY <1>3, <1>7 DEF Handed, BC_INCREFS
  <2>2. v = IF r = k THEN used ELSE Moved(used, c, "weak", used[c].weak + 1)
    BY <1>7 DEF BC_INCREFS, Moved
  <2> HIDE DEF r, v
  <2>3. CASE r = k
    BY <1>1, <1>5, <2>2, <2>3 DEF BInv, Matches, r, v
  <2>4. CASE r # k
    <3>1. /\ r.todo = k.todo
          /\ Gained(k, c, x, b, r) /\ (y # 0 \/ k.node.has_weak_ref \/ OnList(k.todo))
      BY <1>0, <1>1, <1>3, <2>1, <2>4, HandNull
    <3>2. y # 0 \/ up \/ k.node.has_weak_ref
      BY <1>0, <3>1, QueuedLive
    <3>3. NowHas(held, used, c, held, v, x, b, lost)
      BY <1>0, <2>2, <2>4, <3>2, NowHasOne
    <3> HIDE DEF x, b, lost
    <3>4. Matches(r, held, v, obuf, death, up)
      BY <1>0, <1>4, <3>1, <3>3, GainMatches
    <3> QED BY <1>1, <3>4 DEF BInv, Matches, r, v
  <2> QED BY <2>3, <2>4
<1> QED BY <1>6, <1>7

\* ClientDies: the ref goes with all its counts.
LEMMA ClientDiesStep ==
    ASSUME BInv, NEW c \in Clients, ClientDies(c)
    PROVE  BInv'
<1> DEFINE r == k'
           i == held'
           v == used'
           e == death'
<1>0. /\ Sound(k) /\ RefsOK(k, held, used, up) /\ NodeOK(k, obuf, up) /\ DeathOK(k, death)
      /\ held \in Holdings /\ used \in Holdings /\ death \in Notices
  BY DEF BInv, RefsOK, DeathOK, Notices
<1>1. obuf' = obuf /\ up' = up /\ OwnerOK'
  BY DEF ClientDies, ownerVars, BInv, OwnerOK
<1>2. /\ r = IF k.ref[c].there THEN binder_delete_ref(k, c) ELSE k
      /\ i = [held EXCEPT ![c] = None] /\ v = [used EXCEPT ![c] = None]
      /\ e = [death EXCEPT ![c] = NoDeath]
  BY DEF ClientDies
<1> HIDE DEF r, i, v, e
<1>3. Dropped(k, c, 0, 0, r) /\ ~ r.ref[c].there
  <2>1. CASE k.ref[c].there
    BY <1>0, <1>2, <2>1, DropAll
  <2>2. CASE ~ k.ref[c].there
    <3>1. k.ref[c].strong = 0 /\ k.ref[c].weak = 0
      BY <1>0, <2>2 DEF Sound, RefsThere, NoRef
    <3>2. SameOwner(k, k)
      BY DEF SameOwner, SameFlags
    <3> QED BY <1>0, <1>2, <2>2, <3>1, <3>2 DEF Dropped
  <2> QED BY <2>1, <2>2
<1>4. /\ i \in Holdings /\ v \in Holdings /\ OnlyFor(c, i, held) /\ OnlyFor(c, v, used)
      /\ i[c].strong = 0 /\ i[c].weak = 0 /\ v[c].strong = 0 /\ v[c].weak = 0
  <2>1. None \in [Kinds -> Nat] /\ None.strong = 0 /\ None.weak = 0
    BY DEF None, Kinds
  <2> QED BY <1>0, <1>2, <2>1 DEF Holdings, OnlyFor
<1>5. /\ e \in Notices /\ OnlyFor(c, e, death) /\ e[c].ref = "none"
  <2>1. NoDeath \in [ref : DeathRefs, rest : DeathRests] /\ NoDeath.ref = "none"
    BY DEF NoDeath, DeathRefs, DeathRests
  <2> QED BY <1>0, <1>2, <2>1 DEF Notices, OnlyFor
<1>6. RefsOK(r, i, v, up)
  <2>1. ~ k.node.has_weak_ref => ~ r.node.has_weak_ref
    BY <1>3, UntoldSame DEF Dropped
  <2>2. \A d \in Clients \ {c} : i[d] = held[d] /\ v[d] = used[d] /\ r.ref[d] = k.ref[d]
    BY <1>3, <1>4 DEF OnlyFor, Dropped
  <2>3. \A d \in Clients \ {c} :
          /\ r.ref[d].strong = i[d].strong + v[d].strong
          /\ \/ r.ref[d].weak = i[d].weak + v[d].weak
             \/ r.ref[d].weak = 0 /\ v[d].weak = 0 /\ ~ up /\ ~ r.node.has_weak_ref
    BY <1>0, <2>1, <2>2 DEF RefsOK
  <2>4. r.ref[c].strong = i[c].strong + v[c].strong /\ r.ref[c].weak = i[c].weak + v[c].weak
    BY <1>3, <1>4 DEF Dropped
  <2> QED BY <1>4, <2>3, <2>4 DEF RefsOK
<1>7. Sound(r) /\ NodeOK(r, obuf, up)
  BY <1>0, <1>3, NodeSame DEF Dropped
<1>8. DeathOK(r, e)
  BY <1>0, <1>3, <1>5, DeathSame DEF Dropped, Notices, OnlyFor
<1> QED BY <1>1, <1>6, <1>7, <1>8 DEF BInv, r, i, v, e

-----------------------------------------------------------------------------
(* The owner sends the object *)

\* binder_new_node
LEMMA NewNode ==
    ASSUME NEW s, NEW h, NEW u, NEW o, NEW d, Matches(s, h, u, o, d, TRUE), ~ s.node.there
    PROVE  /\ Matches(binder_new_node(s), h, u, o, d, TRUE)
           /\ binder_new_node(s).node.there /\ binder_new_node(s).node.proc
           /\ binder_new_node(s).ref = s.ref
<1> DEFINE n == [NoNode EXCEPT !.there = TRUE, !.proc = TRUE]
           r == binder_new_node(s)
<1>0. Sound(s) /\ RefsOK(s, h, u, TRUE) /\ NodeOK(s, o, TRUE) /\ DeathOK(s, d) /\ s \in Drivers
  BY DEF Matches, Sound
<1>1. /\ n \in Nodes /\ n.there /\ n.proc /\ n.internal_strong_refs = 0
      /\ n.local_strong_refs = 0 /\ n.local_weak_refs = 0
      /\ ~ n.has_strong_ref /\ ~ n.pending_strong_ref /\ ~ n.has_weak_ref /\ ~ n.pending_weak_ref
  BY DEF NoNode, Nodes
<1>2. r = [s EXCEPT !.node = n]
  BY DEF binder_new_node
<1> HIDE DEF n, r
<1>3. r \in Drivers /\ r.node = n /\ r.ref = s.ref /\ r.todo = s.todo
  BY <1>0, <1>1, <1>2 DEF Drivers
<1>4. s.node = NoNode
  BY <1>0 DEF Sound, FlagsOK
<1>5. \A c \in Clients : ~ s.ref[c].there
  BY <1>0 DEF Sound, RefsThere
<1>6. Sound(r)
  <2>1. FlagsOK(n)
    BY <1>1 DEF FlagsOK
  <2>2. WorkOK(r)
    <3>1. ~ NoNode.proc
      BY DEF NoNode
    <3> QED BY <1>0, <1>1, <1>3, <1>4, <1>5, <3>1 DEF Sound, WorkOK
  <2>3. RefsThere(n, s.ref) /\ RefsNeeded(n, s.ref)
    <3>1. NoNode.internal_strong_refs = 0
      BY DEF NoNode
    <3> QED BY <1>0, <1>1, <1>4, <1>5, <3>1 DEF Sound, RefsThere, RefsNeeded
  <2> QED BY <1>3, <2>1, <2>2, <2>3 DEF Sound
<1>7. RefsOK(r, h, u, TRUE)
  BY <1>0, <1>3 DEF RefsOK
<1>8. NodeOK(r, o, TRUE)
  <2>1. NoNode.local_strong_refs = 0 /\ NoNode.local_weak_refs = 0 /\ ~ NoNode.proc
    BY DEF NoNode
  <2>2. One(FALSE) = 0
    BY DEF One
  <2>3. /\ One(NoNode.proc /\ NoNode.pending_strong_ref) = 0 /\ One(n.proc /\ n.pending_strong_ref) = 0
        /\ One(NoNode.proc /\ NoNode.pending_weak_ref) = 0 /\ One(n.proc /\ n.pending_weak_ref) = 0
    BY <1>1, <2>1 DEF One
  <2>4. 0 = o.strong + 0 /\ 0 = o.weak + 0 /\ o \in [Kinds -> Nat]
    BY <1>0, <1>4, <2>1, <2>3 DEF NodeOK
  <2> QED BY <1>1, <1>3, <2>3, <2>4 DEF NodeOK
<1>9. DeathOK(r, d)
  <2>1. \A c \in Clients : d[c].ref = "none"
    BY <1>0, <1>5 DEF DeathOK, DeathRefs
  <2> QED BY <1>0, <2>1 DEF DeathOK
<1> QED BY <1>1, <1>3, <1>6, <1>7, <1>8, <1>9 DEF Matches, r

\* BINDER_WORK_TRANSACTION_COMPLETE is queued for the sender.
LEMMA CompleteQueued ==
    ASSUME NEW s, NEW h, NEW u, NEW o, NEW d, Matches(s, h, u, o, d, TRUE), NEW t \in Threads
    PROVE  Matches([s EXCEPT !.todo[t] = Append(@, "complete")], h, u, o, d, TRUE)
<1> DEFINE q == Append(s.todo[t], "complete")
           td == [s.todo EXCEPT ![t] = q]
           r == [s EXCEPT !.todo = td]
<1>0. /\ Sound(s) /\ RefsOK(s, h, u, TRUE) /\ NodeOK(s, o, TRUE) /\ DeathOK(s, d)
      /\ s \in Drivers /\ t \in Lists
  BY DEF Matches, Sound, Lists
<1>1. s.todo \in [Lists -> Seq(WorkTypes)] /\ s.todo[t] \in Seq(WorkTypes)
  BY <1>0 DEF Drivers
<1>2. /\ q \in Seq(WorkTypes) /\ DOMAIN q = 1..(Len(s.todo[t]) + 1) /\ Len(s.todo[t]) \in Nat
      /\ \A j \in 1..Len(s.todo[t]) : q[j] = s.todo[t][j]
      /\ q[Len(s.todo[t]) + 1] = "complete"
  BY <1>1 DEF WorkTypes
<1> HIDE DEF q
<1>3. td \in [Lists -> Seq(WorkTypes)] /\ td[t] = q /\ \A l \in Lists \ {t} : td[l] = s.todo[l]
  BY <1>0, <1>1, <1>2
<1> HIDE DEF td
<1>4. \A l \in Lists, j \in Nat :
         j \in DOMAIN td[l] /\ td[l][j] = "node" <=> j \in DOMAIN s.todo[l] /\ s.todo[l][j] = "node"
  <2> SUFFICES ASSUME NEW l \in Lists, NEW j \in Nat
               PROVE  j \in DOMAIN td[l] /\ td[l][j] = "node" <=>
                         j \in DOMAIN s.todo[l] /\ s.todo[l][j] = "node"
    OBVIOUS
  <2>1. CASE l # t
    BY <1>3, <2>1
  <2>2. CASE l = t
    <3>1. DOMAIN s.todo[t] = 1..Len(s.todo[t])
      BY <1>1
    <3>2. "complete" # "node"
      OBVIOUS
    <3> QED BY <1>2, <1>3, <2>2, <3>1, <3>2, SMTT(30)
  <2> QED BY <2>1, <2>2
<1>5. \A l \in Lists : (\A j \in DOMAIN td[l] : j \in Nat) /\ (\A j \in DOMAIN s.todo[l] : j \in Nat)
  BY <1>1, <1>3
<1>6. (Once(s.todo) => Once(td)) /\ (OnList(s.todo) <=> OnList(td))
  BY <1>4, <1>5 DEF Once, OnList
<1>7. r \in Drivers /\ r.node = s.node /\ r.ref = s.ref /\ r.todo = td
  BY <1>0, <1>3 DEF Drivers
<1>8. r = [s EXCEPT !.todo[t] = Append(@, "complete")]
  BY DEF td, q
<1> HIDE DEF r
<1>9. Sound(r)
  BY <1>0, <1>6, <1>7 DEF Sound, WorkOK
<1>10. RefsOK(r, h, u, TRUE) /\ NodeOK(r, o, TRUE) /\ DeathOK(r, d)
  BY <1>0, <1>7 DEF RefsOK, NodeOK, DeathOK
<1> QED BY <1>8, <1>9, <1>10 DEF Matches

\* The node that a send of the object counts at
SendNode(s) == IF s.node.there THEN s ELSE binder_new_node(s)

\* A handle is counted for client c, in a buffer of its process.
LEMMA SendMatches ==
    ASSUME BInv, up, NEW t \in Threads, NEW c \in Clients
    PROVE  LET s == SendNode(k)
               a == Handed(s, c, "strong", t)
               b == Handed(s, c, "weak", t)
           IN  /\ Matches(a, Moved(held, c, "strong", held[c].strong + 1), used, obuf, death, TRUE)
               /\ Matches(b, Moved(held, c, "weak", held[c].weak + 1), used, obuf, death, TRUE)
               /\ Gained(s, c, s.ref[c].strong + 1, s.ref[c].weak, a)
               /\ Gained(s, c, s.ref[c].strong, s.ref[c].weak + 1, b)
               /\ Matches(s, held, used, obuf, death, TRUE) /\ s.node.proc /\ s.ref = k.ref
<1> DEFINE s == SendNode(k)
           yes == TRUE
<1>0. up = TRUE
  BY DEF BInv, OwnerOK
<1>1. Matches(k, held, used, obuf, death, TRUE)
  BY <1>0 DEF BInv, Matches
<1>2. Matches(s, held, used, obuf, death, yes) /\ s.node.there /\ s.node.proc /\ s.ref = k.ref
  <2>1. CASE k.node.there
    BY <1>1, <2>1 DEF SendNode, Matches, NodeOK
  <2>2. CASE ~ k.node.there
    BY <1>1, <2>2, NewNode DEF SendNode
  <2> QED BY <2>1, <2>2
<1>3. yes = TRUE
  OBVIOUS
<1> HIDE DEF s, yes
<1> DEFINE lost == ~ yes /\ ~ s.node.has_weak_ref
           x == s.ref[c].strong
           y == s.ref[c].weak
           x1 == x + 1
           y1 == y + 1
           i == Moved(held, c, "strong", held[c].strong + 1)
           j == Moved(held, c, "weak", held[c].weak + 1)
           a == Handed(s, c, "strong", t)
           b == Handed(s, c, "weak", t)
<1>4. Sound(s) /\ RefsOK(s, held, used, yes)
  BY <1>2 DEF Matches
<1>5. Gained(s, c, x1, y, a) /\ Gained(s, c, x, y1, b)
  BY <1>2, <1>4, HandList
<1>6. NowHas(held, used, c, i, used, x1, y, lost) /\ NowHas(held, used, c, j, used, x, y1, lost)
  BY <1>3, <1>4, NowHasOne
<1>7. lost => ~ yes /\ ~ s.node.has_weak_ref
  OBVIOUS
<1> HIDE DEF a, b, i, j, x, y, x1, y1, lost
<1>8. Matches(a, i, used, obuf, death, yes)
  <2>1. /\ Matches(s, held, used, obuf, death, yes) /\ c \in Clients /\ Gained(s, c, x1, y, a)
        /\ yes = TRUE \/ a.todo = s.todo
        /\ NowHas(held, used, c, i, used, x1, y, lost) /\ (lost => ~ yes /\ ~ s.node.has_weak_ref)
    BY <1>2, <1>3, <1>5, <1>6, <1>7
  <2> HIDE DEF yes
  <2> QED BY ONLY <2>1, GainMatches
<1>9. Matches(b, j, used, obuf, death, yes)
  <2>1. /\ Matches(s, held, used, obuf, death, yes) /\ c \in Clients /\ Gained(s, c, x, y1, b)
        /\ yes = TRUE \/ b.todo = s.todo
        /\ NowHas(held, used, c, j, used, x, y1, lost) /\ (lost => ~ yes /\ ~ s.node.has_weak_ref)
    BY <1>2, <1>3, <1>5, <1>6, <1>7
  <2> QED BY ONLY <2>1, GainMatches
<1> QED BY <1>2, <1>3, <1>5, <1>8, <1>9 DEF a, b, i, j, x, y, x1, y1, s

\* The owner's transaction with the object goes to client c.
LEMMA SendBinderStep ==
    ASSUME BInv, NEW t \in Threads, NEW c \in Clients, NEW kind \in Kinds, SendBinder(t, c, kind)
    PROVE  BInv'
<1> DEFINE s == Handed(SendNode(k), c, kind, t)
           r == [s EXCEPT !.todo[t] = Append(@, "complete")]
           i == held'
<1>0. up /\ up = TRUE /\ (kind = "strong" \/ kind = "weak")
  BY DEF SendBinder, BInv, OwnerOK, Kinds
<1>1. /\ k' = r /\ i = Moved(held, c, kind, held[c][kind] + 1)
      /\ used' = used /\ obuf' = obuf /\ death' = death /\ up' = up
  BY DEF SendBinder, Moved, SendNode
<1>2. OwnerOK'
  BY DEF SendBinder, BInv, OwnerOK
<1> HIDE DEF r, i
<1>3. Matches(s, i, used, obuf, death, TRUE)
  <2>1. CASE kind = "strong"
    BY <1>0, <1>1, <2>1, SendMatches
  <2>2. CASE kind = "weak"
    BY <1>0, <1>1, <2>2, SendMatches
  <2> QED BY <1>0, <2>1, <2>2
<1> HIDE DEF s
<1>4. Matches(r, i, used, obuf, death, TRUE)
  BY <1>3, CompleteQueued DEF r
<1>5. Matches(k', held', used', obuf', death', up')
  BY <1>0, <1>1, <1>4 DEF i
<1> QED BY <1>2, <1>5 DEF BInv, Matches

\* ... or fails after it was counted, and what was counted is released.
LEMMA SendFailsStep ==
    ASSUME BInv, NEW t \in Threads, NEW c \in Clients, NEW kind \in Kinds, SendFails(t, c, kind)
    PROVE  BInv'
<1> DEFINE b == SendNode(k)
           s == Handed(b, c, kind, t)
           r == k'
           i == Moved(held, c, kind, held[c][kind] + 1)
           yes == TRUE
<1>0. up /\ up = yes /\ (kind = "strong" \/ kind = "weak")
  BY DEF SendFails, BInv, OwnerOK, Kinds
<1>1. /\ r = binder_dec_ref(s, c, kind = "strong")
      /\ held' = held /\ used' = used /\ obuf' = obuf /\ death' = death /\ up' = up
  BY DEF SendFails, SendNode, clientVars, ownerVars
<1>2. OwnerOK' /\ held \in Holdings /\ used \in Holdings
  BY DEF SendFails, BInv, OwnerOK, ownerVars, RefsOK
<1>t. /\ held[c].strong \in Nat /\ held[c].weak \in Nat /\ held[c].strong + 1 \in Nat
      /\ held[c].weak + 1 \in Nat /\ used[c].strong \in Nat /\ used[c].weak \in Nat
  BY <1>2, HoldingTypes
<1>3. /\ Matches(s, i, used, obuf, death, yes) /\ OthersSame(b, c, s)
      /\ Matches(b, held, used, obuf, death, yes) /\ b.node.proc /\ b.ref = k.ref
      /\ SameFlags(s.node, b.node)
  <2>1. CASE kind = "strong"
    BY <1>0, <2>1, SendMatches DEF Gained, OthersSame
  <2>2. CASE kind = "weak"
    BY <1>0, <2>2, SendMatches DEF Gained, OthersSame
  <2> QED BY <1>0, <2>1, <2>2
<1> HIDE DEF b, s, r, yes
<1>4. Sound(s) /\ RefsOK(s, i, used, yes) /\ NodeOK(s, obuf, yes) /\ DeathOK(s, death)
  BY <1>3 DEF Matches
<1>5. Sound(r) /\ SameOwner(s, r) /\ RefsOK(r, held, used, yes) /\ OthersSame(s, c, r)
  <2>1. CASE kind = "strong"
    <3>0. i = Moved(held, c, "strong", held[c].strong + 1)
      BY <2>1
    <3> HIDE DEF i
    <3>1. /\ i \in Holdings /\ OnlyFor(c, i, held) /\ i[c].strong = held[c].strong + 1
          /\ i[c].weak = held[c].weak
      BY <1>2, <1>t, <3>0, MovedEffect, ZenonT(60)
    <3>2. held[c].strong + used[c].strong = i[c].strong + used[c].strong - 1
      BY <1>t, <3>1
    <3>3. StrongLess(i, used, c, held, used)
      BY <1>2, <3>1, <3>2 DEF StrongLess, OnlyFor
    <3> QED BY <1>1, <1>4, <2>1, <3>3, ReleaseStrong
  <2>2. CASE kind = "weak"
    <3>0. i = Moved(held, c, "weak", held[c].weak + 1)
      BY <2>2
    <3> HIDE DEF i
    <3>1. /\ i \in Holdings /\ OnlyFor(c, i, held) /\ i[c].weak = held[c].weak + 1
          /\ i[c].strong = held[c].strong
      BY <1>2, <1>t, <3>0, MovedEffect, ZenonT(60)
    <3>2. held[c].weak + used[c].weak = i[c].weak + used[c].weak - 1
      BY <1>t, <3>1
    <3>3. WeakLess(i, used, c, held, used)
      BY <1>2, <3>1, <3>2 DEF WeakLess, OnlyFor
    <3>4. r = binder_dec_ref(s, c, FALSE)
      BY <1>1, <2>2
    <3> QED BY <1>4, <3>3, <3>4, ReleaseWeak
  <2> QED BY <1>0, <2>1, <2>2
<1>6. NodeOK(r, obuf, yes)
  BY <1>4, <1>5, NodeSame
<1>7. death[c].ref = "none" \/ r.ref[c].there
  <2>1. CASE ~ k.ref[c].there
    <3>1. DeathOK(k, death)
      BY DEF BInv
    <3> QED BY <2>1, <3>1 DEF DeathOK, DeathRefs
  <2>2. CASE k.ref[c].there /\ ~ r.ref[c].there
    <3>1. r.ref[c].strong = 0 /\ r.ref[c].weak = 0
      BY <1>5, <2>2 DEF Sound, RefsThere, NoRef
    <3>2. k.ref[c].strong + k.ref[c].weak > 0
      BY <1>3, <2>2 DEF Matches, Sound, RefsNeeded
    <3>3. yes
      BY DEF yes
    <3>4. /\ 0 = held[c].strong + used[c].strong /\ 0 = held[c].weak + used[c].weak
          /\ k.ref[c].strong = held[c].strong + used[c].strong
          /\ k.ref[c].weak = held[c].weak + used[c].weak
      BY <1>3, <1>5, <3>1, <3>3 DEF Matches, RefsOK
    <3> QED BY <3>2, <3>4
  <2> QED BY <2>1, <2>2
<1>8. DeathOK(r, death)
  BY <1>4, <1>5, <1>7, DeathSame DEF OthersSame, DeathOK
<1> QED BY <1>0, <1>1, <1>2, <1>5, <1>6, <1>8 DEF BInv, r

-----------------------------------------------------------------------------
(* Steps that count at the node *)

\* The local counts of node n are those of the owner's buffers o, and of
\* commands that it has not acknowledged.
Counts(n, o) ==
    /\ o \in [Kinds -> Nat]
    /\ n.local_strong_refs = o.strong + One(n.proc /\ n.pending_strong_ref)
    /\ n.local_weak_refs = o.weak + One(n.proc /\ n.pending_weak_ref)

\* A local reference is released.
LEMMA LocalDec ==
    ASSUME NEW s, NEW h, NEW u, NEW o, NEW d, Sound(s), RefsOK(s, h, u, TRUE), DeathOK(s, d),
           s.node.there, s.node.proc, NEW n \in Nodes, SameFlags(n, s.node),
           n.internal_strong_refs = s.node.internal_strong_refs, Counts(n, o),
           NEW r, Becomes(s, n, s.ref, r)
    PROVE  Matches(r, h, u, o, d, TRUE)
<1>0. s \in Drivers /\ s.ref \in [Clients -> RefTypes]
  BY DEF Sound, Drivers
<1>1. Sound(r)
  <2>1. \A c \in Clients : ~ s.ref[c].there => s.ref[c] = NoRef
    BY DEF Sound, RefsThere
  <2>2. n.internal_strong_refs = Cardinality(Strong(s.ref)) /\ RefsNeeded(n, s.ref)
    BY DEF Sound, RefsThere, RefsNeeded, SameFlags
  <2> QED BY <1>0, <2>1, <2>2, SoundDec
<1>2. RefsOK(r, h, u, TRUE)
  BY DEF RefsOK, Becomes
<1>3. CASE r.node = n
  <2>1. NodeOK(r, o, TRUE)
    BY <1>3 DEF Counts, NodeOK, SameFlags
  <2>2. DeathOK(r, d)
    BY <1>3 DEF DeathOK, Becomes, SameFlags
  <2> QED BY <1>1, <1>2, <2>1, <2>2 DEF Matches
<1>4. CASE /\ r.node = NoNode /\ \A c \in Clients : ~ s.ref[c].there
           /\ n.local_strong_refs = 0 /\ n.local_weak_refs = 0
  <2>1. /\ r.node.local_strong_refs = 0 /\ r.node.local_weak_refs = 0 /\ ~ r.node.proc /\ ~ r.node.there
    BY <1>4 DEF NoNode
  <2>2. One(r.node.proc /\ r.node.pending_strong_ref) = 0 /\ One(r.node.proc /\ r.node.pending_weak_ref) = 0
    BY <2>1 DEF One
  <2>3. o.strong \in Nat /\ o.weak \in Nat
    BY DEF Counts, Kinds
  <2>4. o.strong = 0 /\ o.weak = 0
    BY <1>4, <2>3 DEF Counts, One
  <2>5. NodeOK(r, o, TRUE)
    BY <2>1, <2>2, <2>4 DEF NodeOK, Counts
  <2>6. DeathOK(r, d)
    <3>1. \A c \in Clients : d[c].ref = "none"
      BY <1>4 DEF DeathOK, DeathRefs
    <3> QED BY <3>1 DEF DeathOK
  <2> QED BY <1>1, <1>2, <2>5, <2>6 DEF Matches
<1> QED BY <1>3, <1>4 DEF Becomes

\* The owner has x buffers of a kind.
Freed(o, kind, x) == [o EXCEPT ![kind] = x]

\* The other kind is as it was.
LEMMA FreedEffect ==
    ASSUME NEW o \in [Kinds -> Nat], NEW x \in Nat
    PROVE  /\ o.strong \in Nat /\ o.weak \in Nat
           /\ Freed(o, "strong", x) \in [Kinds -> Nat] /\ Freed(o, "weak", x) \in [Kinds -> Nat]
           /\ Freed(o, "strong", x).strong = x /\ Freed(o, "strong", x).weak = o.weak
           /\ Freed(o, "weak", x).weak = x /\ Freed(o, "weak", x).strong = o.strong
<1>1. "strong" \in Kinds /\ "weak" \in Kinds
  BY DEF Kinds
<1> QED BY <1>1 DEF Freed

\* Counts of two nodes with the same flags
LEMMA CountsSame ==
    ASSUME NEW m, NEW n, SameFlags(m, n)
    PROVE  /\ One(m.proc /\ m.pending_strong_ref) = One(n.proc /\ n.pending_strong_ref)
           /\ One(m.proc /\ m.pending_weak_ref) = One(n.proc /\ n.pending_weak_ref)
           /\ One(n.proc /\ n.pending_strong_ref) \in Nat /\ One(n.proc /\ n.pending_weak_ref) \in Nat
BY DEF SameFlags, One

\* BC_FREE_BUFFER of the owner
LEMMA OwnerFreesStep ==
    ASSUME BInv, NEW kind \in Kinds, OwnerFrees(kind)
    PROVE  BInv'
<1> DEFINE r == k'
           o == obuf'
           a == One(k.node.proc /\ k.node.pending_strong_ref)
           b == One(k.node.proc /\ k.node.pending_weak_ref)
<1>0. /\ Sound(k) /\ RefsOK(k, held, used, up) /\ NodeOK(k, obuf, up) /\ DeathOK(k, death) /\ up = TRUE
      /\ obuf \in [Kinds -> Nat] /\ (kind = "strong" \/ kind = "weak")
      /\ k \in Drivers /\ Once(k.todo) /\ k.node \in Nodes
  BY DEF BInv, OwnerOK, OwnerFrees, NodeOK, Kinds, Sound, WorkOK, Drivers
<1>1. /\ r = binder_dec_node(k, kind = "strong", FALSE) /\ obuf[kind] > 0
      /\ o = Freed(obuf, kind, obuf[kind] - 1)
      /\ held' = held /\ used' = used /\ death' = death /\ up' = up
  BY DEF OwnerFrees, Freed, clientVars
<1>2. OwnerOK'
  BY DEF OwnerFrees, BInv, OwnerOK
<1>3. /\ obuf.strong \in Nat /\ obuf.weak \in Nat /\ a \in Nat /\ b \in Nat
      /\ k.node.local_strong_refs = obuf.strong + a /\ k.node.local_weak_refs = obuf.weak + b
      /\ k.node.internal_strong_refs \in Nat
  BY <1>0, CountsSame DEF NodeOK, Kinds, SameFlags, Nodes
<1> HIDE DEF r, o
<1>4. Matches(r, held, used, o, death, TRUE)
  <2>1. CASE kind = "strong"
    <3> DEFINE n == Uncounted(k.node, TRUE, FALSE)
               x == obuf.strong - 1
    <3>1. x \in Nat /\ x + 1 = obuf.strong /\ o = Freed(obuf, "strong", x)
      BY <1>1, <1>3, <2>1
    <3>2. k.node.local_strong_refs > 0 /\ k.node.local_strong_refs - 1 = x + a
      <4> HIDE DEF a
      <4> QED BY <1>3, <3>1
    <3>3. MoreThan(n, k.node, 0, -1, 0)
      BY <1>0, <3>2, UncountedEffect
    <3>4. Becomes(k, n, k.ref, r)
      <4>1. r = binder_dec_node(k, TRUE, FALSE)
        BY <1>1, <2>1
      <4> QED BY <1>0, <3>2, <4>1, DecNodeKinds
    <3> HIDE DEF n, x
    <3>5. k.node.there /\ k.node.proc
      <4>1. k.node # NoNode
        BY <3>2 DEF NoNode
      <4> QED BY <1>0, <4>1 DEF Sound, FlagsOK, NodeOK
    <3>6. n \in Nodes /\ SameFlags(n, k.node)
      BY <3>3 DEF MoreThan
    <3>7. o \in [Kinds -> Nat] /\ o.strong = x /\ o.weak = obuf.weak
      BY <1>0, <3>1, FreedEffect
    <3>8. Counts(n, o) /\ n.internal_strong_refs = k.node.internal_strong_refs
      <4>1. /\ One(n.proc /\ n.pending_strong_ref) = a /\ One(n.proc /\ n.pending_weak_ref) = b
        BY <3>6, CountsSame
      <4> HIDE DEF a, b
      <4>2. /\ n.local_strong_refs = k.node.local_strong_refs - 1
            /\ n.local_weak_refs = k.node.local_weak_refs
            /\ n.internal_strong_refs = k.node.internal_strong_refs
        <5>1. /\ n.internal_strong_refs = k.node.internal_strong_refs + 0
              /\ n.local_strong_refs = k.node.local_strong_refs + -1
              /\ n.local_weak_refs = k.node.local_weak_refs + 0
          BY <3>3 DEF MoreThan
        <5> QED BY <1>3, <5>1
      <4> QED BY <1>3, <3>2, <3>7, <4>1, <4>2 DEF Counts
    <3> QED BY <1>0, <3>4, <3>5, <3>6, <3>8, LocalDec
  <2>2. CASE kind = "weak"
    <3> DEFINE n == Uncounted(k.node, FALSE, FALSE)
               x == obuf.weak - 1
    <3>1. x \in Nat /\ x + 1 = obuf.weak /\ o = Freed(obuf, "weak", x)
      BY <1>1, <1>3, <2>2
    <3>2. k.node.local_weak_refs > 0 /\ k.node.local_weak_refs - 1 = x + b
      <4> HIDE DEF b
      <4> QED BY <1>3, <3>1
    <3>3. MoreThan(n, k.node, 0, 0, -1)
      BY <1>0, <3>2, UncountedEffect
    <3>4. Becomes(k, n, k.ref, r)
      <4>1. r = binder_dec_node(k, FALSE, FALSE)
        BY <1>1, <2>2
      <4> QED BY <1>0, <3>2, <4>1, DecNodeKinds
    <3> HIDE DEF n, x
    <3>5. k.node.there /\ k.node.proc
      <4>1. k.node # NoNode
        BY <3>2 DEF NoNode
      <4> QED BY <1>0, <4>1 DEF Sound, FlagsOK, NodeOK
    <3>6. n \in Nodes /\ SameFlags(n, k.node)
      BY <3>3 DEF MoreThan
    <3>7. o \in [Kinds -> Nat] /\ o.weak = x /\ o.strong = obuf.strong
      BY <1>0, <3>1, FreedEffect
    <3>8. Counts(n, o) /\ n.internal_strong_refs = k.node.internal_strong_refs
      <4>1. /\ One(n.proc /\ n.pending_strong_ref) = a /\ One(n.proc /\ n.pending_weak_ref) = b
        BY <3>6, CountsSame
      <4> HIDE DEF a, b
      <4>2. /\ n.local_weak_refs = k.node.local_weak_refs - 1
            /\ n.local_strong_refs = k.node.local_strong_refs
            /\ n.internal_strong_refs = k.node.internal_strong_refs
        <5>1. /\ n.internal_strong_refs = k.node.internal_strong_refs + 0
              /\ n.local_strong_refs = k.node.local_strong_refs + 0
              /\ n.local_weak_refs = k.node.local_weak_refs + -1
          BY <3>3 DEF MoreThan
        <5> QED BY <1>3, <5>1
      <4> QED BY <1>3, <3>2, <3>7, <4>1, <4>2 DEF Counts
    <3> QED BY <1>0, <3>4, <3>5, <3>6, <3>8, LocalDec
  <2> QED BY <1>0, <2>1, <2>2
<1> QED BY <1>0, <1>1, <1>2, <1>4 DEF BInv, Matches, r, o

\* The driver with node n for the one it has, which has the same refs
LEMMA NodeSet ==
    ASSUME NEW s, NEW h, NEW u, NEW o, NEW d, Sound(s), RefsOK(s, h, u, TRUE), DeathOK(s, d),
           NEW n \in Nodes, n.there, n.proc, s.node.there, s.node.proc, FlagsOK(n), Counts(n, o),
           n.internal_strong_refs = s.node.internal_strong_refs,
           NEW r \in Drivers, r.node = n, r.ref = s.ref, Once(r.todo),
           ~ n.has_weak_ref /\ (\E c \in Clients : s.ref[c].there) => OnList(r.todo)
    PROVE  Matches(r, h, u, o, d, TRUE)
<1>1. RefsThere(n, s.ref) /\ RefsNeeded(n, s.ref)
  BY DEF Sound, RefsThere, RefsNeeded
<1>2. WorkOK(r)
  BY DEF WorkOK
<1>3. RefsOK(r, h, u, TRUE)
  BY DEF RefsOK
<1>4. NodeOK(r, o, TRUE)
  BY DEF NodeOK, Counts
<1>5. DeathOK(r, d)
  BY DEF DeathOK
<1> QED BY <1>1, <1>2, <1>3, <1>4, <1>5 DEF Sound, Matches

\* A transaction goes to the owner.
LEMMA TransactStep ==
    ASSUME BInv, NEW c \in Clients, NEW kind \in Kinds, Transact(c, kind)
    PROVE  BInv'
<1> DEFINE r == k'
           o == obuf'
           a == One(k.node.proc /\ k.node.pending_strong_ref)
           b == One(k.node.proc /\ k.node.pending_weak_ref)
           st == kind = "strong"
           n == Counted(k.node, st, FALSE)
<1>0. /\ Sound(k) /\ RefsOK(k, held, used, up) /\ NodeOK(k, obuf, up) /\ DeathOK(k, death) /\ up = TRUE
      /\ obuf \in [Kinds -> Nat] /\ (kind = "strong" \/ kind = "weak")
      /\ k \in Drivers /\ Once(k.todo) /\ k.node \in Nodes /\ FlagsOK(k.node)
  BY DEF BInv, OwnerOK, Transact, NodeOK, Kinds, Sound, WorkOK, Drivers
<1>1. /\ r = binder_inc_node(k, st, FALSE, "NULL")
      /\ o = Freed(obuf, kind, obuf[kind] + 1)
      /\ held' = held /\ used' = used /\ death' = death /\ up' = up /\ k.ref[c].there
  BY DEF Transact, Freed, clientVars, ownerVars
<1>2. OwnerOK'
  BY DEF Transact, BInv, OwnerOK, ownerVars
<1>3. /\ obuf.strong \in Nat /\ obuf.weak \in Nat /\ a \in Nat /\ b \in Nat
      /\ k.node.local_strong_refs = obuf.strong + a /\ k.node.local_weak_refs = obuf.weak + b
      /\ k.node.internal_strong_refs \in Nat
  BY <1>0, CountsSame DEF NodeOK, Kinds, SameFlags, Nodes
<1>4. k.node.there /\ k.node.proc
  BY <1>0, <1>1 DEF Sound, RefsThere, NodeOK
<1> HIDE DEF r, o
<1>5. n \in Nodes /\ SameFlags(n, k.node) /\ n.internal_strong_refs = k.node.internal_strong_refs
      /\ Counts(n, o)
  <2>1. CASE kind = "strong"
    <3>1. MoreThan(n, k.node, 0, 1, 0)
      BY <1>0, <2>1, CountedEffect
    <3> DEFINE x == obuf.strong + 1
    <3>2. o = Freed(obuf, "strong", x) /\ x \in Nat
      BY <1>1, <1>3, <2>1
    <3>3. o \in [Kinds -> Nat] /\ o.strong = x /\ o.weak = obuf.weak
      BY <1>0, <3>2, FreedEffect
    <3> HIDE DEF n
    <3>4. SameFlags(n, k.node) /\ n \in Nodes
      BY <3>1 DEF MoreThan
    <3>5. /\ One(n.proc /\ n.pending_strong_ref) = a /\ One(n.proc /\ n.pending_weak_ref) = b
      BY <3>4, CountsSame
    <3> HIDE DEF a, b
    <3>6. /\ n.local_strong_refs = x + a /\ n.local_weak_refs = o.weak + b
          /\ n.internal_strong_refs = k.node.internal_strong_refs
      <4>1. /\ n.internal_strong_refs = k.node.internal_strong_refs + 0
            /\ n.local_strong_refs = k.node.local_strong_refs + 1
            /\ n.local_weak_refs = k.node.local_weak_refs + 0
        BY <3>1 DEF MoreThan
      <4> QED BY <1>3, <3>3, <4>1
    <3> QED BY <3>3, <3>4, <3>5, <3>6 DEF Counts
  <2>2. CASE kind = "weak"
    <3>0. n = Counted(k.node, FALSE, FALSE)
      BY <2>2
    <3>1. MoreThan(n, k.node, 0, 0, 1)
      BY <1>0, <3>0, CountedEffect
    <3> DEFINE x == obuf.weak + 1
    <3>2. o = Freed(obuf, "weak", x) /\ x \in Nat
      BY <1>1, <1>3, <2>2
    <3>3. o \in [Kinds -> Nat] /\ o.weak = x /\ o.strong = obuf.strong
      BY <1>0, <3>2, FreedEffect
    <3> HIDE DEF n
    <3>4. SameFlags(n, k.node) /\ n \in Nodes
      BY <3>1 DEF MoreThan
    <3>5. /\ One(n.proc /\ n.pending_strong_ref) = a /\ One(n.proc /\ n.pending_weak_ref) = b
      BY <3>4, CountsSame
    <3> HIDE DEF a, b
    <3>6. /\ n.local_weak_refs = x + b /\ n.local_strong_refs = o.strong + a
          /\ n.internal_strong_refs = k.node.internal_strong_refs
      <4>1. /\ n.internal_strong_refs = k.node.internal_strong_refs + 0
            /\ n.local_strong_refs = k.node.local_strong_refs + 0
            /\ n.local_weak_refs = k.node.local_weak_refs + 1
        BY <3>1 DEF MoreThan
      <4> QED BY <1>3, <3>3, <4>1
    <3> QED BY <3>3, <3>4, <3>5, <3>6 DEF Counts
  <2> QED BY <1>0, <2>1, <2>2
<1>6. Adds(k, n, k.ref, r) /\ r.todo = k.todo
  <2> DEFINE no == FALSE
  <2>1. st \in BOOLEAN /\ no \in BOOLEAN /\ n = Counted(k.node, st, no)
        /\ r = binder_inc_node(k, st, no, "NULL")
    BY <1>1
  <2> HIDE DEF st, no, n
  <2> QED BY <1>0, <1>5, <2>1, IncNodeNull
<1> HIDE DEF n
<1>7. n.there /\ n.proc /\ FlagsOK(n) /\ (~ n.has_weak_ref => OnList(k.todo))
  BY <1>0, <1>1, <1>4, <1>5 DEF SameFlags, FlagsOK, Sound, WorkOK
<1>8. r \in Drivers /\ r.node = n /\ r.ref = k.ref /\ Once(r.todo)
  BY <1>6 DEF Adds
<1>9. Matches(r, held, used, o, death, TRUE)
  BY <1>0, <1>4, <1>5, <1>6, <1>7, <1>8, NodeSet
<1> QED BY <1>0, <1>1, <1>2, <1>9 DEF BInv, Matches, r, o

\* The driver with the pending flag of a kind cleared
Acked(s, kind) ==
    IF kind = "strong" THEN [s EXCEPT !.node.pending_strong_ref = FALSE]
    ELSE [s EXCEPT !.node.pending_weak_ref = FALSE]

\* Nothing else changes.
LEMMA AckedEffect ==
    ASSUME NEW s \in Drivers
    PROVE  LET a == Acked(s, "strong")
               b == Acked(s, "weak")
           IN  /\ a \in Drivers /\ a.ref = s.ref /\ a.todo = s.todo /\ ~ a.node.pending_strong_ref
               /\ a.node.there = s.node.there /\ a.node.proc = s.node.proc
               /\ a.node.internal_strong_refs = s.node.internal_strong_refs
               /\ a.node.local_strong_refs = s.node.local_strong_refs
               /\ a.node.local_weak_refs = s.node.local_weak_refs
               /\ a.node.has_strong_ref = s.node.has_strong_ref
               /\ a.node.has_weak_ref = s.node.has_weak_ref
               /\ a.node.pending_weak_ref = s.node.pending_weak_ref
               /\ b \in Drivers /\ b.ref = s.ref /\ b.todo = s.todo /\ ~ b.node.pending_weak_ref
               /\ b.node.there = s.node.there /\ b.node.proc = s.node.proc
               /\ b.node.internal_strong_refs = s.node.internal_strong_refs
               /\ b.node.local_strong_refs = s.node.local_strong_refs
               /\ b.node.local_weak_refs = s.node.local_weak_refs
               /\ b.node.has_strong_ref = s.node.has_strong_ref
               /\ b.node.has_weak_ref = s.node.has_weak_ref
               /\ b.node.pending_strong_ref = s.node.pending_strong_ref
<1> DEFINE a == Acked(s, "strong")
           b == Acked(s, "weak")
           m == [s.node EXCEPT !.pending_strong_ref = FALSE]
           n == [s.node EXCEPT !.pending_weak_ref = FALSE]
<1>1. s.node \in Nodes
  BY DEF Drivers
<1>2. /\ m \in Nodes /\ ~ m.pending_strong_ref
      /\ m.there = s.node.there /\ m.proc = s.node.proc
      /\ m.internal_strong_refs = s.node.internal_strong_refs
      /\ m.local_strong_refs = s.node.local_strong_refs /\ m.local_weak_refs = s.node.local_weak_refs
      /\ m.has_strong_ref = s.node.has_strong_ref /\ m.has_weak_ref = s.node.has_weak_ref
      /\ m.pending_weak_ref = s.node.pending_weak_ref
  BY <1>1 DEF Nodes
<1>3. /\ n \in Nodes /\ ~ n.pending_weak_ref
      /\ n.there = s.node.there /\ n.proc = s.node.proc
      /\ n.internal_strong_refs = s.node.internal_strong_refs
      /\ n.local_strong_refs = s.node.local_strong_refs /\ n.local_weak_refs = s.node.local_weak_refs
      /\ n.has_strong_ref = s.node.has_strong_ref /\ n.has_weak_ref = s.node.has_weak_ref
      /\ n.pending_strong_ref = s.node.pending_strong_ref
  BY <1>1 DEF Nodes
<1>4. a = [s EXCEPT !.node = m] /\ b = [s EXCEPT !.node = n]
  BY DEF Acked
<1> HIDE DEF a, b, m, n
<1>5. a \in Drivers /\ a.ref = s.ref /\ a.todo = s.todo /\ a.node = m
  BY <1>2, <1>4 DEF Drivers
<1>6. b \in Drivers /\ b.ref = s.ref /\ b.todo = s.todo /\ b.node = n
  BY <1>3, <1>4 DEF Drivers
<1> QED BY <1>2, <1>3, <1>5, <1>6 DEF a, b


\* BC_ACQUIRE_DONE: the command is not counted any more.
LEMMA DoneStrong ==
    ASSUME NEW s, NEW h, NEW u, NEW o, NEW d, Matches(s, h, u, o, d, TRUE)
    PROVE  Matches(Done(s, TRUE), h, u, o, d, TRUE)
<1> DEFINE t == Acked(s, "strong")
           r == Done(s, TRUE)
           n == Uncounted(t.node, TRUE, FALSE)
<1>0. /\ Sound(s) /\ RefsOK(s, h, u, TRUE) /\ NodeOK(s, o, TRUE) /\ DeathOK(s, d) /\ s \in Drivers
      /\ o \in [Kinds -> Nat] /\ s.node \in Nodes
  BY DEF Matches, Sound, NodeOK, Drivers
<1>1. CASE ~ s.node.pending_strong_ref
  <2>1. r = s
    BY <1>1 DEF Done
  <2> QED BY <2>1
<1>2. CASE s.node.pending_strong_ref
  <2>1. r = binder_dec_node(t, TRUE, FALSE)
    BY <1>2 DEF Done, Acked
  <2>2. /\ t \in Drivers /\ t.ref = s.ref /\ t.todo = s.todo /\ ~ t.node.pending_strong_ref
        /\ t.node.there = s.node.there /\ t.node.proc = s.node.proc
        /\ t.node.internal_strong_refs = s.node.internal_strong_refs
        /\ t.node.local_strong_refs = s.node.local_strong_refs
        /\ t.node.local_weak_refs = s.node.local_weak_refs
        /\ t.node.has_strong_ref = s.node.has_strong_ref
        /\ t.node.has_weak_ref = s.node.has_weak_ref
        /\ t.node.pending_weak_ref = s.node.pending_weak_ref
    BY <1>0, AckedEffect
  <2> HIDE DEF t, r
  <2>3. s.node.there /\ s.node.proc
    <3>1. ~ NoNode.pending_strong_ref
      BY DEF NoNode
    <3> QED BY <1>0, <1>2, <3>1 DEF Sound, FlagsOK, NodeOK
  <2>4. Sound(t)
    <3>1. FlagsOK(t.node)
      BY <1>0, <2>2, <2>3 DEF Sound, FlagsOK
    <3>2. WorkOK(t)
      BY <1>0, <2>2 DEF Sound, WorkOK
    <3>3. RefsThere(t.node, t.ref) /\ RefsNeeded(t.node, t.ref)
      BY <1>0, <2>2 DEF Sound, RefsThere, RefsNeeded
    <3> QED BY <2>2, <3>1, <3>2, <3>3 DEF Sound
  <2>5. RefsOK(t, h, u, TRUE) /\ DeathOK(t, d)
    BY <1>0, <2>2 DEF RefsOK, DeathOK
  <2> DEFINE b == One(s.node.proc /\ s.node.pending_weak_ref)
  <2>6. /\ o.strong \in Nat /\ o.weak \in Nat /\ b \in Nat
        /\ s.node.local_strong_refs = o.strong + 1 /\ s.node.local_weak_refs = o.weak + b
        /\ s.node.internal_strong_refs \in Nat
    <3>1. One(s.node.proc /\ s.node.pending_strong_ref) = 1
      BY <1>2, <2>3 DEF One
    <3> QED BY <1>0, <3>1, CountsSame DEF NodeOK, Kinds, SameFlags, Nodes
  <2>7. t.node \in Nodes /\ Once(t.todo)
    BY <2>2, <2>4 DEF Drivers, Sound, WorkOK
  <2>8. t.node.local_strong_refs > 0
    <3> HIDE DEF b
    <3> QED BY <2>2, <2>6
  <2>9. MoreThan(n, t.node, 0, -1, 0)
    BY <2>7, <2>8, UncountedEffect
  <2>10. Becomes(t, n, t.ref, r)
    BY <2>1, <2>2, <2>7, <2>8, DecNodeKinds
  <2> HIDE DEF n
  <2>11. n \in Nodes /\ SameFlags(n, t.node)
    BY <2>9 DEF MoreThan
  <2>12. One(n.proc /\ n.pending_strong_ref) = 0 /\ One(n.proc /\ n.pending_weak_ref) = b
    <3>1. ~ n.pending_strong_ref /\ n.proc = s.node.proc /\ n.pending_weak_ref = s.node.pending_weak_ref
      BY <2>2, <2>11 DEF SameFlags
    <3> QED BY <3>1 DEF One
  <2> HIDE DEF b
  <2>13. /\ n.local_strong_refs = o.strong + 0 /\ n.local_weak_refs = o.weak + b
         /\ n.internal_strong_refs = t.node.internal_strong_refs
    <3>1. /\ n.internal_strong_refs = t.node.internal_strong_refs + 0
          /\ n.local_strong_refs = t.node.local_strong_refs + -1
          /\ n.local_weak_refs = t.node.local_weak_refs + 0
      BY <2>9 DEF MoreThan
    <3> QED BY <2>2, <2>6, <3>1
  <2>14. Counts(n, o)
    BY <1>0, <2>12, <2>13 DEF Counts
  <2> QED BY <2>2, <2>3, <2>4, <2>5, <2>10, <2>11, <2>13, <2>14, LocalDec DEF r
<1> QED BY <1>1, <1>2

\* BC_INCREFS_DONE
LEMMA DoneWeak ==
    ASSUME NEW s, NEW h, NEW u, NEW o, NEW d, Matches(s, h, u, o, d, TRUE)
    PROVE  Matches(Done(s, FALSE), h, u, o, d, TRUE)
<1> DEFINE t == Acked(s, "weak")
           r == Done(s, FALSE)
           n == Uncounted(t.node, FALSE, FALSE)
<1>0. /\ Sound(s) /\ RefsOK(s, h, u, TRUE) /\ NodeOK(s, o, TRUE) /\ DeathOK(s, d) /\ s \in Drivers
      /\ o \in [Kinds -> Nat] /\ s.node \in Nodes
  BY DEF Matches, Sound, NodeOK, Drivers
<1>1. CASE ~ s.node.pending_weak_ref
  <2>1. r = s
    BY <1>1 DEF Done
  <2> QED BY <2>1
<1>2. CASE s.node.pending_weak_ref
  <2>1. r = binder_dec_node(t, FALSE, FALSE)
    BY <1>2 DEF Done, Acked
  <2>2. /\ t \in Drivers /\ t.ref = s.ref /\ t.todo = s.todo /\ ~ t.node.pending_weak_ref
        /\ t.node.there = s.node.there /\ t.node.proc = s.node.proc
        /\ t.node.internal_strong_refs = s.node.internal_strong_refs
        /\ t.node.local_strong_refs = s.node.local_strong_refs
        /\ t.node.local_weak_refs = s.node.local_weak_refs
        /\ t.node.has_strong_ref = s.node.has_strong_ref
        /\ t.node.has_weak_ref = s.node.has_weak_ref
        /\ t.node.pending_strong_ref = s.node.pending_strong_ref
    BY <1>0, AckedEffect
  <2> HIDE DEF t, r
  <2>3. s.node.there /\ s.node.proc
    <3>1. ~ NoNode.pending_weak_ref
      BY DEF NoNode
    <3> QED BY <1>0, <1>2, <3>1 DEF Sound, FlagsOK, NodeOK
  <2>4. Sound(t)
    <3>1. FlagsOK(t.node)
      BY <1>0, <2>2, <2>3 DEF Sound, FlagsOK
    <3>2. WorkOK(t)
      BY <1>0, <2>2 DEF Sound, WorkOK
    <3>3. RefsThere(t.node, t.ref) /\ RefsNeeded(t.node, t.ref)
      BY <1>0, <2>2 DEF Sound, RefsThere, RefsNeeded
    <3> QED BY <2>2, <3>1, <3>2, <3>3 DEF Sound
  <2>5. RefsOK(t, h, u, TRUE) /\ DeathOK(t, d)
    BY <1>0, <2>2 DEF RefsOK, DeathOK
  <2> DEFINE a == One(s.node.proc /\ s.node.pending_strong_ref)
  <2>6. /\ o.strong \in Nat /\ o.weak \in Nat /\ a \in Nat
        /\ s.node.local_weak_refs = o.weak + 1 /\ s.node.local_strong_refs = o.strong + a
        /\ s.node.internal_strong_refs \in Nat
    <3>1. One(s.node.proc /\ s.node.pending_weak_ref) = 1
      BY <1>2, <2>3 DEF One
    <3> QED BY <1>0, <3>1, CountsSame DEF NodeOK, Kinds, SameFlags, Nodes
  <2>7. t.node \in Nodes /\ Once(t.todo)
    BY <2>2, <2>4 DEF Drivers, Sound, WorkOK
  <2>8. t.node.local_weak_refs > 0
    <3> HIDE DEF a
    <3> QED BY <2>2, <2>6
  <2>9. MoreThan(n, t.node, 0, 0, -1)
    BY <2>7, <2>8, UncountedEffect
  <2>10. Becomes(t, n, t.ref, r)
    BY <2>1, <2>2, <2>7, <2>8, DecNodeKinds
  <2> HIDE DEF n
  <2>11. n \in Nodes /\ SameFlags(n, t.node)
    BY <2>9 DEF MoreThan
  <2>12. One(n.proc /\ n.pending_weak_ref) = 0 /\ One(n.proc /\ n.pending_strong_ref) = a
    <3>1. ~ n.pending_weak_ref /\ n.proc = s.node.proc /\ n.pending_strong_ref = s.node.pending_strong_ref
      BY <2>2, <2>11 DEF SameFlags
    <3> QED BY <3>1 DEF One
  <2> HIDE DEF a
  <2>13. /\ n.local_weak_refs = o.weak + 0 /\ n.local_strong_refs = o.strong + a
         /\ n.internal_strong_refs = t.node.internal_strong_refs
    <3>1. /\ n.internal_strong_refs = t.node.internal_strong_refs + 0
          /\ n.local_strong_refs = t.node.local_strong_refs + 0
          /\ n.local_weak_refs = t.node.local_weak_refs + -1
      BY <2>9 DEF MoreThan
    <3> QED BY <2>2, <2>6, <3>1
  <2>14. Counts(n, o)
    BY <1>0, <2>12, <2>13 DEF Counts
  <2> QED BY <2>2, <2>3, <2>4, <2>5, <2>10, <2>11, <2>13, <2>14, LocalDec DEF r
<1> QED BY <1>1, <1>2

\* A thread of the owner handles a command.
LEMMA HandleStep ==
    ASSUME BInv, NEW t \in Threads, Handle(t)
    PROVE  BInv'
<1>0. up = TRUE /\ Matches(k, held, used, obuf, death, TRUE)
  BY DEF BInv, OwnerOK, Handle, Matches
<1>1. /\ k' = Done(k, TRUE) \/ k' = Done(k, FALSE) \/ k' = k
      /\ held' = held /\ used' = used /\ death' = death /\ obuf' = obuf /\ up' = up
  BY DEF Handle, clientVars
<1>2. OwnerOK'
  <2>1. user \in [Kinds -> Int] /\ user.strong \in Int /\ user.weak \in Int
    BY DEF BInv, OwnerOK, Kinds
  <2>2. \A x \in Int : /\ [user EXCEPT !.strong = x] \in [Kinds -> Int]
                       /\ [user EXCEPT !.weak = x] \in [Kinds -> Int]
    BY <2>1
  <2>3. user' \in [Kinds -> Int]
    BY <2>1, <2>2 DEF Handle
  <2> QED BY <1>0, <1>1, <2>3 DEF OwnerOK
<1>3. Matches(k', held, used, obuf, death, TRUE)
  <2>1. CASE k' = Done(k, TRUE)
    BY <1>0, <2>1, DoneStrong
  <2>2. CASE k' = Done(k, FALSE)
    BY <1>0, <2>2, DoneWeak
  <2> QED BY <1>0, <1>1, <2>1, <2>2
<1> QED BY <1>0, <1>1, <1>2, <1>3 DEF BInv, Matches


-----------------------------------------------------------------------------
(* The owner reads *)

\* The first work is taken off list l.
LEMMA Popped ==
    ASSUME NEW todo \in [Lists -> Seq(WorkTypes)], Once(todo), NEW l \in Lists, todo[l] # <<>>,
           NEW td, td = [todo EXCEPT ![l] = Tail(@)]
    PROVE  /\ td \in [Lists -> Seq(WorkTypes)] /\ Once(td)
           /\ Head(todo[l]) = "complete" => (OnList(td) <=> OnList(todo))
           /\ Head(todo[l]) = "node" => OnList(todo) /\ ~ OnList(td)
<1> DEFINE q == todo[l]
<1>1. /\ q \in Seq(WorkTypes) /\ q # <<>> /\ Len(q) \in Nat \ {0} /\ DOMAIN q = 1..Len(q)
      /\ Head(q) = q[1] /\ Tail(q) \in Seq(WorkTypes) /\ DOMAIN Tail(q) = 1..(Len(q) - 1)
      /\ \A i \in 1..(Len(q) - 1) : Tail(q)[i] = q[i + 1]
  <2>1. q \in Seq(WorkTypes) /\ q # <<>>
    OBVIOUS
  <2> HIDE DEF q
  <2> QED BY <2>1
<1>2. td \in [Lists -> Seq(WorkTypes)] /\ td[l] = Tail(q) /\ \A m \in Lists \ {l} : td[m] = todo[m]
  BY <1>1
<1>3. \A m \in Lists : \A i \in DOMAIN td[m] :
         /\ i + One(m = l) \in DOMAIN todo[m] /\ todo[m][i + One(m = l)] = td[m][i] /\ i \in Nat
  <2> SUFFICES ASSUME NEW m \in Lists, NEW i \in DOMAIN td[m]
               PROVE  i + One(m = l) \in DOMAIN todo[m] /\ todo[m][i + One(m = l)] = td[m][i] /\ i \in Nat
    OBVIOUS
  <2>1. CASE m = l
    <3>1. One(m = l) = 1
      BY <2>1 DEF One
    <3>2. i \in 1..(Len(q) - 1) /\ DOMAIN todo[m] = 1..Len(q) /\ todo[m] = q
      BY <1>1, <1>2, <2>1
    <3> HIDE DEF q
    <3>3. i + 1 \in 1..Len(q) /\ i \in Nat /\ td[m][i] = q[i + 1]
      BY <1>1, <1>2, <2>1, <3>2
    <3> QED BY <3>1, <3>2, <3>3
  <2>2. CASE m # l
    <3>1. One(m = l) = 0
      BY <2>2 DEF One
    <3>2. td[m] = todo[m] /\ todo[m] \in Seq(WorkTypes) /\ i \in Nat
      BY <1>2, <2>2
    <3> QED BY <3>1, <3>2
  <2> QED BY <2>1, <2>2
<1>4. Once(td)
  <2> SUFFICES ASSUME NEW m \in Lists, NEW p \in Lists, NEW i \in DOMAIN td[m], NEW j \in DOMAIN td[p],
                      td[m][i] = "node", td[p][j] = "node"
               PROVE  m = p /\ i = j
    BY DEF Once
  <2> DEFINE x == One(m = l)
             y == One(p = l)
  <2>1. /\ i + x \in DOMAIN todo[m] /\ todo[m][i + x] = "node" /\ i \in Nat
        /\ j + y \in DOMAIN todo[p] /\ todo[p][j + y] = "node" /\ j \in Nat
    BY <1>3
  <2>2. m = p /\ i + x = j + y
    BY <2>1 DEF Once
  <2>3. x = y /\ x \in Nat
    BY <2>2 DEF One
  <2> HIDE DEF x, y
  <2> QED BY <2>1, <2>2, <2>3
<1>5. OnList(td) => OnList(todo)
  BY <1>3 DEF OnList
<1>6. ASSUME Head(q) = "node"
      PROVE  OnList(todo) /\ ~ OnList(td)
  <2>1. 1 \in DOMAIN todo[l] /\ todo[l][1] = "node"
    BY <1>1, <1>6
  <2>2. OnList(todo)
    BY <2>1 DEF OnList
  <2>3. ASSUME NEW m \in Lists, NEW i \in DOMAIN td[m], td[m][i] = "node"
        PROVE  FALSE
    <3> DEFINE x == One(m = l)
    <3>1. i + x \in DOMAIN todo[m] /\ todo[m][i + x] = "node" /\ i \in Nat
      BY <1>3, <2>3
    <3>2. m = l /\ i + x = 1
      BY <2>1, <3>1 DEF Once
    <3>3. x = 1
      BY <3>2 DEF One
    <3>4. i \in 1..(Len(q) - 1)
      BY <1>1, <1>2, <2>3, <3>2
    <3> QED BY <3>2, <3>3, <3>4
  <2> QED BY <2>2, <2>3 DEF OnList
<1>7. ASSUME Head(q) = "complete", OnList(todo)
      PROVE  OnList(td)
  <2>1. PICK m \in Lists : \E i \in DOMAIN todo[m] : todo[m][i] = "node"
    BY <1>7 DEF OnList
  <2>2. PICK i \in DOMAIN todo[m] : todo[m][i] = "node"
    BY <2>1
  <2>3. CASE m # l
    BY <1>2, <2>2, <2>3 DEF OnList
  <2>4. CASE m = l
    <3>1. i # 1 /\ i \in 1..Len(q)
      BY <1>1, <1>7, <2>2, <2>4
    <3> HIDE DEF q
    <3>2. i - 1 \in 1..(Len(q) - 1) /\ (i - 1) + 1 = i
      BY <1>1, <3>1
    <3>3. i - 1 \in DOMAIN td[l] /\ td[l][i - 1] = q[i]
      BY <1>1, <1>2, <3>2
    <3> QED BY <2>2, <2>4, <3>3 DEF OnList, q
  <2> QED BY <2>3, <2>4
<1> QED BY <1>2, <1>4, <1>5, <1>6, <1>7

\* BINDER_WORK_TRANSACTION_COMPLETE
LEMMA ReadCompleteStep ==
    ASSUME BInv, NEW t \in Threads, ReadComplete(t)
    PROVE  BInv'
<1> DEFINE td == [k.todo EXCEPT ![t] = Tail(@)]
           r == [k EXCEPT !.todo = td]
<1>0. /\ Sound(k) /\ RefsOK(k, held, used, up) /\ NodeOK(k, obuf, up) /\ DeathOK(k, death)
      /\ k \in Drivers /\ Once(k.todo) /\ t \in Lists /\ k.todo \in [Lists -> Seq(WorkTypes)]
  BY DEF BInv, Sound, WorkOK, Lists, Drivers
<1>1. /\ k' = r /\ k.todo[t] # <<>> /\ Head(k.todo[t]) = "complete"
      /\ held' = held /\ used' = used /\ death' = death /\ obuf' = obuf /\ up' = up /\ user' = user
  BY DEF ReadComplete, clientVars
<1>2. td \in [Lists -> Seq(WorkTypes)] /\ Once(td) /\ (OnList(td) <=> OnList(k.todo))
  BY <1>0, <1>1, Popped
<1> HIDE DEF td
<1>3. r \in Drivers /\ r.node = k.node /\ r.ref = k.ref /\ r.todo = td
  BY <1>0, <1>2 DEF Drivers
<1> HIDE DEF r
<1>4. up = TRUE
  <2>1. ~ Empty(k.todo)
    BY <1>0, <1>1 DEF Empty
  <2> QED BY <1>0, <2>1 DEF NodeOK, BInv, OwnerOK
<1>5. Sound(r)
  BY <1>0, <1>2, <1>3 DEF Sound, WorkOK
<1>6. RefsOK(r, held, used, up) /\ NodeOK(r, obuf, up) /\ DeathOK(r, death)
  BY <1>0, <1>3, <1>4 DEF RefsOK, NodeOK, DeathOK
<1>7. OwnerOK'
  BY <1>1, <1>4 DEF BInv, OwnerOK
<1> QED BY <1>1, <1>5, <1>6, <1>7 DEF BInv


\* A command leaves counts and flags of the node as they must be.
LEMMA CommandEffect ==
    ASSUME NEW n \in Nodes, FlagsOK(n), n.there, n.proc, NEW o, Counts(n, o),
           NEW strong \in BOOLEAN, NEW weak \in BOOLEAN, strong => weak,
           ~ strong => n.local_strong_refs = 0, ~ weak => n.local_weak_refs = 0,
           NEW c, c = NodeCommand(n, strong, weak)
    PROVE  /\ c.node \in Nodes /\ c.node.there /\ c.node.proc /\ FlagsOK(c.node) /\ Counts(c.node, o)
           /\ c.node.internal_strong_refs = n.internal_strong_refs
           /\ c.br = "BR_NOOP" => c.node = n /\ (weak => n.has_weak_ref)
<1> DEFINE m == c.node
           a == One(n.proc /\ n.pending_strong_ref)
           b == One(n.proc /\ n.pending_weak_ref)
<1>0. /\ o.strong \in Nat /\ o.weak \in Nat /\ o \in [Kinds -> Nat] /\ a \in Nat /\ b \in Nat
      /\ n.local_strong_refs = o.strong + a /\ n.local_weak_refs = o.weak + b
  BY CountsSame DEF Counts, Kinds, SameFlags
<1>1. One(TRUE) = 1 /\ One(FALSE) = 0
  BY DEF One
<1>2. CASE weak /\ ~ n.has_weak_ref
  <2> DEFINE x == n.local_weak_refs + 1
  <2>1. /\ m = [n EXCEPT !.has_weak_ref = TRUE, !.pending_weak_ref = TRUE, !.local_weak_refs = x]
        /\ c.br = "BR_INCREFS" /\ x \in Nat
    BY <1>2 DEF NodeCommand, Nodes
  <2> HIDE DEF m, x
  <2>2. /\ m \in Nodes /\ m.has_weak_ref /\ m.pending_weak_ref /\ m.local_weak_refs = x
        /\ m.there = n.there /\ m.proc = n.proc
        /\ m.internal_strong_refs = n.internal_strong_refs
        /\ m.local_strong_refs = n.local_strong_refs
        /\ m.has_strong_ref = n.has_strong_ref /\ m.pending_strong_ref = n.pending_strong_ref
    BY <2>1 DEF Nodes
  <2>3. FlagsOK(m)
    BY <2>2 DEF FlagsOK
  <2>4. One(m.proc /\ m.pending_weak_ref) = 1 /\ One(m.proc /\ m.pending_strong_ref) = a /\ b = 0
    BY <1>2, <2>2 DEF One, FlagsOK
  <2> HIDE DEF a, b
  <2>5. m.local_strong_refs = o.strong + a /\ m.local_weak_refs = o.weak + 1
    BY <1>0, <2>2, <2>4 DEF x
  <2>6. Counts(m, o)
    BY <1>0, <2>4, <2>5 DEF Counts
  <2> QED BY <2>1, <2>2, <2>3, <2>6 DEF m
<1>3. CASE ~ (weak /\ ~ n.has_weak_ref) /\ strong /\ ~ n.has_strong_ref
  <2> DEFINE x == n.local_strong_refs + 1
  <2>1. /\ m = [n EXCEPT !.has_strong_ref = TRUE, !.pending_strong_ref = TRUE, !.local_strong_refs = x]
        /\ c.br = "BR_ACQUIRE" /\ x \in Nat
    BY <1>3 DEF NodeCommand, Nodes
  <2> HIDE DEF m, x
  <2>2. /\ m \in Nodes /\ m.has_strong_ref /\ m.pending_strong_ref /\ m.local_strong_refs = x
        /\ m.there = n.there /\ m.proc = n.proc
        /\ m.internal_strong_refs = n.internal_strong_refs
        /\ m.local_weak_refs = n.local_weak_refs
        /\ m.has_weak_ref = n.has_weak_ref /\ m.pending_weak_ref = n.pending_weak_ref
    BY <2>1 DEF Nodes
  <2>3. FlagsOK(m)
    BY <1>3, <2>2 DEF FlagsOK
  <2>4. One(m.proc /\ m.pending_strong_ref) = 1 /\ One(m.proc /\ m.pending_weak_ref) = b /\ a = 0
    BY <1>3, <2>2 DEF One, FlagsOK
  <2> HIDE DEF a, b
  <2>5. m.local_weak_refs = o.weak + b /\ m.local_strong_refs = o.strong + 1
    BY <1>0, <2>2, <2>4 DEF x
  <2>6. Counts(m, o)
    BY <1>0, <2>4, <2>5 DEF Counts
  <2> QED BY <2>1, <2>2, <2>3, <2>6 DEF m
<1>4. CASE /\ ~ (weak /\ ~ n.has_weak_ref) /\ ~ (strong /\ ~ n.has_strong_ref)
           /\ ~ strong /\ n.has_strong_ref
  <2>1. m = [n EXCEPT !.has_strong_ref = FALSE] /\ c.br = "BR_RELEASE"
    BY <1>4 DEF NodeCommand
  <2> HIDE DEF m
  <2>2. /\ m \in Nodes /\ ~ m.has_strong_ref /\ m.pending_strong_ref = n.pending_strong_ref
        /\ m.there = n.there /\ m.proc = n.proc
        /\ m.internal_strong_refs = n.internal_strong_refs
        /\ m.local_strong_refs = n.local_strong_refs /\ m.local_weak_refs = n.local_weak_refs
        /\ m.has_weak_ref = n.has_weak_ref /\ m.pending_weak_ref = n.pending_weak_ref
    BY <2>1 DEF Nodes
  <2>3. a = 0
    <3>1. 0 = o.strong + a
      BY <1>0, <1>4
    <3> HIDE DEF a
    <3> QED BY <1>0, <3>1
  <2>4. ~ n.pending_strong_ref
    BY <2>3 DEF One
  <2>5. FlagsOK(m)
    BY <2>2, <2>4 DEF FlagsOK
  <2>6. Counts(m, o)
    BY <2>2 DEF Counts
  <2> QED BY <2>1, <2>2, <2>5, <2>6 DEF m
<1>5. CASE /\ ~ (weak /\ ~ n.has_weak_ref) /\ ~ (strong /\ ~ n.has_strong_ref)
           /\ ~ (~ strong /\ n.has_strong_ref) /\ ~ weak /\ n.has_weak_ref
  <2>1. m = [n EXCEPT !.has_weak_ref = FALSE] /\ c.br = "BR_DECREFS"
    BY <1>5 DEF NodeCommand
  <2> HIDE DEF m
  <2>2. /\ m \in Nodes /\ ~ m.has_weak_ref /\ m.pending_weak_ref = n.pending_weak_ref
        /\ m.there = n.there /\ m.proc = n.proc
        /\ m.internal_strong_refs = n.internal_strong_refs
        /\ m.local_strong_refs = n.local_strong_refs /\ m.local_weak_refs = n.local_weak_refs
        /\ m.has_strong_ref = n.has_strong_ref /\ m.pending_strong_ref = n.pending_strong_ref
    BY <2>1 DEF Nodes
  <2>3. b = 0
    <3>1. 0 = o.weak + b
      BY <1>0, <1>5
    <3> HIDE DEF b
    <3> QED BY <1>0, <3>1
  <2>4. ~ n.pending_weak_ref
    BY <2>3 DEF One
  <2>5. FlagsOK(m)
    BY <1>5, <2>2, <2>4 DEF FlagsOK
  <2>6. Counts(m, o)
    BY <2>2 DEF Counts
  <2> QED BY <2>1, <2>2, <2>5, <2>6 DEF m
<1>6. CASE /\ ~ (weak /\ ~ n.has_weak_ref) /\ ~ (strong /\ ~ n.has_strong_ref)
           /\ ~ (~ strong /\ n.has_strong_ref) /\ ~ (~ weak /\ n.has_weak_ref)
  <2>1. m = n /\ c.br = "BR_NOOP"
    BY <1>6 DEF NodeCommand
  <2> QED BY <1>6, <2>1
<1> QED BY <1>2, <1>3, <1>4, <1>5, <1>6


\* BINDER_WORK_NODE
LEMMA ReadNodeStep ==
    ASSUME BInv, NEW t \in Threads, ReadNode(t)
    PROVE  BInv'
<1> DEFINE l == Work(t)
           n == k.node
           strong == n.internal_strong_refs > 0 \/ n.local_strong_refs > 0
           weak == Refs(k) # {} \/ n.local_weak_refs > 0 \/ strong
           c == NodeCommand(n, strong, weak)
           td == [k.todo EXCEPT ![l] = Tail(@)]
           m == IF weak \/ strong THEN n ELSE NoNode
           r == k'
<1>0. /\ Sound(k) /\ RefsOK(k, held, used, up) /\ NodeOK(k, obuf, up) /\ DeathOK(k, death)
      /\ k \in Drivers /\ Once(k.todo) /\ l \in Lists /\ k.todo \in [Lists -> Seq(WorkTypes)]
      /\ n \in Nodes /\ FlagsOK(n) /\ RefsThere(n, k.ref)
  BY DEF BInv, Sound, WorkOK, Lists, Drivers, Work
<1>1. /\ held' = held /\ used' = used /\ death' = death /\ obuf' = obuf /\ up' = up /\ user' = user
      /\ k.todo[l] # <<>> /\ Head(k.todo[l]) = "node"
      /\ \/ c.br # "BR_NOOP" /\ r = [k EXCEPT !.node = c.node]
         \/ c.br = "BR_NOOP" /\ r = [k EXCEPT !.todo = td, !.node = m]
  BY DEF ReadNode, clientVars
<1>2. /\ td \in [Lists -> Seq(WorkTypes)] /\ Once(td) /\ OnList(k.todo) /\ ~ OnList(td)
  BY <1>0, <1>1, Popped, ZenonT(60)
<1>3. up = TRUE /\ n.there /\ n.proc
  <2>1. up
    BY <1>0, <1>2, QueuedLive
  <2>2. ~ NoNode.proc /\ n.proc
    BY <1>0, <1>2 DEF NoNode, Sound, WorkOK
  <2> QED BY <1>0, <2>1, <2>2 DEF BInv, OwnerOK, FlagsOK
<1>4. Counts(n, obuf)
  BY <1>0 DEF NodeOK, Counts
<1>5. /\ strong \in BOOLEAN /\ weak \in BOOLEAN /\ (strong => weak)
      /\ ~ strong => n.local_strong_refs = 0 /\ n.internal_strong_refs = 0
      /\ ~ weak => n.local_weak_refs = 0 /\ Refs(k) = {}
  BY <1>0 DEF Nodes
<1>6. n.local_strong_refs \in Nat /\ n.local_weak_refs \in Nat
  BY <1>0 DEF Nodes
<1> HIDE DEF l, strong, weak, td, r, n
<1>7. /\ c.node \in Nodes /\ c.node.there /\ c.node.proc /\ FlagsOK(c.node) /\ Counts(c.node, obuf)
      /\ c.node.internal_strong_refs = n.internal_strong_refs
      /\ c.br = "BR_NOOP" => c.node = n /\ (weak => n.has_weak_ref)
  BY <1>0, <1>3, <1>4, <1>5, CommandEffect
<1> HIDE DEF c
<1>8. CASE c.br # "BR_NOOP" /\ r = [k EXCEPT !.node = c.node]
  <2>1. r \in Drivers /\ r.node = c.node /\ r.ref = k.ref /\ r.todo = k.todo
    BY <1>0, <1>7, <1>8 DEF Drivers
  <2>2. Matches(r, held, used, obuf, death, TRUE)
    BY <1>0, <1>2, <1>3, <1>7, <2>1, NodeSet DEF n
  <2> QED BY <1>1, <1>3, <2>2 DEF BInv, Matches, OwnerOK, r
<1>9. CASE c.br = "BR_NOOP" /\ weak /\ r = [k EXCEPT !.todo = td, !.node = m]
  <2>1. m = n
    BY <1>9
  <2>2. r \in Drivers /\ r.node = n /\ r.ref = k.ref /\ r.todo = td
    BY <1>0, <1>2, <1>9, <2>1 DEF Drivers
  <2>3. n.has_weak_ref
    BY <1>7, <1>9
  <2>4. Matches(r, held, used, obuf, death, TRUE)
    BY <1>0, <1>2, <1>3, <1>4, <2>2, <2>3, NodeSet DEF n
  <2> QED BY <1>1, <1>3, <2>4 DEF BInv, Matches, OwnerOK, r
<1>10. CASE c.br = "BR_NOOP" /\ ~ weak /\ r = [k EXCEPT !.todo = td, !.node = m]
  <2>1. m = NoNode /\ NoNode \in Nodes
    BY <1>5, <1>10 DEF NoNode, Nodes
  <2>2. r \in Drivers /\ r.node = NoNode /\ r.ref = k.ref /\ r.todo = td
    BY <1>0, <1>2, <1>10, <2>1 DEF Drivers
  <2>3. \A x \in Clients : ~ k.ref[x].there
    BY <1>5, <1>10 DEF Refs
  <2>4. n.local_strong_refs = 0 /\ n.local_weak_refs = 0 /\ n.internal_strong_refs = 0
    BY <1>5, <1>10
  <2>5. Becomes(k, n, k.ref, r)
    BY <1>2, <2>2, <2>3, <2>4, <1>3 DEF Becomes
  <2>6. SameFlags(n, k.node) /\ n.internal_strong_refs = k.node.internal_strong_refs
    BY DEF SameFlags, n
  <2>7. Matches(r, held, used, obuf, death, TRUE)
    <3>1. k.node.there /\ k.node.proc
      BY <1>3 DEF n
    <3> QED BY <1>0, <1>3, <1>4, <2>5, <2>6, <3>1, LocalDec
  <2> QED BY <1>1, <1>3, <2>7 DEF BInv, Matches, OwnerOK, r
<1> QED BY <1>1, <1>8, <1>9, <1>10

-----------------------------------------------------------------------------
(* The owner dies, and another one has another object *)

\* What the death of the owner leaves of the node
LEMMA OwnerDiesStep ==
    ASSUME BInv, OwnerDies
    PROVE  BInv'
<1> DEFINE n == k.node
           m == [n EXCEPT !.proc = FALSE, !.local_strong_refs = 0, !.local_weak_refs = 0]
           none == [l \in Lists |-> <<>>]
           r == k'
           e == death'
<1>0. /\ Sound(k) /\ RefsOK(k, held, used, up) /\ NodeOK(k, obuf, up) /\ DeathOK(k, death)
      /\ k \in Drivers /\ n \in Nodes /\ FlagsOK(n) /\ RefsThere(n, k.ref) /\ RefsNeeded(n, k.ref)
      /\ k.ref \in [Clients -> RefTypes] /\ up = TRUE
  BY DEF BInv, Sound, WorkOK, Drivers, OwnerDies, OwnerOK
<1>1. /\ held' = held /\ used' = used /\ obuf' = None /\ up' = FALSE /\ user' = None
      /\ brs' = [t \in Threads |-> <<>>]
      /\ r = [node |-> IF Refs(k) = {} THEN NoNode ELSE m, ref |-> k.ref, todo |-> none]
      /\ e = [c \in Clients |-> IF death[c].ref = "set" THEN [death[c] EXCEPT !.ref = "todo"]
                                ELSE death[c]]
  BY DEF OwnerDies, OwnerReset
<1>2. OwnerOK'
  <2>1. user' \in [Kinds -> Int]
    BY <1>1 DEF None
  <2>2. up' = FALSE /\ \A t \in Threads : brs'[t] = <<>>
    BY <1>1
  <2> QED BY <2>1, <2>2 DEF OwnerOK
<1>3. None \in [Kinds -> Nat] /\ None.strong = 0 /\ None.weak = 0
  BY DEF None, Kinds
<1>4. none \in [Lists -> Seq(WorkTypes)] /\ Empty(none) /\ ~ OnList(none) /\ Once(none)
  BY DEF Empty, OnList, Once
<1>5. /\ m \in Nodes /\ ~ m.proc /\ m.local_strong_refs = 0 /\ m.local_weak_refs = 0
      /\ m.there = n.there /\ m.internal_strong_refs = n.internal_strong_refs
      /\ m.has_strong_ref = n.has_strong_ref /\ m.pending_strong_ref = n.pending_strong_ref
      /\ m.has_weak_ref = n.has_weak_ref /\ m.pending_weak_ref = n.pending_weak_ref
  BY <1>0 DEF Nodes
<1>6. /\ NoNode \in Nodes /\ ~ NoNode.proc /\ ~ NoNode.there /\ NoNode.local_strong_refs = 0
      /\ NoNode.local_weak_refs = 0 /\ NoNode.internal_strong_refs = 0 /\ ~ NoNode.has_weak_ref
      /\ FlagsOK(NoNode)
  BY DEF NoNode, Nodes, FlagsOK
<1> HIDE DEF r, m, none, n, e
<1>7. /\ r \in Drivers /\ r.ref = k.ref /\ r.todo = none
      /\ r.node = IF Refs(k) = {} THEN NoNode ELSE m
  BY <1>0, <1>1, <1>4, <1>5, <1>6 DEF Drivers
<1>8. ~ r.node.proc /\ r.node.local_strong_refs = 0 /\ r.node.local_weak_refs = 0
  BY <1>5, <1>6, <1>7
<1>9. Sound(r)
  <2>1. WorkOK(r)
    BY <1>4, <1>7, <1>8 DEF WorkOK
  <2>2. CASE Refs(k) = {}
    <3>1. \A c \in Clients : ~ k.ref[c].there
      BY <2>2 DEF Refs
    <3>2. Strong(k.ref) = {}
      BY <1>0, <3>1 DEF Strong, RefsThere, NoRef
    <3>3. RefsThere(NoNode, k.ref) /\ RefsNeeded(NoNode, k.ref)
      BY <1>0, <1>6, <3>1, <3>2, FS_EmptySet DEF RefsThere, RefsNeeded
    <3> QED BY <1>6, <1>7, <2>1, <2>2, <3>3 DEF Sound
  <2>3. CASE Refs(k) # {}
    <3>1. n.there /\ n.proc
      BY <1>0, <2>3 DEF Refs, RefsThere, NodeOK, n
    <3>2. FlagsOK(m)
      BY <1>0, <1>5, <3>1 DEF FlagsOK
    <3>3. RefsThere(m, k.ref) /\ RefsNeeded(m, k.ref)
      BY <1>0, <1>5, <3>1 DEF RefsThere, RefsNeeded
    <3> QED BY <1>7, <2>1, <2>3, <3>2, <3>3 DEF Sound
  <2> QED BY <2>2, <2>3
<1>10. RefsOK(r, held, used, FALSE)
  BY <1>0, <1>7 DEF RefsOK
<1>11. NodeOK(r, None, FALSE)
  <2>1. One(r.node.proc /\ r.node.pending_strong_ref) = 0 /\ One(r.node.proc /\ r.node.pending_weak_ref) = 0
    BY <1>8 DEF One
  <2>2. 0 = None.strong + 0 /\ 0 = None.weak + 0
    BY <1>3
  <2>3. r.node.there => (r.node.proc <=> FALSE)
    BY <1>8
  <2> QED BY <1>3, <1>4, <1>7, <1>8, <2>1, <2>2, <2>3 DEF NodeOK
<1>12. DeathOK(r, e)
  <2>1. death \in Notices
    BY <1>0 DEF DeathOK, Notices
  <2>2. \A c \in Clients :
          /\ e[c] \in [ref : DeathRefs, rest : DeathRests] /\ e[c].ref # "set"
          /\ e[c].ref \in {"todo", "delivered", "told"} =>
                death[c].ref \in {"set", "todo", "delivered", "told"}
    BY <1>1, <2>1 DEF Notices, DeathRefs
  <2>3. e \in Notices
    BY <1>1, <2>2 DEF Notices
  <2>4. \A c \in Clients : death[c].ref \in {"set", "todo", "delivered", "told"} => k.ref[c].there
    BY <1>0 DEF DeathOK
  <2> QED BY <1>7, <1>8, <2>2, <2>3, <2>4 DEF DeathOK, Notices
<1> QED BY <1>1, <1>2, <1>9, <1>10, <1>11, <1>12 DEF BInv, r, e


\* Another object: nothing of the one before is counted.
LEMMA NewObjectStep ==
    ASSUME BInv, NewObject
    PROVE  BInv'
<1>0. Sound(k) /\ RefsOK(k, held, used, up) /\ DeathOK(k, death) /\ k.node = NoNode
  BY DEF BInv, NewObject, Sound, FlagsOK
<1>1. /\ k' = k /\ held' = held /\ used' = used /\ death' = death /\ obuf' = None /\ up' = TRUE
      /\ user' = None /\ held = [c \in Clients |-> None]
  BY DEF NewObject, OwnerReset, clientVars
<1>2. None \in [Kinds -> Nat] /\ None.strong = 0 /\ None.weak = 0
  BY DEF None, Kinds
<1>3. OwnerOK'
  <2>1. user' \in [Kinds -> Int]
    BY <1>1 DEF None
  <2> QED BY <1>1, <2>1 DEF OwnerOK
<1>4. RefsOK(k, held, used, TRUE)
  <2>1. \A c \in Clients : held[c].weak = 0 /\ used[c].weak \in Nat
    BY <1>0, <1>1, <1>2, HoldingTypes DEF RefsOK
  <2>2. \A c \in Clients : k.ref[c].weak = held[c].weak + used[c].weak
    <3> SUFFICES ASSUME NEW c \in Clients
                 PROVE  k.ref[c].weak = held[c].weak + used[c].weak
      OBVIOUS
    <3>1. CASE k.ref[c].weak = 0 /\ used[c].weak = 0
      BY <2>1, <3>1
    <3> QED BY <1>0, <3>1 DEF RefsOK
  <2> QED BY <1>0, <2>2 DEF RefsOK
<1>5. NodeOK(k, None, TRUE)
  <2>1. NoNode.local_strong_refs = 0 /\ NoNode.local_weak_refs = 0 /\ ~ NoNode.proc /\ ~ NoNode.there
    BY DEF NoNode
  <2>2. One(NoNode.proc /\ NoNode.pending_strong_ref) = 0 /\ One(NoNode.proc /\ NoNode.pending_weak_ref) = 0
    BY <2>1 DEF One
  <2>3. 0 = None.strong + 0 /\ 0 = None.weak + 0
    BY <1>2
  <2> QED BY <1>0, <1>2, <2>1, <2>2, <2>3 DEF NodeOK
<1> QED BY <1>0, <1>1, <1>3, <1>4, <1>5 DEF BInv

\* Steps that leave the driver's counts alone
LEMMA SameCounts ==
    ASSUME BInv, k' = k, held' = held, used' = used, obuf' = obuf, up' = up, user' = user,
           brs' = brs, DeathOK(k, death')
    PROVE  BInv'
BY DEF BInv, OwnerOK

\* The notification of client c is x.
Noticed(d, c, x) == [d EXCEPT ![c] = x]

\* It fits the driver if that of the others did.
LEMMA NoticedOK ==
    ASSUME NEW s, NEW d, DeathOK(s, d), NEW c \in Clients,
           NEW x \in [ref : DeathRefs, rest : DeathRests],
           x.ref = "set" => s.ref[c].there /\ s.node.proc,
           x.ref \in {"todo", "delivered", "told"} => s.ref[c].there /\ ~ s.node.proc
    PROVE  DeathOK(s, Noticed(d, c, x))
<1> DEFINE e == Noticed(d, c, x)
<1>1. d \in Notices
  BY DEF DeathOK, Notices
<1>2. e \in Notices /\ e[c] = x /\ \A y \in Clients \ {c} : e[y] = d[y]
  BY <1>1 DEF Notices, Noticed
<1> HIDE DEF e
<1> QED BY <1>2 DEF DeathOK, Notices, e

\* The notification that client c has asked for
LEMMA DeathSteps ==
    ASSUME BInv, NEW c \in Clients,
           \/ BC_REQUEST_DEATH_NOTIFICATION(c) \/ BC_CLEAR_DEATH_NOTIFICATION(c)
           \/ ReadDeath(c) \/ BC_DEAD_BINDER_DONE(c)
    PROVE  BInv'
<1> DEFINE e == death'
           x == e[c]
<1>0. death \in Notices /\ DeathOK(k, death) /\ death[c] \in [ref : DeathRefs, rest : DeathRests]
  BY DEF BInv, DeathOK, Notices
<1>1. UNCHANGED <<k, obuf, held, used, ownerVars>>
  BY DEF BC_REQUEST_DEATH_NOTIFICATION, BC_CLEAR_DEATH_NOTIFICATION, ReadDeath, BC_DEAD_BINDER_DONE
<1>2. /\ death[c].ref = "set" => k.ref[c].there /\ k.node.proc
      /\ death[c].ref \in {"todo", "delivered", "told"} => k.ref[c].there /\ ~ k.node.proc
  BY <1>0 DEF DeathOK
<1>3. DeathOK(k, e)
  <2>1. CASE BC_REQUEST_DEATH_NOTIFICATION(c)
    <3> DEFINE z == [ref |-> IF k.node.proc THEN "set" ELSE "todo", rest |-> death[c].rest]
    <3>1. e = Noticed(death, c, z)
      <4> DEFINE y == IF k.node.proc THEN "set" ELSE "todo"
      <4>1. e = [death EXCEPT ![c].ref = y]
        BY <2>1 DEF BC_REQUEST_DEATH_NOTIFICATION
      <4>2. z = [ref |-> y, rest |-> death[c].rest]
        OBVIOUS
      <4>3. y \in DeathRefs
        BY DEF DeathRefs
      <4> HIDE DEF e, y
      <4>4. [death[c] EXCEPT !.ref = y] = [ref |-> y, rest |-> death[c].rest]
        BY <1>0, <4>3
      <4> HIDE DEF z
      <4> QED BY <1>0, <4>1, <4>2, <4>4 DEF Noticed, Notices
    <3>2. z \in [ref : DeathRefs, rest : DeathRests]
      BY <1>0 DEF DeathRefs
    <3>3. /\ z.ref = "set" => k.ref[c].there /\ k.node.proc
          /\ z.ref \in {"todo", "delivered", "told"} => k.ref[c].there /\ ~ k.node.proc
      BY <2>1 DEF BC_REQUEST_DEATH_NOTIFICATION
    <3> HIDE DEF z
    <3> QED BY <1>0, <3>1, <3>2, <3>3, NoticedOK
  <2>2. CASE BC_CLEAR_DEATH_NOTIFICATION(c)
    <3> DEFINE z == [ref |-> "none",
                     rest |-> CASE death[c].ref \in {"set", "told"} -> "clear"
                                [] death[c].ref = "todo" -> "dead_and_clear"
                                [] death[c].ref = "delivered" -> "delivered_and_clear"]
    <3>1. e = Noticed(death, c, z) /\ death[c].ref # "none"
      BY <1>0, <2>2 DEF BC_CLEAR_DEATH_NOTIFICATION, Noticed, Notices
    <3>2. z.ref = "none" /\ z \in [ref : DeathRefs, rest : DeathRests]
      BY <1>0, <3>1 DEF DeathRefs, DeathRests
    <3> HIDE DEF z
    <3> QED BY <1>0, <3>1, <3>2, NoticedOK
  <2>3. CASE ReadDeath(c) \/ BC_DEAD_BINDER_DONE(c)
    <3> DEFINE Z(a, b) == [ref |-> a, rest |-> b]
    <3>1. \/ death[c].ref = "todo" /\ e = [death EXCEPT ![c].ref = "delivered"]
          \/ death[c].ref = "delivered" /\ e = [death EXCEPT ![c].ref = "told"]
          \/ e = [death EXCEPT ![c].rest = "delivered_and_clear"]
          \/ e = [death EXCEPT ![c].rest = "none"]
          \/ e = [death EXCEPT ![c].rest = "clear"]
      BY <2>3 DEF ReadDeath, BC_DEAD_BINDER_DONE
    <3>2. \/ /\ death[c].ref \in {"todo", "delivered"}
             /\ \E a \in {"delivered", "told"} : e = Noticed(death, c, Z(a, death[c].rest))
          \/ \E b \in DeathRests : e = Noticed(death, c, Z(death[c].ref, b))
      BY <1>0, <3>1 DEF Noticed, Notices, DeathRests
    <3>3. CASE /\ death[c].ref \in {"todo", "delivered"}
               /\ \E a \in {"delivered", "told"} : e = Noticed(death, c, Z(a, death[c].rest))
      <4>1. PICK a \in {"delivered", "told"} : e = Noticed(death, c, Z(a, death[c].rest))
        BY <3>3
      <4> DEFINE z == Z(a, death[c].rest)
      <4>2. z \in [ref : DeathRefs, rest : DeathRests] /\ z.ref \in {"delivered", "told"}
        BY <1>0 DEF DeathRefs
      <4>3. e = Noticed(death, c, z) /\ k.ref[c].there /\ ~ k.node.proc
        BY <1>2, <3>3, <4>1
      <4> HIDE DEF z
      <4> QED BY <1>0, <4>2, <4>3, NoticedOK
    <3>4. CASE \E b \in DeathRests : e = Noticed(death, c, Z(death[c].ref, b))
      <4>1. PICK b \in DeathRests : e = Noticed(death, c, Z(death[c].ref, b))
        BY <3>4
      <4> DEFINE z == Z(death[c].ref, b)
      <4>2. z \in [ref : DeathRefs, rest : DeathRests] /\ z.ref = death[c].ref
        BY <1>0
      <4>3. e = Noticed(death, c, z)
        BY <4>1
      <4> HIDE DEF z
      <4> QED BY <1>0, <1>2, <4>2, <4>3, NoticedOK
    <3> QED BY <3>2, <3>3, <3>4
  <2> QED BY <2>1, <2>2, <2>3
<1> QED BY <1>1, <1>3, SameCounts DEF ownerVars

-----------------------------------------------------------------------------
(* The invariant *)

\* No node, no refs
LEMMA InitInv == Init => BInv
<1> SUFFICES ASSUME Init
             PROVE  BInv
  OBVIOUS
<1> DEFINE n == k.node
<1>0. /\ k = [node |-> NoNode, ref |-> [c \in Clients |-> NoRef], todo |-> [l \in Lists |-> <<>>]]
      /\ held = [c \in Clients |-> None] /\ used = [c \in Clients |-> None]
      /\ death = [c \in Clients |-> NoDeath] /\ obuf = None /\ up = TRUE /\ user = None
  BY DEF Init
<1>1. None \in [Kinds -> Nat] /\ None \in [Kinds -> Int] /\ None.strong = 0 /\ None.weak = 0
  BY DEF None, Kinds
<1>2. /\ NoNode \in Nodes /\ ~ NoNode.proc /\ ~ NoNode.there /\ NoNode.local_strong_refs = 0
      /\ NoNode.local_weak_refs = 0 /\ NoNode.internal_strong_refs = 0 /\ ~ NoNode.has_weak_ref
      /\ FlagsOK(NoNode)
  BY DEF NoNode, Nodes, FlagsOK
<1>3. /\ k.node = NoNode /\ k.ref = [c \in Clients |-> NoRef] /\ k.todo = [l \in Lists |-> <<>>]
      /\ NoRef \in RefTypes /\ NoRef.strong = 0 /\ NoRef.weak = 0 /\ ~ NoRef.there
  BY <1>0 DEF NoRef, RefTypes
<1>4. k \in Drivers
  BY <1>0, <1>2, <1>3 DEF Drivers
<1>5. Empty(k.todo) /\ ~ OnList(k.todo) /\ Once(k.todo)
  BY <1>3 DEF Empty, OnList, Once
<1>6. Sound(k)
  <2>1. Strong(k.ref) = {}
    BY <1>3 DEF Strong
  <2>2. RefsThere(k.node, k.ref) /\ RefsNeeded(k.node, k.ref)
    BY <1>2, <1>3, <2>1, FS_EmptySet DEF RefsThere, RefsNeeded
  <2>3. WorkOK(k)
    BY <1>2, <1>3, <1>5 DEF WorkOK
  <2> QED BY <1>2, <1>3, <1>4, <2>2, <2>3 DEF Sound
<1>7. RefsOK(k, held, used, up)
  <2>1. held \in Holdings /\ used \in Holdings
    BY <1>0, <1>1 DEF Holdings
  <2>2. \A c \in Clients : /\ k.ref[c].strong = 0 /\ k.ref[c].weak = 0
                           /\ held[c].strong = 0 /\ held[c].weak = 0
                           /\ used[c].strong = 0 /\ used[c].weak = 0
    BY <1>0, <1>1, <1>3
  <2> QED BY <2>1, <2>2 DEF RefsOK
<1>8. NodeOK(k, obuf, up)
  <2>1. One(NoNode.proc /\ NoNode.pending_strong_ref) = 0 /\ One(NoNode.proc /\ NoNode.pending_weak_ref) = 0
    BY <1>2 DEF One
  <2>2. 0 = None.strong + 0 /\ 0 = None.weak + 0
    BY <1>1
  <2> QED BY <1>0, <1>1, <1>2, <1>3, <2>1, <2>2 DEF NodeOK
<1>9. DeathOK(k, death)
  BY <1>0 DEF DeathOK, NoDeath, DeathRefs, DeathRests
<1>10. OwnerOK
  BY <1>0, <1>1 DEF OwnerOK
<1> QED BY <1>6, <1>7, <1>8, <1>9, <1>10 DEF BInv

\* Every step keeps the counts right.
LEMMA StepInv == BInv /\ [Next]_vars => BInv'
<1> SUFFICES ASSUME BInv, [Next]_vars
             PROVE  BInv'
  OBVIOUS
<1>1. ASSUME NEW c \in Clients, Client(c)
      PROVE  BInv'
  <2>1. CASE BC_ACQUIRE(c) \/ BC_INCREFS(c)
    BY <2>1, AcquireStep
  <2>2. CASE \E kind \in Kinds : BC_RELEASE(c, kind) \/ FreeBuffer(c, kind)
    BY <2>2, ReleaseStep
  <2>3. CASE \E kind \in Kinds : Transact(c, kind)
    BY <2>3, TransactStep
  <2>4. CASE \E d \in Clients, kind \in Kinds : SendHandle(c, d, kind)
    BY <2>4, SendHandleStep
  <2>5. CASE \/ BC_REQUEST_DEATH_NOTIFICATION(c) \/ BC_CLEAR_DEATH_NOTIFICATION(c)
             \/ ReadDeath(c) \/ BC_DEAD_BINDER_DONE(c)
    BY <2>5, DeathSteps
  <2>6. CASE ClientDies(c)
    BY <2>6, ClientDiesStep
  <2> QED BY <1>1, <2>1, <2>2, <2>3, <2>4, <2>5, <2>6 DEF Client
<1>2. ASSUME NEW t \in Threads, Owner(t)
      PROVE  BInv'
  BY <1>2, ReadCompleteStep, ReadNodeStep, HandleStep DEF Owner
<1>3. ASSUME NEW t \in Threads, NEW c \in Clients, NEW kind \in Kinds,
             SendBinder(t, c, kind) \/ SendFails(t, c, kind)
      PROVE  BInv'
  BY <1>3, SendBinderStep, SendFailsStep
<1>4. CASE \E kind \in Kinds : OwnerFrees(kind)
  BY <1>4, OwnerFreesStep
<1>5. CASE OwnerDrops
  BY <1>5, SameCounts DEF OwnerDrops, clientVars, BInv
<1>6. CASE UNCHANGED vars
  BY <1>6, SameCounts DEF vars, BInv
<1> QED BY <1>1, <1>2, <1>3, <1>4, <1>5, <1>6, OwnerDiesStep, NewObjectStep DEF Next


\* The invariant says that the counts match.
LEMMA InvCounts == BInv => CountsMatch
<1> SUFFICES ASSUME BInv
             PROVE  CountsMatch
  OBVIOUS
<1>0. /\ Sound(k) /\ RefsOK(k, held, used, up) /\ NodeOK(k, obuf, up) /\ k \in Drivers
      /\ RefsThere(k.node, k.ref) /\ RefsNeeded(k.node, k.ref) /\ FlagsOK(k.node)
      /\ held \in Holdings /\ used \in Holdings
  BY DEF BInv, Sound, RefsOK
<1>1. k.node.proc => up
  <2>1. ~ NoNode.proc
    BY DEF NoNode
  <2> QED BY <1>0, <2>1 DEF FlagsOK, NodeOK
<1>2. ASSUME NEW c \in Clients
      PROVE  LET weak == held[c].weak + used[c].weak
             IN  /\ k.ref[c].strong = held[c].strong + used[c].strong
                 /\ k.ref[c].there => k.node.there
                 /\ k.node.proc \/ k.node.has_weak_ref =>
                       /\ k.ref[c].weak = weak
                       /\ k.ref[c].there => k.ref[c].strong + weak > 0
                 /\ k.ref[c].weak <= weak
  <2> DEFINE weak == held[c].weak + used[c].weak
             known == k.node.proc \/ k.node.has_weak_ref
  <2>1. weak \in Nat
    BY <1>0, HoldingTypes
  <2>2. k.ref[c].weak = weak \/ (k.ref[c].weak = 0 /\ ~ up /\ ~ k.node.has_weak_ref)
    BY <1>0 DEF RefsOK
  <2>3. known => k.ref[c].weak = weak
    BY <1>1, <2>2
  <2>4. known /\ k.ref[c].there => k.ref[c].strong + k.ref[c].weak > 0
    BY <1>0 DEF RefsNeeded
  <2>5. k.ref[c].strong = held[c].strong + used[c].strong /\ (k.ref[c].there => k.node.there)
    BY <1>0 DEF RefsOK, RefsThere
  <2> HIDE DEF weak, known
  <2>6. k.ref[c].weak <= weak
    BY <2>1, <2>2
  <2>7. known /\ k.ref[c].there => k.ref[c].strong + weak > 0
    BY <2>3, <2>4
  <2> QED BY <2>3, <2>5, <2>6, <2>7 DEF weak, known
<1>3. k.node.internal_strong_refs = Cardinality({c \in Clients : k.ref[c].strong > 0})
  BY <1>0 DEF RefsThere, Strong
<1>4. /\ k.node.local_strong_refs = obuf.strong + One(k.node.proc /\ k.node.pending_strong_ref)
      /\ k.node.local_weak_refs = obuf.weak + One(k.node.proc /\ k.node.pending_weak_ref)
  BY <1>0 DEF NodeOK
<1> QED BY <1>2, <1>3, <1>4 DEF CountsMatch

\* ... and that the node's work is on one list at most.
LEMMA InvTypes == BInv => TypeOK
<1> SUFFICES ASSUME BInv
             PROVE  TypeOK
  OBVIOUS
<1>0. k \in Drivers /\ Once(k.todo) /\ death \in Notices /\ user \in [Kinds -> Int]
  BY DEF BInv, Sound, WorkOK, DeathOK, Notices, OwnerOK
<1>1. k.node \in Nodes /\ k.ref \in [Clients -> RefTypes] /\ k.todo \in [Lists -> Seq(WorkTypes)]
  BY <1>0 DEF Drivers
<1>2. \A f \in {"internal_strong_refs", "local_strong_refs", "local_weak_refs"} : k.node[f] \in Nat
  BY <1>1 DEF Nodes
<1> DEFINE S == {l \in Lists : \E i \in DOMAIN k.todo[l] : k.todo[l][i] = "node"}
<1>3. Cardinality(S) <= 1
  <2>1. CASE S = {}
    BY <2>1, FS_EmptySet
  <2>2. CASE S # {}
    <3>1. PICK l : l \in S
      BY <2>2
    <3>2. S = {l}
      BY <1>0, <3>1 DEF Once
    <3> QED BY <3>2, FS_Singleton
  <2> QED BY <2>1, <2>2
<1>4. \A c \in Clients : death[c].ref \in DeathRefs /\ death[c].rest \in DeathRests
  BY <1>0 DEF Notices
<1> HIDE DEF S
<1> QED BY <1>0, <1>1, <1>2, <1>3, <1>4 DEF TypeOK, S, RefTypes, WorkTypes, DeathRefs, DeathRests

\* Counts stay natural numbers (none is decremented below zero) and the node's
\* work is never on two lists of the owner.
THEOREM BinderTypeOK == Spec => []TypeOK
<1>1. BInv => TypeOK
  BY InvTypes
<1> QED BY InitInv, StepInv, <1>1, PTL DEF Spec

\* Whatever is sent, refused, released, read or acknowledged, and whoever dies,
\* in whichever order, the counts of refs and node are those of what there is.
THEOREM BinderCounts == Spec => []CountsMatch
<1>1. BInv => CountsMatch
  BY InvCounts
<1> QED BY InitInv, StepInv, <1>1, PTL DEF Spec

\* A death notification is on the ref of a live node, or has been queued
\* because the owner is dead; it is neither lost nor early.
THEOREM BinderDeath == Spec => []DeathTold
<1>1. BInv => DeathTold
  BY DEF BInv, DeathOK, DeathTold
<1> QED BY InitInv, StepInv, <1>1, PTL DEF Spec

-----------------------------------------------------------------------------
(* The object outlives the handles *)

\* Element x is in list q; once at most; and before an element y.
Has(q, x) == \E i \in DOMAIN q : q[i] = x
Single(q, x) == \A i, j \in DOMAIN q : q[i] = x /\ q[j] = x => i = j
Before(q, x, y) == \E i, j \in DOMAIN q : i < j /\ q[i] = x /\ q[j] = y

\* The threads' lists are the same; or they are as far as transactions of
\* theirs are concerned that are done.
QuietLists(todo, td) == \A t \in Threads : td[t] = todo[t]
DoneSame(todo, td) ==
    \A t \in Threads : /\ Has(td[t], "complete") <=> Has(todo[t], "complete")
                       /\ Single(todo[t], "complete") => Single(td[t], "complete")

\* A list with one more element
LEMMA HasAppend ==
    ASSUME NEW S, NEW q \in Seq(S), NEW x \in S, NEW r, r = Append(q, x), NEW y \in S
    PROVE  /\ r \in Seq(S)
           /\ Has(r, x) /\ (Has(q, y) => Has(r, y)) /\ (Has(r, y) /\ x # y => Has(q, y))
           /\ Single(q, y) /\ x # y => Single(r, y)
           /\ ~ Has(q, y) => Single(r, y)
<1> DEFINE n == Len(q)
<1>1. /\ r \in Seq(S) /\ n \in Nat /\ DOMAIN q = 1..n /\ DOMAIN r = 1..(n + 1)
      /\ r[n + 1] = x /\ \A i \in 1..n : r[i] = q[i]
  OBVIOUS
<1> HIDE DEF n
<1>2. Has(r, x) /\ (Has(q, y) => Has(r, y)) /\ (Has(r, y) /\ x # y => Has(q, y))
  BY <1>1 DEF Has
<1>3. ASSUME Single(q, y), ~ Has(q, y) \/ x # y
      PROVE  Single(r, y)
  <2> SUFFICES ASSUME NEW i \in 1..(n + 1), NEW j \in 1..(n + 1), r[i] = y, r[j] = y
               PROVE  i = j
    BY <1>1 DEF Single
  <2>1. CASE i \in 1..n /\ j \in 1..n
    BY <1>1, <1>3, <2>1 DEF Single
  <2>2. CASE i = n + 1 /\ j = n + 1
    BY <2>2
  <2>3. CASE i \in 1..n /\ j = n + 1
    BY <1>1, <1>3, <2>3 DEF Has
  <2>4. CASE i = n + 1 /\ j \in 1..n
    BY <1>1, <1>3, <2>4 DEF Has
  <2> QED BY <1>1, <2>1, <2>2, <2>3, <2>4
<1>4. ~ Has(q, y) => Single(q, y)
  BY DEF Has, Single
<1> QED BY <1>1, <1>2, <1>3, <1>4

\* ..., and what is before what in it
LEMMA BeforeAppend ==
    ASSUME NEW S, NEW q \in Seq(S), NEW x \in S, NEW r, r = Append(q, x), NEW y \in S, NEW z \in S
    PROVE  /\ Before(q, y, z) => Before(r, y, z)
           /\ Has(q, y) /\ x = z => Before(r, y, z)
<1> DEFINE n == Len(q)
<1>1. /\ n \in Nat /\ DOMAIN q = 1..n /\ DOMAIN r = 1..(n + 1)
      /\ r[n + 1] = x /\ \A i \in 1..n : r[i] = q[i]
  OBVIOUS
<1> HIDE DEF n
<1>2. Before(q, y, z) => Before(r, y, z)
  BY <1>1 DEF Before
<1>3. ASSUME Has(q, y), x = z
      PROVE  Before(r, y, z)
  <2>1. PICK i \in 1..n : q[i] = y
    BY <1>1, <1>3 DEF Has
  <2>2. i \in DOMAIN r /\ n + 1 \in DOMAIN r /\ i < n + 1 /\ r[i] = y /\ r[n + 1] = z
    BY <1>1, <1>3, <2>1
  <2> QED BY <2>2 DEF Before
<1> QED BY <1>2, <1>3

\* A list without its first element
LEMMA HasTail ==
    ASSUME NEW S, NEW q \in Seq(S), q # <<>>, NEW r, r = Tail(q), NEW y \in S
    PROVE  /\ r \in Seq(S) /\ Has(q, Head(q))
           /\ Has(r, y) => Has(q, y)
           /\ Has(q, y) /\ Head(q) # y => Has(r, y)
           /\ Single(q, y) => Single(r, y)
           /\ Single(q, y) /\ Head(q) = y => ~ Has(r, y)
<1> DEFINE n == Len(q)
<1>1. /\ r \in Seq(S) /\ n \in Nat \ {0} /\ DOMAIN q = 1..n /\ DOMAIN r = 1..(n - 1)
      /\ Head(q) = q[1] /\ \A i \in 1..(n - 1) : r[i] = q[i + 1]
  OBVIOUS
<1> HIDE DEF n
<1>2. \A i \in DOMAIN r : i + 1 \in DOMAIN q /\ r[i] = q[i + 1] /\ i \in Nat /\ i + 1 # 1
  BY <1>1
<1>3. \A i \in DOMAIN q : i # 1 => i - 1 \in DOMAIN r /\ r[i - 1] = q[i] /\ i \in Nat
  <2> SUFFICES ASSUME NEW i \in 1..n, i # 1
               PROVE  i - 1 \in 1..(n - 1) /\ r[i - 1] = q[i] /\ i \in Nat
    BY <1>1
  <2>1. i - 1 \in 1..(n - 1) /\ (i - 1) + 1 = i
    BY <1>1
  <2> QED BY <1>1, <2>1
<1>4. 1 \in DOMAIN q /\ q[1] = Head(q)
  BY <1>1
<1>5. Has(q, Head(q)) /\ (Has(r, y) => Has(q, y)) /\ (Has(q, y) /\ Head(q) # y => Has(r, y))
  <2>1. Has(q, Head(q))
    BY <1>4 DEF Has
  <2>2. Has(r, y) => Has(q, y)
    BY <1>2 DEF Has
  <2>3. ASSUME Has(q, y), Head(q) # y
        PROVE  Has(r, y)
    <3>1. PICK i \in DOMAIN q : q[i] = y
      BY <2>3 DEF Has
    <3>2. i - 1 \in DOMAIN r /\ r[i - 1] = y
      BY <1>3, <1>4, <2>3, <3>1
    <3> QED BY <3>2 DEF Has
  <2> QED BY <2>1, <2>2, <2>3
<1>6. ASSUME Single(q, y)
      PROVE  Single(r, y) /\ (Head(q) = y => ~ Has(r, y))
  <2>1. Single(r, y)
    <3> SUFFICES ASSUME NEW i \in DOMAIN r, NEW j \in DOMAIN r, r[i] = y, r[j] = y
                 PROVE  i = j
      BY DEF Single
    <3>1. i + 1 \in DOMAIN q /\ j + 1 \in DOMAIN q /\ q[i + 1] = y /\ q[j + 1] = y /\ i \in Nat /\ j \in Nat
      BY <1>2
    <3>2. i + 1 = j + 1
      BY <1>6, <3>1 DEF Single
    <3> QED BY <3>1, <3>2
  <2>2. ASSUME Head(q) = y, Has(r, y)
        PROVE  FALSE
    <3>1. PICK i \in DOMAIN r : r[i] = y
      BY <2>2 DEF Has
    <3>2. i + 1 \in DOMAIN q /\ q[i + 1] = y /\ i + 1 # 1
      BY <1>2, <3>1
    <3> QED BY <1>4, <1>6, <2>2, <3>2 DEF Single
  <2> QED BY <2>1, <2>2
<1> QED BY <1>1, <1>5, <1>6

\* ..., and what is before what in it
LEMMA BeforeTail ==
    ASSUME NEW S, NEW q \in Seq(S), q # <<>>, NEW r, r = Tail(q), NEW y \in S, NEW z \in S
    PROVE  /\ Before(q, y, z) /\ Head(q) # y => Before(r, y, z)
           /\ Before(q, y, z) /\ Single(q, z) => Head(q) # z
<1> DEFINE n == Len(q)
<1>1. /\ r \in Seq(S) /\ n \in Nat \ {0} /\ DOMAIN q = 1..n /\ DOMAIN r = 1..(n - 1)
      /\ Head(q) = q[1] /\ \A i \in 1..(n - 1) : r[i] = q[i + 1]
  OBVIOUS
<1> HIDE DEF n
<1>2. \A i \in DOMAIN r : i + 1 \in DOMAIN q /\ r[i] = q[i + 1] /\ i \in Nat /\ i + 1 # 1
  BY <1>1
<1>3. \A i \in DOMAIN q : i # 1 => i - 1 \in DOMAIN r /\ r[i - 1] = q[i] /\ i \in Nat
  <2> SUFFICES ASSUME NEW i \in 1..n, i # 1
               PROVE  i - 1 \in 1..(n - 1) /\ r[i - 1] = q[i] /\ i \in Nat
    BY <1>1
  <2>1. i - 1 \in 1..(n - 1) /\ (i - 1) + 1 = i
    BY <1>1
  <2> QED BY <1>1, <2>1
<1>4. 1 \in DOMAIN q /\ q[1] = Head(q)
  BY <1>1
<1>5. ASSUME Before(q, y, z)
      PROVE  /\ Head(q) # y => Before(r, y, z)
             /\ Single(q, z) => Head(q) # z
  <2>1. PICK i \in DOMAIN q, j \in DOMAIN q : i < j /\ q[i] = y /\ q[j] = z
    BY <1>5 DEF Before
  <2>2. i \in 1..n /\ j \in 1..n /\ j # 1
    BY <1>1, <2>1
  <2>3. ASSUME Head(q) # y
        PROVE  Before(r, y, z)
    <3>1. i # 1
      BY <1>4, <2>1, <2>3
    <3>2. /\ i - 1 \in DOMAIN r /\ j - 1 \in DOMAIN r /\ r[i - 1] = y /\ r[j - 1] = z
      BY <1>3, <2>1, <2>2, <3>1
    <3>3. i - 1 < j - 1
      BY <2>1, <2>2
    <3> QED BY <3>2, <3>3 DEF Before
  <2>4. ASSUME Single(q, z)
        PROVE  Head(q) # z
    BY <1>4, <2>1, <2>2, <2>4 DEF Single
  <2> QED BY <2>3, <2>4
<1> QED BY <1>5

\* A list from which another element was taken
LEMMA HasRemove ==
    ASSUME NEW S, NEW q \in Seq(S), NEW x, NEW r, r = RemoveFirst(q, x), NEW y, y # x
    PROVE  /\ Has(r, y) <=> Has(q, y)
           /\ Single(q, y) => Single(r, y)
<1>0. DOMAIN q = 1..Len(q) /\ Len(q) \in Nat
  OBVIOUS
<1>1. CASE x \notin {q[i] : i \in 1..Len(q)}
  <2>1. r = q
    BY <1>1 DEF RemoveFirst
  <2> QED BY <2>1
<1>2. CASE x \in {q[i] : i \in 1..Len(q)}
  <2>1. PICK m \in 1..Len(q) : q[m] = x /\ r = RemoveAt(q, m)
    BY <1>2, RemoveFirstPlace
  <2>2. /\ r \in Seq(S) /\ Len(r) = Len(q) - 1
        /\ \A i \in 1..Len(r) : r[i] = IF i < m THEN q[i] ELSE q[i + 1]
    BY <2>1, RemoveElements
  <2> DEFINE n == Len(q)
             Up(i) == IF i < m THEN i ELSE i + 1
             Down(i) == IF i < m THEN i ELSE i - 1
  <2>3. DOMAIN r = 1..(n - 1) /\ DOMAIN q = 1..n /\ n \in Nat /\ m \in 1..n
    BY <1>0, <2>1, <2>2
  <2> HIDE DEF n
  <2>4. \A i \in DOMAIN r : i \in Nat /\ Up(i) \in DOMAIN q /\ q[Up(i)] = r[i]
    BY <2>2, <2>3
  <2>5. \A i \in DOMAIN q : i # m => Down(i) \in DOMAIN r /\ r[Down(i)] = q[i]
    <3> SUFFICES ASSUME NEW i \in 1..n, i # m
                 PROVE  Down(i) \in 1..(n - 1) /\ r[Down(i)] = q[i]
      BY <2>3
    <3>1. Down(i) \in 1..(n - 1) /\ (IF Down(i) < m THEN Down(i) ELSE Down(i) + 1) = i
      BY <2>3
    <3>2. r[Down(i)] = IF Down(i) < m THEN q[Down(i)] ELSE q[Down(i) + 1]
      BY <2>2, <2>3, <3>1
    <3> QED BY <3>1, <3>2
  <2>6. \A i, j \in Nat : Up(i) = Up(j) => i = j
    BY <2>3
  <2> HIDE DEF Up, Down
  <2>7. Has(r, y) <=> Has(q, y)
    BY <2>1, <2>4, <2>5 DEF Has
  <2>8. ASSUME Single(q, y)
        PROVE  Single(r, y)
    <3> SUFFICES ASSUME NEW i \in DOMAIN r, NEW j \in DOMAIN r, r[i] = y, r[j] = y
                 PROVE  i = j
      BY DEF Single
    <3>1. Up(i) = Up(j)
      BY <2>4, <2>8 DEF Single
    <3> QED BY <2>4, <2>6, <3>1
  <2> QED BY <2>7, <2>8
<1> QED BY <1>1, <1>2


-----------------------------------------------------------------------------
(* What a release leaves alone, whatever it finds: counts may be any         *)
(* integers here.                                                            *)

LooseNodes ==
    [there : BOOLEAN, proc : BOOLEAN, internal_strong_refs : Int,
     local_strong_refs : Int, local_weak_refs : Int,
     has_strong_ref : BOOLEAN, pending_strong_ref : BOOLEAN,
     has_weak_ref : BOOLEAN, pending_weak_ref : BOOLEAN]

LooseRefs == [there : BOOLEAN, strong : Int, weak : Int]

Loose ==
    [node : LooseNodes, ref : [Clients -> LooseRefs], todo : [Lists -> Seq(WorkTypes)]]

\* The owner is to keep the object for the driver.
Wanted(n) == n.internal_strong_refs > 0 \/ n.local_strong_refs > 0

\* From s to r nothing changed for the owner's threads, or a node went that it
\* had no reference for.
Eases(s, r) ==
    \/ /\ SameFlags(r.node, s.node) /\ (Wanted(r.node) => Wanted(s.node))
       /\ QuietLists(s.todo, r.todo)
    \/ /\ SameFlags(r.node, NoNode) /\ ~ Wanted(r.node) /\ DoneSame(s.todo, r.todo)
       /\ ~ (s.node.proc /\ (s.node.has_strong_ref \/ s.node.has_weak_ref))

\* Every driver is one of these.
LEMMA DriversLoose ==
    ASSUME NEW s \in Drivers
    PROVE  s \in Loose
<1>1. /\ s = [node |-> s.node, ref |-> s.ref, todo |-> s.todo]
      /\ s.node \in Nodes /\ s.ref \in [Clients -> RefTypes] /\ s.todo \in [Lists -> Seq(WorkTypes)]
  BY DEF Drivers
<1>2. s.node \in LooseNodes
  BY <1>1 DEF Nodes, LooseNodes
<1>3. \A c \in Clients : s.ref[c] \in LooseRefs
  BY <1>1 DEF RefTypes, LooseRefs
<1>4. s.ref \in [Clients -> LooseRefs]
  BY <1>1, <1>3
<1> QED BY <1>1, <1>2, <1>4 DEF Loose

\* Releases follow one another.
LEMMA EasesTwice ==
    ASSUME NEW s, NEW m, NEW r, Eases(s, m), Eases(m, r)
    PROVE  Eases(s, r)
<1>1. QuietLists(s.todo, m.todo) => DoneSame(s.todo, m.todo)
  BY DEF QuietLists, DoneSame
<1>2. QuietLists(m.todo, r.todo) => DoneSame(m.todo, r.todo)
  BY DEF QuietLists, DoneSame
<1>3. DoneSame(s.todo, m.todo) /\ DoneSame(m.todo, r.todo) => DoneSame(s.todo, r.todo)
  BY DEF DoneSame
<1>4. QuietLists(s.todo, m.todo) /\ QuietLists(m.todo, r.todo) => QuietLists(s.todo, r.todo)
  BY DEF QuietLists
<1>5. /\ SameFlags(m.node, s.node) /\ SameFlags(r.node, m.node) => SameFlags(r.node, s.node)
      /\ SameFlags(m.node, NoNode) /\ SameFlags(r.node, m.node) => SameFlags(r.node, NoNode)
      /\ SameFlags(m.node, s.node) => /\ m.node.proc = s.node.proc
                                      /\ m.node.has_strong_ref = s.node.has_strong_ref
                                      /\ m.node.has_weak_ref = s.node.has_weak_ref
  BY DEF SameFlags
<1> QED BY <1>1, <1>2, <1>3, <1>4, <1>5 DEF Eases

\* No release, as far as the owner is concerned
LEMMA EasesSame ==
    ASSUME NEW s, NEW r, r.todo = s.todo, SameFlags(r.node, s.node), Wanted(r.node) => Wanted(s.node)
    PROVE  Eases(s, r)
BY DEF Eases, QuietLists

\* list_del_init leaves alone what else is on the lists.
LEMMA UnqueuedDone ==
    ASSUME NEW todo \in [Lists -> Seq(WorkTypes)], NEW td, td = Unqueued(todo)
    PROVE  td \in [Lists -> Seq(WorkTypes)] /\ DoneSame(todo, td)
<1>1. ASSUME NEW l \in Lists
      PROVE  /\ td[l] \in Seq(WorkTypes)
             /\ Has(td[l], "complete") <=> Has(todo[l], "complete")
             /\ Single(todo[l], "complete") => Single(td[l], "complete")
  <2> DEFINE q == todo[l]
             r == RemoveFirst(q, "node")
  <2>1. q \in Seq(WorkTypes) /\ td[l] = r
    BY DEF Unqueued
  <2> HIDE DEF q
  <2>2. r \in Seq(WorkTypes)
    <3>1. CASE "node" \notin {q[i] : i \in 1..Len(q)}
      <4>1. r = q
        BY <3>1 DEF RemoveFirst
      <4> QED BY <2>1, <4>1
    <3>2. CASE "node" \in {q[i] : i \in 1..Len(q)}
      <4>1. PICK m \in 1..Len(q) : q[m] = "node" /\ r = RemoveAt(q, m)
        BY <2>1, <3>2, RemoveFirstPlace
      <4> QED BY <2>1, <4>1, RemoveElements
    <3> QED BY <3>1, <3>2
  <2>3. "complete" # "node"
    OBVIOUS
  <2> DEFINE y == "complete"
             x == "node"
  <2>4. r = RemoveFirst(q, x) /\ y # x
    BY <2>3
  <2> HIDE DEF r, x, y
  <2>5. (Has(r, y) <=> Has(q, y)) /\ (Single(q, y) => Single(r, y))
    BY ONLY <2>1, <2>4, HasRemove
  <2> QED BY <2>1, <2>2, <2>5 DEF q, y
<1>2. td = [l \in Lists |-> td[l]]
  BY DEF Unqueued
<1>3. td \in [Lists -> Seq(WorkTypes)]
  BY <1>1, <1>2
<1>4. \A t \in Threads : t \in Lists
  BY DEF Lists
<1> QED BY <1>1, <1>3, <1>4 DEF DoneSame

\* The owner is told on the list of its process.
LEMMA ProcQuiet ==
    ASSUME NEW todo \in [Lists -> Seq(WorkTypes)], NEW td, td = Enqueue(todo, "proc")
    PROVE  td \in [Lists -> Seq(WorkTypes)] /\ QuietLists(todo, td)
<1>1. "proc" \in Lists /\ "proc" \notin Threads /\ "node" \in WorkTypes /\ Threads \subseteq Lists
  BY BinderAssumption DEF Lists, WorkTypes
<1>2. Append(todo["proc"], "node") \in Seq(WorkTypes)
  BY <1>1
<1>3. td = [todo EXCEPT !["proc"] = Append(todo["proc"], "node")]
  BY DEF Enqueue
<1> QED BY <1>1, <1>2, <1>3 DEF QuietLists

\* The last reference of its kind
LEMMA LastGoneEases ==
    ASSUME NEW s \in Loose, NEW r, r = LastGone(s)
    PROVE  r \in Loose /\ r.ref = s.ref /\ Eases(s, r)
<1> DEFINE n == s.node
           told == n.proc /\ (n.has_strong_ref \/ n.has_weak_ref)
           e == Enqueue(s.todo, "proc")
           u == Unqueued(s.todo)
<1>0. s.node \in LooseNodes /\ s.todo \in [Lists -> Seq(WorkTypes)] /\ NoNode \in LooseNodes
  BY DEF Loose, LooseNodes, NoNode
<1>1. \/ r = s
      \/ r = [s EXCEPT !.todo = e]
      \/ ~ told /\ r = [s EXCEPT !.node = NoNode, !.todo = u]
  BY DEF LastGone
<1>2. e \in [Lists -> Seq(WorkTypes)] /\ QuietLists(s.todo, e)
  BY <1>0, ProcQuiet
<1>3. u \in [Lists -> Seq(WorkTypes)] /\ DoneSame(s.todo, u)
  BY <1>0, UnqueuedDone
<1>4. SameFlags(s.node, s.node) /\ SameFlags(NoNode, NoNode) /\ ~ Wanted(NoNode)
  BY DEF SameFlags, Wanted, NoNode
<1> HIDE DEF e, u
<1>5. CASE r = s
  BY <1>4, <1>5 DEF Eases, QuietLists
<1>6. CASE r = [s EXCEPT !.todo = e]
  <2>1. r \in Loose /\ r.node = s.node /\ r.todo = e /\ r.ref = s.ref
    BY <1>2, <1>6 DEF Loose
  <2> QED BY <1>2, <1>4, <2>1 DEF Eases
<1>7. CASE ~ told /\ r = [s EXCEPT !.node = NoNode, !.todo = u]
  <2>1. r \in Loose /\ r.node = NoNode /\ r.todo = u /\ r.ref = s.ref
    BY <1>0, <1>3, <1>7 DEF Loose
  <2> QED BY <1>3, <1>4, <1>7, <2>1 DEF Eases
<1> QED BY <1>1, <1>5, <1>6, <1>7

\* One reference less
LEMMA UncountedLoose ==
    ASSUME NEW n \in LooseNodes, NEW strong \in BOOLEAN, NEW internal \in BOOLEAN,
           NEW m, m = Uncounted(n, strong, internal)
    PROVE  m \in LooseNodes /\ SameFlags(m, n) /\ (Wanted(m) => Wanted(n))
<1>0. n.internal_strong_refs \in Int /\ n.local_strong_refs \in Int /\ n.local_weak_refs \in Int
  BY DEF LooseNodes
<1> DEFINE x == n.internal_strong_refs - 1
           y == n.local_strong_refs - 1
           z == n.local_weak_refs - 1
<1>1. /\ x \in Int /\ y \in Int /\ z \in Int
      /\ x > 0 => n.internal_strong_refs > 0 /\ (y > 0 => n.local_strong_refs > 0)
      /\ y > 0 => n.local_strong_refs > 0
  BY <1>0
<1>2. \/ m = [n EXCEPT !.internal_strong_refs = x]
      \/ m = [n EXCEPT !.local_strong_refs = y]
      \/ m = [n EXCEPT !.local_weak_refs = z]
      \/ m = n
  BY DEF Uncounted
<1> HIDE DEF x, y, z
<1>3. CASE m = [n EXCEPT !.internal_strong_refs = x]
  BY <1>0, <1>1, <1>3 DEF LooseNodes, SameFlags, Wanted
<1>4. CASE m = [n EXCEPT !.local_strong_refs = y]
  BY <1>0, <1>1, <1>4 DEF LooseNodes, SameFlags, Wanted
<1>5. CASE m = [n EXCEPT !.local_weak_refs = z]
  BY <1>0, <1>1, <1>5 DEF LooseNodes, SameFlags, Wanted
<1>6. CASE m = n
  BY <1>6 DEF SameFlags
<1> QED BY <1>2, <1>3, <1>4, <1>5, <1>6

\* binder_dec_node
LEMMA DecNodeEases ==
    ASSUME NEW s \in Loose, NEW strong \in BOOLEAN, NEW internal \in BOOLEAN,
           NEW r, r = binder_dec_node(s, strong, internal)
    PROVE  r \in Loose /\ r.ref = s.ref /\ Eases(s, r)
<1> DEFINE m == Uncounted(s.node, strong, internal)
           t == [s EXCEPT !.node = m]
<1>0. s.node \in LooseNodes
  BY DEF Loose
<1>1. r = t \/ r = LastGone(t)
  BY DEF binder_dec_node
<1>2. m \in LooseNodes /\ SameFlags(m, s.node) /\ (Wanted(m) => Wanted(s.node))
  BY <1>0, UncountedLoose
<1> HIDE DEF m
<1>3. t \in Loose /\ t.node = m /\ t.ref = s.ref /\ t.todo = s.todo
  BY <1>2 DEF Loose
<1> HIDE DEF t
<1>4. Eases(s, t)
  BY <1>2, <1>3, EasesSame
<1>5. CASE r = t
  BY <1>3, <1>4, <1>5
<1>6. CASE r = LastGone(t)
  <2>1. r \in Loose /\ r.ref = t.ref /\ Eases(t, r)
    BY <1>3, <1>6, LastGoneEases
  <2> QED BY <1>3, <1>4, <2>1, EasesTwice
<1> QED BY <1>1, <1>5, <1>6

\* Setting a ref is nothing to the owner.
LEMMA RefLoose ==
    ASSUME NEW s \in Loose, NEW f \in [Clients -> LooseRefs], NEW r, r = [s EXCEPT !.ref = f]
    PROVE  r \in Loose /\ r.node = s.node /\ r.todo = s.todo /\ r.ref = f /\ Eases(s, r)
<1>1. r \in Loose /\ r.node = s.node /\ r.todo = s.todo /\ r.ref = f
  BY DEF Loose
<1>2. SameFlags(r.node, s.node)
  BY <1>1 DEF SameFlags
<1> QED BY <1>1, <1>2, EasesSame

\* binder_delete_ref
LEMMA DeleteRefEases ==
    ASSUME NEW s \in Loose, NEW c \in Clients, NEW r, r = binder_delete_ref(s, c)
    PROVE  r \in Loose /\ Eases(s, r)
<1> DEFINE t == IF s.ref[c].strong > 0 THEN binder_dec_node(s, TRUE, TRUE) ELSE s
           f == [t.ref EXCEPT ![c] = NoRef]
           g == [t EXCEPT !.ref = f]
<1>0. r = binder_dec_node([t EXCEPT !.ref[c] = NoRef], FALSE, TRUE)
  BY DEF binder_delete_ref
<1>1. t \in Loose /\ Eases(s, t)
  <2>1. CASE t = s
    BY <2>1, EasesSame DEF SameFlags
  <2>2. CASE t = binder_dec_node(s, TRUE, TRUE)
    BY <2>2, DecNodeEases
  <2> QED BY <2>1, <2>2
<1> HIDE DEF t
<1>2. r = binder_dec_node(g, FALSE, TRUE)
  BY <1>0
<1>3. f \in [Clients -> LooseRefs]
  BY <1>1 DEF Loose, LooseRefs, NoRef
<1> HIDE DEF f
<1>4. g \in Loose /\ Eases(t, g)
  BY <1>1, <1>3, RefLoose
<1> HIDE DEF g
<1>5. r \in Loose /\ Eases(g, r)
  BY <1>2, <1>4, DecNodeEases
<1> QED BY <1>1, <1>4, <1>5, EasesTwice

\* One count of a ref less is nothing to the owner either.
LEMMA RefLess ==
    ASSUME NEW s \in Loose, NEW c \in Clients, NEW d,
           \/ d = [s EXCEPT !.ref[c].strong = @ - 1]
           \/ d = [s EXCEPT !.ref[c].weak = @ - 1]
    PROVE  d \in Loose /\ Eases(s, d)
<1>0. s.ref \in [Clients -> LooseRefs] /\ s.ref[c] \in LooseRefs
  BY DEF Loose
<1>1. s.ref[c].strong - 1 \in Int /\ s.ref[c].weak - 1 \in Int
  BY <1>0 DEF LooseRefs
<1> DEFINE x == s.ref[c].strong - 1
           y == s.ref[c].weak - 1
           a == [s.ref[c] EXCEPT !.strong = x]
           b == [s.ref[c] EXCEPT !.weak = y]
           f == [s.ref EXCEPT ![c] = a]
           g == [s.ref EXCEPT ![c] = b]
<1>2. d = [s EXCEPT !.ref = f] \/ d = [s EXCEPT !.ref = g]
  OBVIOUS
<1>3. x \in Int /\ y \in Int
  BY <1>1
<1> HIDE DEF x, y
<1>4. a \in LooseRefs /\ b \in LooseRefs
  BY <1>0, <1>3 DEF LooseRefs
<1> HIDE DEF a, b
<1>5. f \in [Clients -> LooseRefs] /\ g \in [Clients -> LooseRefs]
  BY <1>0, <1>4
<1> HIDE DEF f, g
<1> QED BY <1>2, <1>5, RefLoose

\* binder_dec_ref
LEMMA DecRefEases ==
    ASSUME NEW s \in Loose, NEW c \in Clients, NEW strong \in BOOLEAN,
           NEW r, r = binder_dec_ref(s, c, strong)
    PROVE  r \in Loose /\ Eases(s, r)
<1> DEFINE d == IF strong THEN [s EXCEPT !.ref[c].strong = @ - 1] ELSE [s EXCEPT !.ref[c].weak = @ - 1]
           t == IF strong /\ d.ref[c].strong = 0 THEN binder_dec_node(d, TRUE, TRUE) ELSE d
<1>0. r = s \/ r = binder_delete_ref(t, c) \/ r = t
  BY DEF binder_dec_ref
<1>1. d \in Loose /\ Eases(s, d)
  <2>1. d = [s EXCEPT !.ref[c].strong = @ - 1] \/ d = [s EXCEPT !.ref[c].weak = @ - 1]
    OBVIOUS
  <2> HIDE DEF d
  <2> QED BY <2>1, RefLess
<1>2. t = binder_dec_node(d, TRUE, TRUE) \/ t = d
  OBVIOUS
<1> HIDE DEF d, t
<1>3. t \in Loose /\ Eases(s, t)
  <2>1. CASE t = d
    BY <1>1, <2>1
  <2>2. CASE t = binder_dec_node(d, TRUE, TRUE)
    <3>1. t \in Loose /\ Eases(d, t)
      BY <1>1, <2>2, DecNodeEases
    <3> QED BY <1>1, <3>1, EasesTwice
  <2> QED BY <1>2, <2>1, <2>2
<1>4. CASE r = s
  BY <1>4, EasesSame DEF SameFlags
<1>5. CASE r = t
  BY <1>3, <1>5
<1>6. CASE r = binder_delete_ref(t, c)
  <2>1. r \in Loose /\ Eases(t, r)
    BY <1>3, <1>6, DeleteRefEases
  <2> QED BY <1>3, <2>1, EasesTwice
<1> QED BY <1>0, <1>4, <1>5, <1>6

\* What counting a handle for c does to the lists, when thread t sends the
\* object: its work goes to the end of t's list, or stays where it is.
Moves(todo, t) == Enqueue(Unqueued(todo), t)

LEMMA HandedWork ==
    ASSUME NEW s \in Drivers, NEW c \in Clients, NEW t \in Threads, NEW kind \in Kinds,
           NEW a, a = Handed(s, c, kind, t)
    PROVE  \/ a.todo = s.todo /\ (kind = "strong" => s.ref[c].strong # 0 \/ s.node.has_strong_ref)
           \/ a.todo = Moves(s.todo, t) /\ (kind = "weak" => ~ OnList(s.todo))
<1> DEFINE g == binder_get_ref_for_node(s, c)
           strong == kind = "strong"
           first == IF strong THEN g.ref[c].strong = 0 ELSE g.ref[c].weak = 0
           n == Counted(g.node, strong, TRUE)
           td == IF MustAsk(g, strong, t) THEN Enqueue(Unqueued(g.todo), t) ELSE g.todo
           u == IF first THEN binder_inc_node(g, strong, TRUE, t) ELSE g
<1>0. t # "NULL" /\ strong \in BOOLEAN /\ (strong \/ kind = "weak")
  BY BinderAssumption DEF Kinds
<1>1. /\ g \in Drivers /\ g.node = s.node /\ g.todo = s.todo
      /\ g.ref[c].strong = s.ref[c].strong
  BY GetRef
<1> HIDE DEF g
<1>2. a = IF strong THEN [u EXCEPT !.ref[c].strong = @ + 1] ELSE [u EXCEPT !.ref[c].weak = @ + 1]
  BY <1>0 DEF Handed, binder_inc_ref, g
<1>3. /\ first => u = [g EXCEPT !.node = n, !.todo = td]
      /\ ~ first => u = g
  BY DEF binder_inc_node
<1>4. /\ MustAsk(g, strong, t) => td = Moves(s.todo, t) /\ (~ strong => ~ OnList(s.todo))
      /\ ~ MustAsk(g, strong, t) => td = s.todo /\ (strong => s.node.has_strong_ref)
  BY <1>0, <1>1 DEF MustAsk, Moves, Queued, OnList
<1>5. first \in BOOLEAN /\ (~ first /\ strong => s.ref[c].strong # 0)
  BY <1>1
<1> HIDE DEF n, td, u, first, strong
<1>6. u.todo = IF first THEN td ELSE s.todo
  BY <1>1, <1>3, <1>5 DEF Drivers
<1>7. a.todo = u.todo
  <2> DEFINE f == a.ref
  <2>1. DOMAIN u = {"node", "ref", "todo"}
    BY <1>1, <1>3, <1>5 DEF Drivers
  <2> QED BY <1>0, <1>2, <2>1
<1> QED BY <1>0, <1>4, <1>5, <1>6, <1>7 DEF strong

\* The object's work goes to the end of a list ...
LEMMA NodeLast ==
    ASSUME NEW q \in Seq(WorkTypes), NEW r, r = Append(q, "node")
    PROVE  /\ r \in Seq(WorkTypes) /\ Has(r, "node")
           /\ Has(r, "complete") <=> Has(q, "complete")
           /\ Single(q, "complete") => Single(r, "complete")
<1> DEFINE x == "node"
           y == "complete"
<1>1. x \in WorkTypes /\ y \in WorkTypes /\ x # y /\ r = Append(q, x)
  BY DEF WorkTypes
<1> HIDE DEF x, y
<1>2. Has(r, x)
  BY <1>1, HasAppend
<1>3. r \in Seq(WorkTypes) /\ (Has(r, y) <=> Has(q, y)) /\ (Single(q, y) => Single(r, y))
  BY <1>1, HasAppend
<1> QED BY <1>2, <1>3 DEF x, y

\* ... and a transaction that is done after it.
LEMMA CompleteLast ==
    ASSUME NEW q \in Seq(WorkTypes), NEW r, r = Append(q, "complete")
    PROVE  /\ r \in Seq(WorkTypes) /\ Has(r, "complete")
           /\ ~ Has(q, "complete") => Single(r, "complete")
           /\ Has(q, "node") => Before(r, "node", "complete")
<1> DEFINE x == "complete"
           y == "node"
<1>1. x \in WorkTypes /\ y \in WorkTypes /\ r = Append(q, x)
  BY DEF WorkTypes
<1>2. ~ Has(q, x) => Single(q, x)
  BY DEF Has, Single
<1> HIDE DEF x, y
<1>3. r \in Seq(WorkTypes) /\ Has(r, x) /\ (~ Has(q, x) => Single(r, x))
  BY <1>1, <1>2, HasAppend
<1>4. Has(q, y) => Before(r, y, x)
  BY <1>1, BeforeAppend
<1> QED BY <1>3, <1>4 DEF x, y

\* Work that moves to the list of a thread
LEMMA MovesEffect ==
    ASSUME NEW todo \in [Lists -> Seq(WorkTypes)], NEW t \in Threads, NEW td, td = Moves(todo, t)
    PROVE  /\ td \in [Lists -> Seq(WorkTypes)] /\ DoneSame(todo, td)
           /\ Has(td[t], "node")
<1> DEFINE u == Unqueued(todo)
           q == u[t]
           r == Append(q, "node")
<1>1. u \in [Lists -> Seq(WorkTypes)] /\ DoneSame(todo, u)
  BY UnqueuedDone
<1>2. td = [u EXCEPT ![t] = r]
  BY DEF Moves, Enqueue
<1> HIDE DEF u
<1>3. t \in Lists /\ Threads \subseteq Lists /\ q \in Seq(WorkTypes)
  BY <1>1 DEF Lists
<1> HIDE DEF q
<1>4. /\ r \in Seq(WorkTypes) /\ Has(r, "node")
      /\ Has(r, "complete") <=> Has(q, "complete")
      /\ Single(q, "complete") => Single(r, "complete")
  BY <1>3, NodeLast
<1> HIDE DEF r
<1>5. td \in [Lists -> Seq(WorkTypes)] /\ td[t] = r /\ \A w \in Threads \ {t} : td[w] = u[w]
  BY <1>1, <1>2, <1>3, <1>4
<1>6. DoneSame(u, td)
  <2>1. /\ Has(td[t], "complete") <=> Has(u[t], "complete")
        /\ Single(u[t], "complete") => Single(td[t], "complete")
    BY <1>4, <1>5 DEF q
  <2> QED BY <1>5, <2>1 DEF DoneSame
<1>7. DoneSame(todo, td)
  BY <1>1, <1>6 DEF DoneSame
<1> QED BY <1>4, <1>5, <1>7

-----------------------------------------------------------------------------
(* The commands that the owner's threads have read and not handled *)

Commands ==
    {"BR_TRANSACTION_COMPLETE", "BR_ACQUIRE", "BR_INCREFS", "BR_RELEASE", "BR_DECREFS"}

\* Where command br is among them
Cmds(b, br) == {x \in Threads \X Nat : x[2] \in DOMAIN b[x[1]] /\ b[x[1]][x[2]] = br}

\* Places are pairs.
LEMMA CmdsPairs ==
    ASSUME NEW b, NEW br
    PROVE  /\ \A w \in Threads, i \in Nat :
                 <<w, i>> \in Cmds(b, br) <=> i \in DOMAIN b[w] /\ b[w][i] = br
           /\ \A x \in Cmds(b, br) : \E w \in Threads, i \in Nat : x = <<w, i>>
BY DEF Cmds

\* Finitely many things and one more, or one less
LEMMA OneMore ==
    ASSUME NEW S, IsFiniteSet(S), NEW x, x \notin S, NEW T, T = S \cup {x}
    PROVE  /\ IsFiniteSet(T) /\ Cardinality(S) \in Nat
           /\ Cardinality(T) = Cardinality(S) + 1
BY FS_AddElement, FS_CardinalityType

LEMMA OneLess ==
    ASSUME NEW S, IsFiniteSet(S), NEW x, x \in S, NEW T, T = S \ {x}
    PROVE  /\ IsFiniteSet(T) /\ Cardinality(S) \in Nat
           /\ Cardinality(T) = Cardinality(S) - 1
BY FS_RemoveElement, FS_CardinalityType

\* Thread t reads command x, and handles its first one.
WithCommand(b, t, x) == [b EXCEPT ![t] = Append(b[t], x)]
WithoutFirst(b, t) == [b EXCEPT ![t] = Tail(b[t])]

\* A command more
LEMMA CmdsAppend ==
    ASSUME NEW b, b \in [Threads -> Seq(Commands)], NEW t \in Threads, NEW x \in Commands,
           NEW d, d = WithCommand(b, t, x), NEW br \in Commands,
           IsFiniteSet(Cmds(b, br))
    PROVE  /\ IsFiniteSet(Cmds(d, br)) /\ Cardinality(Cmds(b, br)) \in Nat
           /\ x # br => Cardinality(Cmds(d, br)) = Cardinality(Cmds(b, br))
           /\ x = br => Cardinality(Cmds(d, br)) = Cardinality(Cmds(b, br)) + 1
<1> DEFINE n == Len(b[t])
           q == Append(b[t], x)
<1>1. /\ b[t] \in Seq(Commands) /\ n \in Nat /\ DOMAIN b[t] = 1..n
      /\ DOMAIN q = 1..(n + 1) /\ q[n + 1] = x /\ \A i \in 1..n : q[i] = b[t][i]
  OBVIOUS
<1> HIDE DEF q, n
<1>2. d[t] = q /\ \A w \in Threads \ {t} : d[w] = b[w]
  BY DEF q, WithCommand
<1> DEFINE S == Cmds(b, br)
           T == Cmds(d, br)
           p == <<t, n + 1>>
<1>3. \A w \in Threads, i \in Nat : <<w, i>> \in S <=> i \in DOMAIN b[w] /\ b[w][i] = br
  BY CmdsPairs
<1>4. \A w \in Threads, i \in Nat : <<w, i>> \in T <=> i \in DOMAIN d[w] /\ d[w][i] = br
  BY ONLY CmdsPairs
<1>5. /\ \A z \in S : \E w \in Threads, i \in Nat : z = <<w, i>>
      /\ \A z \in T : \E w \in Threads, i \in Nat : z = <<w, i>>
  BY CmdsPairs
<1> HIDE DEF S, T
<1>6. \A w \in Threads, i \in Nat :
        <<w, i>> \in T <=> <<w, i>> \in S \/ (w = t /\ i = n + 1 /\ x = br)
  <2> SUFFICES ASSUME NEW w \in Threads, NEW i \in Nat
               PROVE  <<w, i>> \in T <=> <<w, i>> \in S \/ (w = t /\ i = n + 1 /\ x = br)
    OBVIOUS
  <2>1. CASE w # t
    BY <1>2, <1>3, <1>4, <2>1
  <2>2. CASE w = t /\ i = n + 1
    <3>1. <<w, i>> \notin S
      BY <1>1, <1>3, <2>2
    <3>2. <<w, i>> \in T <=> x = br
      BY <1>1, <1>2, <1>4, <2>2
    <3> QED BY <2>2, <3>1, <3>2
  <2>3. CASE w = t /\ i # n + 1
    <3>1. i \in 1..(n + 1) <=> i \in 1..n
      BY <1>1, <2>3
    <3> QED BY <1>1, <1>2, <1>3, <1>4, <2>3, <3>1
  <2> QED BY <2>1, <2>2, <2>3
<1>7. p \notin S
  BY <1>1, <1>3
<1>8. CASE x # br
  <2>1. ASSUME NEW z
        PROVE  z \in T <=> z \in S
    <3>1. ASSUME NEW w \in Threads, NEW i \in Nat, z = <<w, i>>
          PROVE  z \in T <=> z \in S
      BY <1>6, <1>8, <3>1
    <3> QED BY <1>5, <3>1
  <2>2. T = S
    BY <2>1
  <2> QED BY <1>8, <2>2, FS_CardinalityType DEF S, T
<1>9. CASE x = br
  <2>1. T = S \cup {p}
    BY <1>1, <1>5, <1>6, <1>9
  <2>2. IsFiniteSet(S)
    BY DEF S
  <2> HIDE DEF p
  <2> QED BY <1>7, <1>9, <2>1, <2>2, OneMore DEF S, T
<1> QED BY <1>8, <1>9

\* One less
LEMMA CmdsTail ==
    ASSUME NEW b, b \in [Threads -> Seq(Commands)], NEW t \in Threads, b[t] # <<>>,
           NEW d, d = WithoutFirst(b, t), NEW br \in Commands,
           IsFiniteSet(Cmds(b, br))
    PROVE  /\ IsFiniteSet(Cmds(d, br)) /\ Cardinality(Cmds(b, br)) \in Nat
           /\ Head(b[t]) # br => Cardinality(Cmds(d, br)) = Cardinality(Cmds(b, br))
           /\ Head(b[t]) = br => Cardinality(Cmds(d, br)) = Cardinality(Cmds(b, br)) - 1
<1> DEFINE n == Len(b[t])
           q == Tail(b[t])
<1>1. /\ b[t] \in Seq(Commands) /\ n \in Nat \ {0} /\ DOMAIN b[t] = 1..n /\ Head(b[t]) = b[t][1]
      /\ DOMAIN q = 1..(n - 1) /\ \A i \in 1..(n - 1) : q[i] = b[t][i + 1]
  OBVIOUS
<1> HIDE DEF q, n
<1>2. d[t] = q /\ \A w \in Threads \ {t} : d[w] = b[w]
  BY DEF q, WithoutFirst
<1> DEFINE S == Cmds(b, br)
           T == Cmds(d, br)
           p == <<t, 1>>
           R == S \ {p}
           f == [z \in R |-> IF z[1] = t THEN <<t, z[2] - 1>> ELSE z]
<1>3. \A w \in Threads, i \in Nat : <<w, i>> \in S <=> i \in DOMAIN b[w] /\ b[w][i] = br
  BY CmdsPairs
<1>4. \A w \in Threads, i \in Nat : <<w, i>> \in T <=> i \in DOMAIN d[w] /\ d[w][i] = br
  BY ONLY CmdsPairs
<1>5. /\ \A z \in S : \E w \in Threads, i \in Nat : z = <<w, i>>
      /\ \A z \in T : \E w \in Threads, i \in Nat : z = <<w, i>>
  BY CmdsPairs
<1>f. IsFiniteSet(S)
  OBVIOUS
<1> HIDE DEF S, T
<1>6. \A w \in Threads \ {t}, i \in Nat : <<w, i>> \in T <=> <<w, i>> \in R
  <2> SUFFICES ASSUME NEW w \in Threads, w # t, NEW i \in Nat
               PROVE  <<w, i>> \in T <=> <<w, i>> \in R
    OBVIOUS
  <2>1. <<w, i>> \in T <=> <<w, i>> \in S
    BY <1>2, <1>3, <1>4
  <2>2. <<w, i>> # p
    OBVIOUS
  <2> QED BY <2>1, <2>2
<1>7. \A i \in Nat : <<t, i>> \in T <=> <<t, i + 1>> \in R
  <2> SUFFICES ASSUME NEW i \in Nat
               PROVE  <<t, i>> \in T <=> <<t, i + 1>> \in R
    OBVIOUS
  <2>1. <<t, i + 1>> \in R <=> <<t, i + 1>> \in S /\ i # 0
    <3>1. <<t, i + 1>> = <<t, 1>> <=> i = 0
      OBVIOUS
    <3> QED BY <3>1
  <2>2. <<t, i + 1>> \in S <=> i + 1 \in 1..n /\ b[t][i + 1] = br
    <3> DEFINE j == i + 1
    <3>1. j \in Nat
      OBVIOUS
    <3> HIDE DEF j
    <3>2. <<t, j>> \in S <=> j \in 1..n /\ b[t][j] = br
      BY <1>1, <1>3, <3>1
    <3> QED BY <3>2 DEF j
  <2>3. <<t, i>> \in T <=> i \in 1..(n - 1) /\ q[i] = br
    BY <1>1, <1>2, <1>4
  <2>4. i \in 1..(n - 1) <=> i + 1 \in 1..n /\ i # 0
    BY <1>1
  <2> QED BY <1>1, <2>1, <2>2, <2>3, <2>4
<1>8. \A i \in Nat : <<t, i>> \in R => i # 0 /\ <<t, i - 1>> \in T
  <2> SUFFICES ASSUME NEW i \in Nat, <<t, i>> \in R
               PROVE  i # 0 /\ <<t, i - 1>> \in T
    OBVIOUS
  <2>1. i \in 1..n
    BY <1>1, <1>3
  <2>2. i - 1 \in Nat /\ (i - 1) + 1 = i
    BY <1>1, <2>1
  <2> QED BY <1>7, <2>1, <2>2
<1>9. /\ \A w \in Threads \ {t}, i \in Nat : <<w, i>> \in R => f[<<w, i>>] = <<w, i>>
      /\ \A i \in Nat : <<t, i>> \in R => f[<<t, i>>] = <<t, i - 1>>
  OBVIOUS
<1>10. \A z \in R : \E w \in Threads, i \in Nat : z = <<w, i>>
  BY <1>5
<1>d. DOMAIN f = R /\ f = [z \in R |-> f[z]]
  OBVIOUS
<1> HIDE DEF R, f
<1>11. f \in [R -> T]
  <2> SUFFICES ASSUME NEW z \in R
               PROVE  f[z] \in T
    BY <1>d
  <2>1. PICK w \in Threads, i \in Nat : z = <<w, i>>
    BY <1>10
  <2> QED BY <1>6, <1>8, <1>9, <2>1
<1>12. \A y, z \in R : f[y] = f[z] => y = z
  <2> SUFFICES ASSUME NEW y \in R, NEW z \in R, f[y] = f[z]
               PROVE  y = z
    OBVIOUS
  <2>1. PICK v \in Threads, i \in Nat : y = <<v, i>>
    BY <1>10
  <2>2. PICK w \in Threads, j \in Nat : z = <<w, j>>
    BY <1>10
  <2>3. CASE v = t /\ w = t
    <3>1. f[y] = <<t, i - 1>> /\ f[z] = <<t, j - 1>>
      BY <1>9, <2>1, <2>2, <2>3
    <3>2. <<t, i - 1>> = <<t, j - 1>>
      BY <3>1
    <3>3. i - 1 = j - 1
      BY ONLY <3>2
    <3>4. i = j
      BY <3>3
    <3> QED BY <2>1, <2>2, <2>3, <3>4
  <2>4. CASE v # t /\ w # t
    BY <1>9, <2>1, <2>2, <2>4
  <2>5. CASE v = t /\ w # t
    <3>1. f[y] = <<t, i - 1>> /\ f[z] = <<w, j>>
      BY <1>9, <2>1, <2>2, <2>5
    <3>2. <<t, i - 1>> = <<w, j>>
      BY <3>1
    <3>3. t = w
      BY ONLY <3>2
    <3> QED BY <2>5, <3>3
  <2>6. CASE v # t /\ w = t
    <3>1. f[y] = <<v, i>> /\ f[z] = <<t, j - 1>>
      BY <1>9, <2>1, <2>2, <2>6
    <3>2. <<v, i>> = <<t, j - 1>>
      BY <3>1
    <3>3. v = t
      BY ONLY <3>2
    <3> QED BY <2>6, <3>3
  <2> QED BY <2>3, <2>4, <2>5, <2>6
<1>13. \A y \in T : \E z \in R : f[z] = y
  <2> SUFFICES ASSUME NEW y \in T
               PROVE  \E z \in R : f[z] = y
    OBVIOUS
  <2>1. PICK w \in Threads, i \in Nat : y = <<w, i>>
    BY <1>5
  <2>2. CASE w # t
    BY <1>6, <1>9, <2>1, <2>2
  <2>3. CASE w = t
    <3>1. <<t, i + 1>> \in R /\ i + 1 \in Nat /\ (i + 1) - 1 = i
      BY <1>7, <2>1, <2>3
    <3>2. f[<<t, i + 1>>] = <<t, (i + 1) - 1>>
      BY <1>9, <3>1
    <3> QED BY <2>1, <2>3, <3>1, <3>2
  <2> QED BY <2>2, <2>3
<1>14. f \in Bijection(R, T)
  BY <1>11, <1>12, <1>13 DEF Bijection, Injection, Surjection, IsInjective
<1>15. ExistsBijection(R, T)
  BY <1>14 DEF ExistsBijection
<1>16. p \in S <=> Head(b[t]) = br
  BY <1>1, <1>3
<1>17. /\ IsFiniteSet(R) /\ Cardinality(S) \in Nat
       /\ p \notin S => Cardinality(R) = Cardinality(S)
       /\ p \in S => Cardinality(R) = Cardinality(S) - 1
  <2>1. CASE p \notin S
    <3>1. R = S
      BY <2>1 DEF R
    <3> QED BY <1>f, <2>1, <3>1, FS_CardinalityType
  <2>2. CASE p \in S
    <3>1. R = S \ {p}
      BY DEF R
    <3> HIDE DEF p
    <3> QED BY <1>f, <2>2, <3>1, OneLess
  <2> QED BY <2>1, <2>2
<1>18. IsFiniteSet(T) /\ Cardinality(T) = Cardinality(R)
  BY <1>15, <1>17, FS_Bijection
<1> QED BY <1>16, <1>17, <1>18 DEF S, T

-----------------------------------------------------------------------------
(* What keeps the object: the references that the owner has taken for the    *)
(* driver, or a transaction with the object that is not done.                *)

\* The owner's references are those it was asked for and has not been told to
\* release, or was told and has not yet done so.
OwedOK(n, b, u) ==
    /\ \A br \in Commands : IsFiniteSet(Cmds(b, br))
    /\ Cardinality(Cmds(b, "BR_ACQUIRE")) = One(n.pending_strong_ref)
    /\ Cardinality(Cmds(b, "BR_INCREFS")) = One(n.pending_weak_ref)
    /\ u.strong = Cardinality(Cmds(b, "BR_RELEASE")) + One(n.has_strong_ref /\ ~ n.pending_strong_ref)
    /\ u.weak = Cardinality(Cmds(b, "BR_DECREFS")) + One(n.has_weak_ref /\ ~ n.pending_weak_ref)

\* A thread waits for the end of one transaction at most, and learns of it once.
SentOK(todo, b, p) ==
    \A t \in Threads :
        /\ Single(todo[t], "complete") /\ Single(b[t], "BR_TRANSACTION_COMPLETE")
        /\ ~ (Has(todo[t], "complete") /\ Has(b[t], "BR_TRANSACTION_COMPLETE"))
        /\ p[t] = "none" => ~ Has(todo[t], "complete") /\ ~ Has(b[t], "BR_TRANSACTION_COMPLETE")

\* A thread that sends the object is to ask for the reference, before it can
\* learn that its transaction is done.
ToAsk(s, p) ==
    Wanted(s.node) /\ ~ s.node.has_strong_ref =>
        \E t \in Threads : p[t] = "strong" /\ Before(s.todo[t], "node", "complete")

\* It has read BR_ACQUIRE, and handles it before that.
AskedFor(s, b, p) ==
    s.node.pending_strong_ref =>
        \E t \in Threads :
            /\ p[t] = "strong" /\ Has(b[t], "BR_ACQUIRE")
            /\ \/ Has(s.todo[t], "complete")
               \/ Before(b[t], "BR_ACQUIRE", "BR_TRANSACTION_COMPLETE")

Sends == Kinds \cup {"none"}

Kept(s, b, p, u) ==
    /\ b \in [Threads -> Seq(Commands)] /\ p \in [Threads -> Sends]
    /\ u \in [Kinds -> Int]
    /\ OwedOK(s.node, b, u) /\ SentOK(s.todo, b, p) /\ ToAsk(s, p) /\ AskedFor(s, b, p)

KInv == IF up THEN Kept(k, brs, parcel, user) ELSE user = None

\* What the owner has, and was asked for
SameMarks(m, n) ==
    /\ m.has_strong_ref = n.has_strong_ref /\ m.pending_strong_ref = n.pending_strong_ref
    /\ m.has_weak_ref = n.has_weak_ref /\ m.pending_weak_ref = n.pending_weak_ref

\* Nothing changed for the owner's threads, but perhaps where they find the work.
LEMMA KeptIf ==
    ASSUME NEW s, NEW r, NEW b, NEW p, NEW u, Kept(s, b, p, u), SameMarks(r.node, s.node),
           DoneSame(s.todo, r.todo), ToAsk(r, p)
    PROVE  Kept(r, b, p, u)
<1>1. OwedOK(s.node, b, u) => OwedOK(r.node, b, u)
  BY DEF SameMarks, OwedOK
<1>2. SentOK(s.todo, b, p) => SentOK(r.todo, b, p)
  BY DEF DoneSame, SentOK
<1>3. AskedFor(s, b, p) => AskedFor(r, b, p)
  BY DEF AskedFor, SameMarks, DoneSame
<1> QED BY <1>1, <1>2, <1>3 DEF Kept

\* A node whose owner lives is known to it as long as it has references.
Owned(s) == s \in Drivers /\ FlagsOK(s.node) /\ (s.node.there => s.node.proc)

LEMMA EasesMarks ==
    ASSUME NEW s, Owned(s), NEW r, Eases(s, r)
    PROVE  /\ SameMarks(r.node, s.node) /\ DoneSame(s.todo, r.todo)
           /\ Wanted(r.node) => Wanted(s.node) /\ QuietLists(s.todo, r.todo)
<1>1. CASE /\ SameFlags(r.node, s.node) /\ (Wanted(r.node) => Wanted(s.node))
           /\ QuietLists(s.todo, r.todo)
  BY <1>1 DEF SameFlags, SameMarks, QuietLists, DoneSame
<1>2. CASE /\ SameFlags(r.node, NoNode) /\ ~ Wanted(r.node) /\ DoneSame(s.todo, r.todo)
           /\ ~ (s.node.proc /\ (s.node.has_strong_ref \/ s.node.has_weak_ref))
  <2>1. s.node.there \in BOOLEAN /\ s.node.proc \in BOOLEAN /\ s.node.has_strong_ref \in BOOLEAN
        /\ s.node.pending_strong_ref \in BOOLEAN /\ s.node.has_weak_ref \in BOOLEAN
        /\ s.node.pending_weak_ref \in BOOLEAN
    BY DEF Owned, Drivers, Nodes
  <2>2. ~ NoNode.has_strong_ref /\ ~ NoNode.has_weak_ref /\ NoNode.has_strong_ref = FALSE
        /\ NoNode.pending_strong_ref = FALSE /\ NoNode.has_weak_ref = FALSE
        /\ NoNode.pending_weak_ref = FALSE
    BY DEF NoNode
  <2>3. ~ s.node.has_strong_ref /\ ~ s.node.has_weak_ref
    BY <1>2, <2>2 DEF Owned, FlagsOK
  <2>4. ~ s.node.pending_strong_ref /\ ~ s.node.pending_weak_ref
    BY <2>3 DEF Owned, FlagsOK
  <2>5. SameMarks(r.node, s.node)
    BY <1>2, <2>1, <2>2, <2>3, <2>4 DEF SameFlags, SameMarks
  <2> QED BY <1>2, <2>5
<1> QED BY <1>1, <1>2 DEF Eases

\* A release keeps what the owner has.
LEMMA EasesKept ==
    ASSUME NEW s, Owned(s), NEW r, Eases(s, r), NEW b, NEW p, NEW u, Kept(s, b, p, u)
    PROVE  Kept(r, b, p, u)
<1>1. /\ SameMarks(r.node, s.node) /\ DoneSame(s.todo, r.todo)
      /\ Wanted(r.node) => Wanted(s.node) /\ QuietLists(s.todo, r.todo)
  BY EasesMarks
<1>2. ToAsk(s, p)
  BY DEF Kept
<1>3. ToAsk(r, p)
  BY <1>1, <1>2 DEF ToAsk, SameMarks, QuietLists
<1> QED BY <1>1, <1>3, KeptIf

\* The driver of a live owner
LEMMA InvOwned ==
    ASSUME BInv, up
    PROVE  Owned(k) /\ up = TRUE
BY DEF BInv, Owned, OwnerOK, Sound, NodeOK

\* A step that is a release, or nothing, to the owner
LEMMA EasyStep ==
    ASSUME BInv, KInv, up => Eases(k, k'), up' = up, brs' = brs, parcel' = parcel, user' = user
    PROVE  KInv'
<1>1. CASE up
  <2>1. Owned(k) /\ up = TRUE
    BY <1>1, InvOwned
  <2>2. Kept(k, brs, parcel, user)
    BY <1>1 DEF KInv
  <2> DEFINE r == k'
  <2>3. Eases(k, r)
    BY <1>1
  <2> HIDE DEF r
  <2>4. Kept(r, brs, parcel, user)
    BY <2>1, <2>2, <2>3, EasesKept
  <2> QED BY <2>1, <2>4 DEF KInv, r
<1>2. CASE ~ up
  BY <1>2 DEF KInv
<1> QED BY <1>1, <1>2

\* Steps that do not touch the driver
LEMMA IdleKept ==
    ASSUME BInv, KInv, k' = k, up' = up, brs' = brs, parcel' = parcel, user' = user
    PROVE  KInv'
<1>1. Eases(k, k')
  BY EasesSame DEF SameFlags
<1> QED BY <1>1, EasyStep

\* Releases of a client
LEMMA ReleaseKept ==
    ASSUME BInv, KInv, NEW c \in Clients, NEW kind \in Kinds,
           BC_RELEASE(c, kind) \/ FreeBuffer(c, kind)
    PROVE  KInv'
<1> DEFINE strong == kind = "strong"
           r == k'
<1>0. k \in Loose /\ strong \in BOOLEAN
  BY DriversLoose DEF BInv, Sound
<1>1. r = binder_dec_ref(k, c, strong) /\ UNCHANGED ownerVars
  BY DEF BC_RELEASE, FreeBuffer
<1> HIDE DEF strong, r
<1>2. Eases(k, r)
  BY <1>0, <1>1, DecRefEases
<1> QED BY <1>1, <1>2, EasyStep DEF ownerVars, r

\* A client's death
LEMMA ClientDiesKept ==
    ASSUME BInv, KInv, NEW c \in Clients, ClientDies(c)
    PROVE  KInv'
<1> DEFINE r == k'
<1>0. k \in Loose
  BY DriversLoose DEF BInv, Sound
<1>1. (r = binder_delete_ref(k, c) \/ r = k) /\ UNCHANGED ownerVars
  BY DEF ClientDies
<1> HIDE DEF r
<1>2. Eases(k, r)
  <2>1. CASE r = k
    BY <2>1, EasesSame DEF SameFlags
  <2>2. CASE r = binder_delete_ref(k, c)
    BY <1>0, <2>2, DeleteRefEases
  <2> QED BY <1>1, <2>1, <2>2
<1> QED BY <1>1, <1>2, EasyStep DEF ownerVars, r

\* BC_FREE_BUFFER of the owner
LEMMA OwnerFreesKept ==
    ASSUME BInv, KInv, NEW kind \in Kinds, OwnerFrees(kind)
    PROVE  KInv'
<1> DEFINE strong == kind = "strong"
           no == FALSE
           r == k'
<1>0. k \in Loose /\ strong \in BOOLEAN /\ no \in BOOLEAN
  BY DriversLoose DEF BInv, Sound
<1>1. r = binder_dec_node(k, strong, no) /\ UNCHANGED <<up, brs, parcel, user>>
  BY DEF OwnerFrees
<1> HIDE DEF strong, no, r
<1>2. Eases(k, r)
  BY <1>0, <1>1, DecNodeEases
<1> QED BY <1>1, <1>2, EasyStep DEF r

\* A transaction to the owner is sent to an object that it is to keep already.
LEMMA TransactKept ==
    ASSUME BInv, KInv, NEW c \in Clients, NEW kind \in Kinds, Transact(c, kind)
    PROVE  KInv'
<1> DEFINE strong == kind = "strong"
           no == FALSE
           r == k'
           n == Counted(k.node, strong, no)
<1>0. /\ Sound(k) /\ k \in Drivers /\ Once(k.todo) /\ k.node \in Nodes
      /\ strong \in BOOLEAN /\ no \in BOOLEAN
  BY DEF BInv, Sound, WorkOK, Drivers
<1>1. /\ r = binder_inc_node(k, strong, no, "NULL") /\ UNCHANGED ownerVars
      /\ strong => k.ref[c].strong > 0
  BY DEF Transact
<1>2. /\ n \in Nodes /\ SameFlags(n, k.node)
      /\ ~ strong => /\ n.internal_strong_refs = k.node.internal_strong_refs
                     /\ n.local_strong_refs = k.node.local_strong_refs
  <2>1. CASE strong
    <3>1. n = Counted(k.node, TRUE, FALSE)
      BY <2>1
    <3> QED BY <1>0, <2>1, <3>1, CountedEffect DEF MoreThan
  <2>2. CASE ~ strong
    <3>1. n = Counted(k.node, FALSE, FALSE)
      BY <2>2
    <3> HIDE DEF n
    <3>2. MoreThan(n, k.node, 0, 0, 1)
      BY <1>0, <3>1, CountedEffect
    <3>3. k.node.internal_strong_refs \in Nat /\ k.node.local_strong_refs \in Nat
      BY <1>0 DEF Nodes
    <3> QED BY <3>2, <3>3 DEF MoreThan
  <2> QED BY <2>1, <2>2
<1> HIDE DEF strong, no, r
<1>3. Adds(k, n, k.ref, r) /\ r.todo = k.todo
  BY <1>0, <1>1, <1>2, IncNodeNull
<1>4. strong => Wanted(k.node)
  BY <1>0, <1>1, RefCounted DEF Wanted
<1>5. Wanted(n) => Wanted(k.node)
  BY <1>2, <1>4 DEF Wanted
<1>6. r.node = n
  BY <1>3 DEF Adds
<1> HIDE DEF n
<1>7. Eases(k, r)
  BY <1>2, <1>3, <1>5, <1>6, EasesSame
<1> QED BY <1>1, <1>7, EasyStep DEF ownerVars, r

\* A handle counted without a list, for an object that is to be kept already
LEMMA IncNullEases ==
    ASSUME NEW s, Sound(s), NEW c \in Clients, NEW r
    PROVE  /\ r = binder_inc_ref(s, c, TRUE, "NULL") => Eases(s, r)
           /\ r = binder_inc_ref(s, c, FALSE, "NULL") => Eases(s, r)
<1>0. /\ s \in Drivers /\ Once(s.todo) /\ s.node \in Nodes /\ s.ref[c].strong \in Nat
      /\ s.ref[c].strong > 0 => s.node.internal_strong_refs > 0
  BY RefCounted
<1>s. s.node.internal_strong_refs \in Nat
  BY <1>0 DEF Nodes
<1>r. Eases(s, s)
  BY EasesSame DEF SameFlags
<1>1. ASSUME r = binder_inc_ref(s, c, TRUE, "NULL")
      PROVE  Eases(s, r)
  <2> DEFINE n == IF s.ref[c].strong = 0 THEN Counted(s.node, TRUE, TRUE) ELSE s.node
             f == WithStrong(s.ref, c, s.ref[c].strong + 1)
  <2>1. CASE s.ref[c].strong = 0 /\ s.node.internal_strong_refs = 0
    <3>1. r = s
      BY <1>0, <1>1, <2>1, IncRefNull
    <3> QED BY <1>r, <3>1
  <2>2. CASE ~ (s.ref[c].strong = 0 /\ s.node.internal_strong_refs = 0)
    <3>1. Adds(s, n, f, r) /\ r.todo = s.todo
      BY <1>0, <1>1, <2>2, IncRefNull
    <3>2. SameFlags(n, s.node)
      <4>1. SameFlags(Counted(s.node, TRUE, TRUE), s.node)
        BY <1>0, CountedEffect DEF MoreThan
      <4>2. SameFlags(s.node, s.node)
        BY DEF SameFlags
      <4> QED BY <4>1, <4>2
    <3>3. Wanted(s.node)
      BY <1>0, <1>s, <2>2 DEF Wanted
    <3>4. r.node = n
      BY <3>1 DEF Adds
    <3> HIDE DEF n
    <3> QED BY <3>1, <3>2, <3>3, <3>4, EasesSame
  <2> QED BY <2>1, <2>2
<1>2. ASSUME r = binder_inc_ref(s, c, FALSE, "NULL")
      PROVE  Eases(s, r)
  <2> DEFINE f == WithWeak(s.ref, c, s.ref[c].weak + 1)
  <2>1. r = s \/ (Adds(s, s.node, f, r) /\ r.todo = s.todo)
    BY <1>0, <1>2, IncRefNull
  <2>2. CASE r = s
    BY <1>r, <2>2
  <2>3. CASE Adds(s, s.node, f, r) /\ r.todo = s.todo
    <3>1. r.node = s.node /\ r.todo = s.todo
      BY <2>3 DEF Adds
    <3>2. SameFlags(r.node, s.node) /\ (Wanted(r.node) => Wanted(s.node))
      BY <3>1 DEF SameFlags
    <3> QED BY <3>1, <3>2, EasesSame
  <2> QED BY <2>1, <2>2, <2>3
<1> QED BY <1>1, <1>2

\* BC_ACQUIRE and BC_INCREFS of a client
LEMMA AcquireKept ==
    ASSUME BInv, KInv, NEW c \in Clients, BC_ACQUIRE(c) \/ BC_INCREFS(c)
    PROVE  KInv'
<1> DEFINE r == k'
<1>0. Sound(k)
  BY DEF BInv
<1>1. /\ r = binder_inc_ref(k, c, TRUE, "NULL") \/ r = binder_inc_ref(k, c, FALSE, "NULL")
      /\ UNCHANGED ownerVars
  BY DEF BC_ACQUIRE, BC_INCREFS
<1> HIDE DEF r
<1>2. Eases(k, r)
  BY <1>0, <1>1, IncNullEases
<1> QED BY <1>1, <1>2, EasyStep DEF ownerVars, r

\* A handle goes from client to client.
LEMMA SendHandleKept ==
    ASSUME BInv, KInv, NEW c \in Clients, NEW d \in Clients, NEW kind \in Kinds,
           SendHandle(c, d, kind)
    PROVE  KInv'
<1> DEFINE r == k'
<1>0. Sound(k) /\ (kind = "strong" \/ kind = "weak") /\ k.node \in Nodes
  BY DEF BInv, Sound, Kinds, Drivers
<1>1. /\ r = Handed(k, d, kind, "NULL") /\ UNCHANGED ownerVars /\ k.ref[c].there
      /\ kind = "strong" => k.ref[c].strong > 0
  BY DEF SendHandle
<1>2. kind = "strong" => k.node.internal_strong_refs > 0 /\ Wanted(k.node)
  BY <1>0, <1>1, RefCounted DEF Wanted
<1> HIDE DEF r
<1>3. CASE kind = "strong"
  <2>1. SameFlags(r.node, k.node) /\ r.todo = k.todo
    BY <1>0, <1>1, <1>2, <1>3, HandNull DEF Gained
  <2>2. Eases(k, r)
    BY <1>2, <1>3, <2>1, EasesSame
  <2> QED BY <1>1, <2>2, EasyStep DEF ownerVars, r
<1>4. CASE kind = "weak"
  <2> DEFINE g == binder_get_ref_for_node(k, d)
  <2>1. g \in Drivers /\ g.node = k.node /\ g.todo = k.todo
    BY <1>0, GetRef DEF Sound
  <2>2. r.todo = k.todo
    BY <1>0, <1>1, <1>4, HandNull
  <2>3. SameFlags(r.node, k.node) /\ r.node.local_strong_refs = k.node.local_strong_refs
    BY <1>0, <1>1, <1>4, HandNull DEF Gained
  <2>4. r.node.internal_strong_refs = k.node.internal_strong_refs
    <3>1. Sound(r) /\ \A e \in Clients : r.ref[e].strong = k.ref[e].strong
      BY <1>0, <1>1, <1>4, HandNull DEF Gained
    <3>2. Strong(r.ref) = Strong(k.ref)
      BY <3>1 DEF Strong
    <3> QED BY <1>0, <3>1, <3>2 DEF Sound, RefsThere
  <2>5. Eases(k, r)
    BY <2>2, <2>3, <2>4, EasesSame DEF Wanted
  <2> QED BY <1>1, <2>5, EasyStep DEF ownerVars, r
<1> QED BY <1>0, <1>3, <1>4

\* The driver after a thread's object has been counted for client c
LEMMA SendStart ==
    ASSUME BInv, up, NEW t \in Threads, NEW c \in Clients, NEW kind \in Kinds,
           NEW a, a = Handed(SendNode(k), c, kind, t)
    PROVE  /\ Owned(a) /\ SameMarks(a.node, k.node) /\ DoneSame(k.todo, a.todo)
           /\ kind = "weak" => (Wanted(a.node) => Wanted(k.node))
           /\ \/ /\ a.todo = k.todo
                 /\ Wanted(a.node) /\ ~ k.node.has_strong_ref => Wanted(k.node)
              \/ /\ a.todo = Moves(k.todo, t) /\ Has(a.todo[t], "node")
                 /\ kind = "weak" => ~ OnList(k.todo)
<1> DEFINE s == SendNode(k)
<1>0. Sound(k) /\ k \in Drivers /\ FlagsOK(k.node) /\ (kind = "strong" \/ kind = "weak")
      /\ RefsThere(k.node, k.ref) /\ k.todo \in [Lists -> Seq(WorkTypes)]
  BY DEF BInv, Sound, Kinds, Drivers
<1>1. Sound(s) /\ s \in Drivers /\ s.node.proc /\ s.ref = k.ref
  BY SendMatches DEF Matches, Sound
<1>2. /\ s.todo = k.todo /\ SameMarks(s.node, k.node)
      /\ s.node.local_strong_refs = k.node.local_strong_refs
  <2>1. CASE k.node.there
    BY <2>1 DEF SendNode, SameMarks
  <2>2. CASE ~ k.node.there
    <3> DEFINE n == [NoNode EXCEPT !.there = TRUE, !.proc = TRUE]
    <3>1. k.node = NoNode
      BY <1>0, <2>2 DEF FlagsOK
    <3>2. s = [k EXCEPT !.node = n]
      BY <2>2 DEF SendNode, binder_new_node
    <3>3. SameMarks(n, NoNode) /\ n.local_strong_refs = NoNode.local_strong_refs
      BY DEF SameMarks, NoNode
    <3> HIDE DEF n, s
    <3>4. s.node = n /\ s.todo = k.todo
      BY <1>0, <3>2 DEF Drivers
    <3> QED BY <3>1, <3>3, <3>4
  <2> QED BY <2>1, <2>2
<1>3. /\ Sound(a) /\ SameFlags(a.node, s.node)
      /\ a.node.local_strong_refs = s.node.local_strong_refs
      /\ kind = "weak" => \A e \in Clients : a.ref[e].strong = s.ref[e].strong
  <2>1. CASE kind = "strong"
    BY <1>0, <2>1, SendMatches DEF Gained
  <2>2. CASE kind = "weak"
    <3>1. Gained(s, c, s.ref[c].strong, s.ref[c].weak + 1, a)
      BY <2>2, SendMatches
    <3> HIDE DEF s
    <3>2. \A e \in Clients : a.ref[e].strong = s.ref[e].strong
      BY <3>1 DEF Gained
    <3> QED BY <3>1, <3>2 DEF Gained
  <2> QED BY <1>0, <2>1, <2>2
<1>4. \/ a.todo = s.todo /\ (kind = "strong" => s.ref[c].strong # 0 \/ s.node.has_strong_ref)
      \/ a.todo = Moves(s.todo, t) /\ (kind = "weak" => ~ OnList(s.todo))
  BY <1>1, HandedWork
<1> HIDE DEF s
<1>5. Owned(a)
  BY <1>1, <1>3 DEF Owned, Sound, SameFlags
<1>6. SameMarks(a.node, k.node)
  BY <1>2, <1>3 DEF SameMarks, SameFlags
<1>7. kind = "weak" => (Wanted(a.node) => Wanted(k.node))
  <2> SUFFICES ASSUME kind = "weak"
               PROVE  Wanted(a.node) => Wanted(k.node)
    OBVIOUS
  <2>1. Strong(a.ref) = Strong(k.ref)
    BY <1>1, <1>3 DEF Strong
  <2>2. a.node.internal_strong_refs = k.node.internal_strong_refs
    BY <1>0, <1>3, <2>1 DEF Sound, RefsThere
  <2> QED BY <1>2, <1>3, <2>2 DEF Wanted
<1>8. DoneSame(k.todo, k.todo)
  BY DEF DoneSame
<1>9. CASE a.todo = s.todo /\ (kind = "strong" => s.ref[c].strong # 0 \/ s.node.has_strong_ref)
  <2>1. Wanted(a.node) /\ ~ k.node.has_strong_ref => Wanted(k.node)
    <3>1. CASE kind = "weak"
      BY <1>7, <3>1
    <3>2. CASE kind = "strong"
      <4>1. k.ref[c].strong # 0 \/ k.node.has_strong_ref
        BY <1>1, <1>2, <1>9, <3>2 DEF SameMarks
      <4>2. k.ref[c].strong \in Nat /\ (k.ref[c].strong > 0 => Wanted(k.node))
        BY <1>0, RefCounted DEF Wanted
      <4> QED BY <4>1, <4>2
    <3> QED BY <1>0, <3>1, <3>2
  <2> QED BY <1>2, <1>5, <1>6, <1>7, <1>8, <1>9, <2>1
<1>10. CASE a.todo = Moves(s.todo, t) /\ (kind = "weak" => ~ OnList(s.todo))
  <2>1. DoneSame(k.todo, a.todo) /\ Has(a.todo[t], "node")
    BY <1>0, <1>2, <1>10, MovesEffect
  <2> QED BY <1>2, <1>5, <1>6, <1>7, <1>10, <2>1
<1> QED BY <1>4, <1>9, <1>10

\* The thread's transaction is counted among what is to be done.
WithDone(todo, t) == [todo EXCEPT ![t] = Append(@, "complete")]
WithValue(p, t, x) == [p EXCEPT ![t] = x]

LEMMA SentMore ==
    ASSUME NEW td, td \in [Lists -> Seq(WorkTypes)], NEW t \in Threads, NEW kind \in Kinds,
           NEW b, NEW p, p \in [Threads -> Sends], SentOK(td, b, p), p[t] = "none",
           NEW tc, tc = WithDone(td, t), NEW pk, pk = WithValue(p, t, kind)
    PROVE  /\ pk \in [Threads -> Sends] /\ pk[t] = kind
           /\ \A w \in Threads \ {t} : pk[w] = p[w] /\ tc[w] = td[w]
           /\ SentOK(tc, b, pk)
           /\ Has(td[t], "node") => Before(tc[t], "node", "complete")
<1> DEFINE q == td[t]
           r == Append(q, "complete")
<1>1. t \in Lists /\ Threads \subseteq Lists /\ q \in Seq(WorkTypes) /\ kind # "none"
  BY DEF Lists, Kinds
<1>2. ~ Has(q, "complete") /\ ~ Has(b[t], "BR_TRANSACTION_COMPLETE")
  BY DEF SentOK
<1>3. tc = [td EXCEPT ![t] = r]
  BY DEF WithDone
<1> HIDE DEF q
<1>4. /\ r \in Seq(WorkTypes) /\ Has(r, "complete")
      /\ ~ Has(q, "complete") => Single(r, "complete")
      /\ Has(q, "node") => Before(r, "node", "complete")
  BY <1>1, CompleteLast
<1> HIDE DEF r
<1>5. tc[t] = r /\ \A w \in Threads \ {t} : tc[w] = td[w]
  BY <1>1, <1>3
<1>6. /\ pk \in [Threads -> Sends] /\ pk[t] = kind
      /\ \A w \in Threads \ {t} : pk[w] = p[w]
  BY DEF WithValue, Sends
<1>7. SentOK(tc, b, pk)
  <2> SUFFICES ASSUME NEW w \in Threads
               PROVE  /\ Single(tc[w], "complete") /\ Single(b[w], "BR_TRANSACTION_COMPLETE")
                      /\ ~ (Has(tc[w], "complete") /\ Has(b[w], "BR_TRANSACTION_COMPLETE"))
                      /\ pk[w] = "none" => /\ ~ Has(tc[w], "complete")
                                           /\ ~ Has(b[w], "BR_TRANSACTION_COMPLETE")
    BY DEF SentOK
  <2>1. CASE w # t
    BY <1>5, <1>6, <2>1 DEF SentOK
  <2>2. CASE w = t
    <3>1. Single(b[w], "BR_TRANSACTION_COMPLETE")
      BY DEF SentOK
    <3> QED BY <1>1, <1>2, <1>4, <1>5, <1>6, <2>2, <3>1
  <2> QED BY <2>1, <2>2
<1> QED BY <1>4, <1>5, <1>6, <1>7 DEF q

\* Setting a list of the driver
LEMMA ListSet ==
    ASSUME NEW s \in Drivers, NEW l \in Lists, NEW q \in Seq(WorkTypes),
           NEW r, r = [s EXCEPT !.todo[l] = q]
    PROVE  r.node = s.node /\ r.ref = s.ref /\ r.todo = [s.todo EXCEPT ![l] = q]
BY DEF Drivers

\* A thread sends the object: it keeps it until it knows that this is done.
LEMMA SendBinderKept ==
    ASSUME BInv, KInv, NEW t \in Threads, NEW c \in Clients, NEW kind \in Kinds,
           SendBinder(t, c, kind)
    PROVE  KInv'
<1> DEFINE a == Handed(SendNode(k), c, kind, t)
           q == Append(a.todo[t], "complete")
           r == k'
           p == parcel
           pk == parcel'
<1>0. /\ up /\ parcel[t] = "none" /\ r = [a EXCEPT !.todo[t] = q]
      /\ pk = [p EXCEPT ![t] = kind] /\ up' = up /\ brs' = brs /\ user' = user
  BY DEF SendBinder, SendNode
<1>1. Kept(k, brs, p, user) /\ up = TRUE
  BY <1>0, InvOwned DEF KInv
<1>2. /\ Owned(a) /\ SameMarks(a.node, k.node) /\ DoneSame(k.todo, a.todo)
      /\ kind = "weak" => (Wanted(a.node) => Wanted(k.node))
      /\ \/ /\ a.todo = k.todo
            /\ Wanted(a.node) /\ ~ k.node.has_strong_ref => Wanted(k.node)
         \/ /\ a.todo = Moves(k.todo, t) /\ Has(a.todo[t], "node")
            /\ kind = "weak" => ~ OnList(k.todo)
  BY <1>0, SendStart
<1> HIDE DEF a, r, pk, p
<1>3. a \in Drivers /\ a.todo \in [Lists -> Seq(WorkTypes)] /\ t \in Lists /\ Threads \subseteq Lists
  BY <1>2 DEF Owned, Drivers, Lists
<1>4. q \in Seq(WorkTypes)
  BY <1>3 DEF WorkTypes
<1>5. r.node = a.node /\ r.todo = [a.todo EXCEPT ![t] = q]
  <2> HIDE DEF q
  <2> QED BY <1>0, <1>3, <1>4, ListSet
<1>6. SentOK(k.todo, brs, p) /\ ToAsk(k, p) /\ AskedFor(k, brs, p) /\ OwedOK(k.node, brs, user)
      /\ p \in [Threads -> Sends]
  BY <1>1 DEF Kept
<1>7. SentOK(a.todo, brs, p)
  BY <1>2, <1>6 DEF SentOK, DoneSame
<1>8. p[t] = "none"
  BY <1>0 DEF p
<1>9. /\ pk \in [Threads -> Sends] /\ pk[t] = kind
      /\ \A w \in Threads \ {t} : pk[w] = p[w] /\ r.todo[w] = a.todo[w]
      /\ SentOK(r.todo, brs, pk)
      /\ Has(a.todo[t], "node") => Before(r.todo[t], "node", "complete")
  <2> DEFINE td == a.todo
             tc == r.todo
  <2>1. td \in [Lists -> Seq(WorkTypes)] /\ SentOK(td, brs, p)
        /\ tc = WithDone(td, t)
        /\ p \in [Threads -> Sends] /\ p[t] = "none" /\ pk = WithValue(p, t, kind)
        /\ t \in Threads /\ kind \in Kinds
    BY <1>0, <1>3, <1>5, <1>6, <1>7, <1>8 DEF WithDone, WithValue
  <2> HIDE DEF td, tc
  <2>2. /\ pk \in [Threads -> Sends] /\ pk[t] = kind
        /\ \A w \in Threads \ {t} : pk[w] = p[w] /\ tc[w] = td[w]
        /\ SentOK(tc, brs, pk)
        /\ Has(td[t], "node") => Before(tc[t], "node", "complete")
    BY ONLY <2>1, SentMore
  <2> QED BY <2>2 DEF td, tc
<1>10. OwedOK(r.node, brs, user)
  BY <1>2, <1>5, <1>6 DEF OwedOK, SameMarks
<1>11. ToAsk(r, pk)
  <2> SUFFICES ASSUME Wanted(r.node), ~ r.node.has_strong_ref
               PROVE  \E w \in Threads : pk[w] = "strong" /\ Before(r.todo[w], "node", "complete")
    BY DEF ToAsk
  <2>1. Wanted(a.node) /\ ~ k.node.has_strong_ref /\ (kind = "strong" \/ kind = "weak")
    BY <1>2, <1>5 DEF SameMarks, Kinds
  <2>2. CASE a.todo = Moves(k.todo, t) /\ Has(a.todo[t], "node") /\ kind = "strong"
    BY <1>9, <2>2
  <2>3. CASE a.todo = k.todo /\ Wanted(k.node)
    <3>1. PICK w \in Threads : p[w] = "strong" /\ Before(k.todo[w], "node", "complete")
      BY <1>6, <2>1, <2>3 DEF ToAsk
    <3>2. w # t
      BY <1>8, <3>1
    <3> QED BY <1>9, <2>3, <3>1, <3>2
  <2>4. CASE a.todo = Moves(k.todo, t) /\ kind = "weak" /\ ~ OnList(k.todo)
    <3>1. Wanted(k.node)
      BY <1>2, <2>1, <2>4
    <3>2. PICK w \in Threads : Before(k.todo[w], "node", "complete")
      BY <1>6, <2>1, <3>1 DEF ToAsk
    <3>3. OnList(k.todo)
      BY <1>3, <3>2 DEF OnList, Before
    <3> QED BY <2>4, <3>3
  <2> QED BY <1>2, <2>1, <2>2, <2>3, <2>4
<1>12. AskedFor(r, brs, pk)
  <2> SUFFICES ASSUME r.node.pending_strong_ref
               PROVE  \E w \in Threads :
                         /\ pk[w] = "strong" /\ Has(brs[w], "BR_ACQUIRE")
                         /\ \/ Has(r.todo[w], "complete")
                            \/ Before(brs[w], "BR_ACQUIRE", "BR_TRANSACTION_COMPLETE")
    BY DEF AskedFor
  <2>1. k.node.pending_strong_ref
    BY <1>2, <1>5 DEF SameMarks
  <2>2. PICK w \in Threads : /\ p[w] = "strong" /\ Has(brs[w], "BR_ACQUIRE")
                             /\ \/ Has(k.todo[w], "complete")
                                \/ Before(brs[w], "BR_ACQUIRE", "BR_TRANSACTION_COMPLETE")
    BY <1>6, <2>1 DEF AskedFor
  <2>3. w # t
    BY <1>8, <2>2
  <2>4. pk[w] = "strong" /\ (Has(r.todo[w], "complete") <=> Has(k.todo[w], "complete"))
    BY <1>2, <1>9, <2>2, <2>3 DEF DoneSame
  <2> QED BY <2>2, <2>4
<1>13. Kept(r, brs, pk, user)
  BY <1>1, <1>9, <1>10, <1>11, <1>12 DEF Kept
<1> QED BY <1>0, <1>1, <1>13 DEF KInv, r, pk

\* A send that fails leaves the work with a thread that is to ask for the
\* reference, as long as there is one: it does not take it from another.
LEMMA SendFailsKept ==
    ASSUME BInv, KInv, ~ Steals, NEW t \in Threads, NEW c \in Clients, NEW kind \in Kinds,
           SendFails(t, c, kind)
    PROVE  KInv'
<1> DEFINE a == Handed(SendNode(k), c, kind, t)
           r == k'
           strong == kind = "strong"
<1>0. /\ up /\ parcel[t] = "none" /\ r = binder_dec_ref(a, c, strong) /\ strong \in BOOLEAN
      /\ \A w \in Threads \ {t} : \A i \in DOMAIN k.todo[w] : k.todo[w][i] # "node"
      /\ up' = up /\ brs' = brs /\ parcel' = parcel /\ user' = user
      /\ held' = held /\ used' = used /\ obuf' = obuf
  BY DEF SendFails, SendNode, ownerVars, clientVars
<1>1. BInv'
  BY SendFailsStep
<1>2. Owned(a) /\ SameMarks(a.node, k.node) /\ DoneSame(k.todo, a.todo)
  BY <1>0, SendStart
<1> HIDE DEF a, r, strong
<1>3. Eases(a, r)
  BY <1>0, <1>2, DriversLoose, DecRefEases DEF Owned
<1>4. SameMarks(r.node, k.node) /\ DoneSame(k.todo, r.todo)
  <2>1. SameMarks(r.node, a.node) /\ DoneSame(a.todo, r.todo)
    BY <1>2, <1>3, EasesMarks
  <2> QED BY <1>2, <2>1 DEF SameMarks, DoneSame
<1>5. Kept(k, brs, parcel, user) /\ up = TRUE
  BY <1>0, InvOwned DEF KInv
<1>6. ~ (Wanted(k.node) /\ ~ k.node.has_strong_ref)
  <2> SUFFICES ASSUME Wanted(k.node), ~ k.node.has_strong_ref
               PROVE  FALSE
    OBVIOUS
  <2>1. PICK w \in Threads : parcel[w] = "strong" /\ Before(k.todo[w], "node", "complete")
    BY <1>5 DEF Kept, ToAsk
  <2>2. w = t
    BY <1>0, <2>1 DEF Before
  <2> QED BY <1>0, <2>1, <2>2
<1>7. ~ k.node.has_strong_ref => (Wanted(r.node) <=> Wanted(k.node))
  <2> SUFFICES ASSUME ~ k.node.has_strong_ref
               PROVE  Wanted(r.node) <=> Wanted(k.node)
    OBVIOUS
  <2>1. /\ Sound(k) /\ RefsOK(k, held, used, up) /\ NodeOK(k, obuf, up)
        /\ Sound(r) /\ RefsOK(r, held, used, up) /\ NodeOK(r, obuf, up)
    BY <1>0, <1>1 DEF BInv, r
  <2>2. Strong(r.ref) = Strong(k.ref)
    BY <2>1 DEF RefsOK, Strong
  <2>3. r.node.internal_strong_refs = k.node.internal_strong_refs
    BY <2>1, <2>2 DEF Sound, RefsThere
  <2>4. ~ k.node.pending_strong_ref /\ ~ r.node.pending_strong_ref
    BY <1>4, <2>1 DEF Sound, FlagsOK, SameMarks
  <2>5. r.node.local_strong_refs = k.node.local_strong_refs
    BY <2>1, <2>4 DEF NodeOK, One
  <2> QED BY <2>3, <2>5 DEF Wanted
<1>8. ToAsk(r, parcel)
  BY <1>4, <1>6, <1>7 DEF ToAsk, SameMarks
<1>9. Kept(r, brs, parcel, user)
  BY <1>4, <1>5, <1>8, KeptIf
<1> QED BY <1>0, <1>5, <1>9 DEF KInv, r

-----------------------------------------------------------------------------
(* The owner's threads *)

\* One that reads or handles commands has an owner that lives.
LEMMA ThreadsLive ==
    ASSUME BInv, KInv, NEW t \in Threads
    PROVE  \/ k.todo[t] # <<>> \/ k.todo[Work(t)] # <<>> \/ brs[t] # <<>> =>
                 /\ up /\ up = TRUE /\ Owned(k) /\ Sound(k) /\ NodeOK(k, obuf, TRUE)
                 /\ Kept(k, brs, parcel, user)
<1>0. t \in Lists /\ Work(t) \in Lists
  BY DEF Work, Lists
<1>1. CASE up
  BY <1>1, InvOwned DEF KInv, BInv
<1>2. CASE ~ up
  <2>1. k.todo[t] = <<>> /\ k.todo[Work(t)] = <<>> /\ brs[t] = <<>>
    BY <1>0, <1>2 DEF BInv, NodeOK, OwnerOK, Empty
  <2> QED BY <2>1
<1> QED BY <1>1, <1>2

\* The commands of a list with one more
LEMMA CommandLast ==
    ASSUME NEW q \in Seq(Commands), NEW x \in Commands, NEW r, r = Append(q, x)
    PROVE  \A y \in Commands :
              /\ (Has(q, y) => Has(r, y)) /\ (Has(r, y) /\ x # y => Has(q, y))
              /\ (Single(q, y) /\ x # y => Single(r, y)) /\ (~ Has(q, y) => Single(r, y))
<1> SUFFICES ASSUME NEW y \in Commands
             PROVE  /\ (Has(q, y) => Has(r, y)) /\ (Has(r, y) /\ x # y => Has(q, y))
                    /\ (Single(q, y) /\ x # y => Single(r, y)) /\ (~ Has(q, y) => Single(r, y))
  OBVIOUS
<1> QED BY HasAppend

\* A thread that reads command x has the commands it had, and x.
LEMMA ReadsMore ==
    ASSUME NEW b, b \in [Threads -> Seq(Commands)], NEW t \in Threads, NEW x \in Commands,
           NEW d, d = WithCommand(b, t, x)
    PROVE  /\ d \in [Threads -> Seq(Commands)] /\ Has(d[t], x)
           /\ \A w \in Threads \ {t} : d[w] = b[w]
           /\ \A y \in Commands :
                 /\ Has(b[t], y) => Has(d[t], y)
                 /\ Has(d[t], y) /\ x # y => Has(b[t], y)
                 /\ Single(b[t], y) /\ x # y => Single(d[t], y)
                 /\ ~ Has(b[t], y) => Single(d[t], y)
           /\ \A y, z \in Commands :
                 /\ Before(b[t], y, z) => Before(d[t], y, z)
                 /\ Has(b[t], y) /\ x = z => Before(d[t], y, z)
<1> DEFINE q == b[t]
           r == Append(q, x)
<1>1. q \in Seq(Commands) /\ d = [b EXCEPT ![t] = r]
  BY DEF WithCommand
<1> HIDE DEF q
<1>2. r \in Seq(Commands)
  BY <1>1
<1>3. \A y \in Commands :
        /\ Has(r, x) /\ (Has(q, y) => Has(r, y)) /\ (Has(r, y) /\ x # y => Has(q, y))
        /\ (Single(q, y) /\ x # y => Single(r, y)) /\ (~ Has(q, y) => Single(r, y))
  <2>1. q \in Seq(Commands) /\ x \in Commands /\ r = Append(q, x)
    BY <1>1
  <2> HIDE DEF r
  <2>2. Has(r, x)
    BY ONLY <2>1, HasAppend
  <2>3. \A y \in Commands : (Has(q, y) => Has(r, y)) /\ (Has(r, y) /\ x # y => Has(q, y))
    BY ONLY <2>1, CommandLast
  <2>4. \A y \in Commands : (Single(q, y) /\ x # y => Single(r, y)) /\ (~ Has(q, y) => Single(r, y))
    BY ONLY <2>1, CommandLast
  <2> QED BY <2>2, <2>3, <2>4
<1>4. \A y, z \in Commands :
        /\ Before(q, y, z) => Before(r, y, z)
        /\ Has(q, y) /\ x = z => Before(r, y, z)
  BY <1>1, BeforeAppend
<1> HIDE DEF r
<1>5. d \in [Threads -> Seq(Commands)] /\ d[t] = r /\ \A w \in Threads \ {t} : d[w] = b[w]
  BY <1>1, <1>2
<1> QED BY <1>3, <1>4, <1>5 DEF q

\* One that handles its first command has the others left.
LEMMA HandlesOne ==
    ASSUME NEW b, b \in [Threads -> Seq(Commands)], NEW t \in Threads, b[t] # <<>>,
           NEW d, d = WithoutFirst(b, t)
    PROVE  /\ d \in [Threads -> Seq(Commands)] /\ Head(b[t]) \in Commands /\ Has(b[t], Head(b[t]))
           /\ \A w \in Threads \ {t} : d[w] = b[w]
           /\ \A y \in Commands :
                 /\ Has(d[t], y) => Has(b[t], y)
                 /\ Has(b[t], y) /\ Head(b[t]) # y => Has(d[t], y)
                 /\ Single(b[t], y) => Single(d[t], y)
                 /\ Single(b[t], y) /\ Head(b[t]) = y => ~ Has(d[t], y)
           /\ \A y, z \in Commands :
                 /\ Before(b[t], y, z) /\ Head(b[t]) # y => Before(d[t], y, z)
                 /\ Before(b[t], y, z) /\ Single(b[t], z) => Head(b[t]) # z
<1> DEFINE q == b[t]
           r == Tail(q)
<1>1. q \in Seq(Commands) /\ q # <<>> /\ d = [b EXCEPT ![t] = r]
  BY DEF WithoutFirst
<1> HIDE DEF q
<1>2. r \in Seq(Commands) /\ Head(q) \in Commands
  BY <1>1
<1>3. Has(q, Head(q))
  BY <1>1, <1>2, HasTail
<1>4. \A y \in Commands :
        /\ Has(r, y) => Has(q, y)
        /\ Has(q, y) /\ Head(q) # y => Has(r, y)
        /\ Single(q, y) => Single(r, y)
        /\ Single(q, y) /\ Head(q) = y => ~ Has(r, y)
  BY <1>1, HasTail
<1>5. \A y, z \in Commands :
        /\ Before(q, y, z) /\ Head(q) # y => Before(r, y, z)
        /\ Before(q, y, z) /\ Single(q, z) => Head(q) # z
  BY <1>1, BeforeTail
<1> HIDE DEF r
<1>6. d \in [Threads -> Seq(Commands)] /\ d[t] = r /\ \A w \in Threads \ {t} : d[w] = b[w]
  BY <1>1, <1>2
<1> QED BY <1>2, <1>3, <1>4, <1>5, <1>6 DEF q

\* How many of each command there are then
LEMMA CountsRead ==
    ASSUME NEW b, b \in [Threads -> Seq(Commands)], NEW t \in Threads, NEW x \in Commands,
           NEW d, d = WithCommand(b, t, x),
           \A br \in Commands : IsFiniteSet(Cmds(b, br))
    PROVE  \A br \in Commands :
              /\ IsFiniteSet(Cmds(d, br)) /\ Cardinality(Cmds(b, br)) \in Nat
              /\ x # br => Cardinality(Cmds(d, br)) = Cardinality(Cmds(b, br))
              /\ x = br => Cardinality(Cmds(d, br)) = Cardinality(Cmds(b, br)) + 1
<1> TAKE br \in Commands
<1> QED BY CmdsAppend

LEMMA CountsHandled ==
    ASSUME NEW b, b \in [Threads -> Seq(Commands)], NEW t \in Threads, b[t] # <<>>,
           NEW d, d = WithoutFirst(b, t),
           \A br \in Commands : IsFiniteSet(Cmds(b, br))
    PROVE  \A br \in Commands :
              /\ IsFiniteSet(Cmds(d, br)) /\ Cardinality(Cmds(b, br)) \in Nat
              /\ Head(b[t]) # br => Cardinality(Cmds(d, br)) = Cardinality(Cmds(b, br))
              /\ Head(b[t]) = br => Cardinality(Cmds(d, br)) = Cardinality(Cmds(b, br)) - 1
<1> TAKE br \in Commands
<1> QED BY CmdsTail

\* The first work of a list is read.
Popping(todo, l) == [todo EXCEPT ![l] = Tail(@)]

LEMMA PopDone ==
    ASSUME NEW todo \in [Lists -> Seq(WorkTypes)], NEW l \in Lists, todo[l] # <<>>,
           NEW td, td = Popping(todo, l)
    PROVE  /\ td \in [Lists -> Seq(WorkTypes)] /\ \A w \in Lists \ {l} : td[w] = todo[w]
           /\ Head(todo[l]) = "node" => DoneSame(todo, td)
           /\ Head(todo[l]) = "complete" => Has(todo[l], "complete")
           /\ Single(todo[l], "complete") => Single(td[l], "complete")
           /\ Single(todo[l], "complete") /\ Head(todo[l]) = "complete" =>
                 /\ ~ Has(td[l], "complete") /\ ~ Before(todo[l], "node", "complete")
<1> DEFINE q == todo[l]
           r == Tail(q)
           x == "complete"
           y == "node"
<1>1. q \in Seq(WorkTypes) /\ q # <<>> /\ x \in WorkTypes /\ y \in WorkTypes /\ x # y
  BY DEF WorkTypes
<1>2. td = [todo EXCEPT ![l] = r]
  BY DEF Popping
<1> HIDE DEF q, x, y
<1>3. /\ r \in Seq(WorkTypes) /\ Has(q, Head(q)) /\ (Has(r, x) => Has(q, x))
      /\ (Has(q, x) /\ Head(q) # x => Has(r, x)) /\ (Single(q, x) => Single(r, x))
      /\ (Single(q, x) /\ Head(q) = x => ~ Has(r, x))
  BY <1>1, HasTail
<1>4. Before(q, y, x) /\ Single(q, x) => Head(q) # x
  BY <1>1, BeforeTail
<1> HIDE DEF r
<1>5. td \in [Lists -> Seq(WorkTypes)] /\ td[l] = r /\ \A w \in Lists \ {l} : td[w] = todo[w]
  BY <1>2, <1>3
<1>6. ASSUME Head(q) = y
      PROVE  DoneSame(todo, td)
  <2>1. (Has(td[l], "complete") <=> Has(todo[l], "complete"))
        /\ (Single(todo[l], "complete") => Single(td[l], "complete"))
    BY <1>1, <1>3, <1>5, <1>6 DEF q, x
  <2> QED BY <1>5, <2>1 DEF DoneSame, Lists
<1> QED BY <1>3, <1>4, <1>5, <1>6 DEF q, x, y

\* What the owner has been asked for is the same when a thread reads that its
\* transaction is done.
LEMMA OwedComplete ==
    ASSUME NEW n, NEW b, NEW u, OwedOK(n, b, u), b \in [Threads -> Seq(Commands)],
           NEW t \in Threads, NEW d, d = WithCommand(b, t, "BR_TRANSACTION_COMPLETE")
    PROVE  OwedOK(n, d, u)
<1> DEFINE x == "BR_TRANSACTION_COMPLETE"
<1>1. x \in Commands /\ \A br \in Commands : IsFiniteSet(Cmds(b, br))
  BY DEF OwedOK, Commands
<1>2. d = WithCommand(b, t, x)
  OBVIOUS
<1> HIDE DEF x
<1>3. \A br \in Commands :
         /\ IsFiniteSet(Cmds(d, br))
         /\ x # br => Cardinality(Cmds(d, br)) = Cardinality(Cmds(b, br))
  BY <1>1, <1>2, CountsRead
<1>4. /\ Cardinality(Cmds(d, "BR_ACQUIRE")) = Cardinality(Cmds(b, "BR_ACQUIRE"))
      /\ Cardinality(Cmds(d, "BR_INCREFS")) = Cardinality(Cmds(b, "BR_INCREFS"))
      /\ Cardinality(Cmds(d, "BR_RELEASE")) = Cardinality(Cmds(b, "BR_RELEASE"))
      /\ Cardinality(Cmds(d, "BR_DECREFS")) = Cardinality(Cmds(b, "BR_DECREFS"))
  BY <1>3 DEF x, Commands
<1> QED BY <1>3, <1>4 DEF OwedOK

\* BINDER_WORK_TRANSACTION_COMPLETE: a thread that has read BR_ACQUIRE handles
\* it first, one that is to read it does so before.
LEMMA ReadCompleteKept ==
    ASSUME BInv, KInv, NEW t \in Threads, ReadComplete(t)
    PROVE  KInv'
<1> DEFINE d == brs'
           r == k'
           td == Popping(k.todo, t)
           x == "BR_TRANSACTION_COMPLETE"
           y == "BR_ACQUIRE"
<1>0. /\ k.todo[t] # <<>> /\ Head(k.todo[t]) = "complete" /\ r = [k EXCEPT !.todo = td]
      /\ d = WithCommand(brs, t, x)
      /\ up' = up /\ parcel' = parcel /\ user' = user /\ x \in Commands /\ y \in Commands /\ x # y
  BY DEF ReadComplete, Reads, Commands, WithCommand, Popping
<1>1. up /\ up = TRUE /\ Kept(k, brs, parcel, user) /\ k \in Drivers
  BY <1>0, ThreadsLive DEF Owned
<1>2. t \in Lists /\ k.todo \in [Lists -> Seq(WorkTypes)] /\ Threads \subseteq Lists
  BY <1>1 DEF Drivers, Lists
<1>3. /\ td \in [Lists -> Seq(WorkTypes)] /\ (\A w \in Lists \ {t} : td[w] = k.todo[w])
      /\ Has(k.todo[t], "complete")
      /\ Single(k.todo[t], "complete") => Single(td[t], "complete")
      /\ Single(k.todo[t], "complete") =>
            /\ ~ Has(td[t], "complete") /\ ~ Before(k.todo[t], "node", "complete")
  BY ONLY <1>0, <1>2, PopDone
<1>4. brs \in [Threads -> Seq(Commands)] /\ OwedOK(k.node, brs, user)
      /\ SentOK(k.todo, brs, parcel) /\ ToAsk(k, parcel) /\ AskedFor(k, brs, parcel)
      /\ parcel \in [Threads -> Sends] /\ user \in [Kinds -> Int]
  BY <1>1 DEF Kept
<1>5. OwedOK(k.node, d, user)
  BY <1>0, <1>4, OwedComplete
<1> HIDE DEF td
<1>6. r.node = k.node /\ r.todo = td
  BY <1>0, <1>1 DEF Drivers
<1> HIDE DEF d, r, x, y
<1>7. /\ d \in [Threads -> Seq(Commands)]
      /\ \A w \in Threads \ {t} : d[w] = brs[w]
      /\ \A a \in Commands :
            /\ Has(brs[t], a) => Has(d[t], a)
            /\ ~ Has(brs[t], a) => Single(d[t], a)
      /\ \A a, z \in Commands : Has(brs[t], a) /\ x = z => Before(d[t], a, z)
  BY ONLY <1>0, <1>4, t \in Threads, ReadsMore
<1>8. SentOK(td, d, parcel)
  <2> SUFFICES ASSUME NEW w \in Threads
               PROVE  /\ Single(td[w], "complete") /\ Single(d[w], x)
                      /\ ~ (Has(td[w], "complete") /\ Has(d[w], x))
                      /\ parcel[w] = "none" => ~ Has(td[w], "complete") /\ ~ Has(d[w], x)
    BY DEF SentOK, x
  <2>0. \A v \in Threads :
          /\ Single(k.todo[v], "complete") /\ Single(brs[v], x)
          /\ ~ (Has(k.todo[v], "complete") /\ Has(brs[v], x))
          /\ parcel[v] = "none" => ~ Has(k.todo[v], "complete") /\ ~ Has(brs[v], x)
    BY <1>4 DEF SentOK, x
  <2>1. CASE w # t
    BY <1>2, <1>3, <1>7, <2>0, <2>1
  <2>2. CASE w = t
    <3>1. ~ Has(brs[t], x) /\ parcel[t] # "none"
      BY <1>3, <2>0
    <3>2. Single(d[t], x)
      BY <1>0, <1>7, <3>1
    <3> QED BY <1>3, <2>0, <2>2, <3>1, <3>2
  <2> QED BY <2>1, <2>2
<1>9. ToAsk(r, parcel)
  <2>1. Single(k.todo[t], "complete")
    BY <1>4 DEF SentOK
  <2> SUFFICES ASSUME Wanted(k.node), ~ k.node.has_strong_ref
               PROVE  \E w \in Threads : parcel[w] = "strong" /\ Before(td[w], "node", "complete")
    BY <1>6 DEF ToAsk
  <2>2. PICK w \in Threads : parcel[w] = "strong" /\ Before(k.todo[w], "node", "complete")
    BY <1>4 DEF ToAsk
  <2>3. w # t
    BY <1>3, <2>1, <2>2
  <2> QED BY <1>2, <1>3, <2>2, <2>3
<1>10. AskedFor(r, d, parcel)
  <2> SUFFICES ASSUME k.node.pending_strong_ref
               PROVE  \E w \in Threads :
                        /\ parcel[w] = "strong" /\ Has(d[w], y)
                        /\ Has(td[w], "complete") \/ Before(d[w], y, x)
    BY <1>6 DEF AskedFor, x, y
  <2>1. PICK w \in Threads : /\ parcel[w] = "strong" /\ Has(brs[w], y)
                             /\ Has(k.todo[w], "complete") \/ Before(brs[w], y, x)
    BY <1>4 DEF AskedFor, x, y
  <2>2. CASE w # t
    BY <1>2, <1>3, <1>7, <2>1, <2>2
  <2>3. CASE w = t
    BY <1>0, <1>7, <2>1, <2>3
  <2> QED BY <2>2, <2>3
<1>11. Kept(r, d, parcel, user)
  BY <1>4, <1>5, <1>6, <1>7, <1>8, <1>9, <1>10 DEF Kept
<1> QED BY <1>0, <1>1, <1>11 DEF KInv, r, d

SameStrong(m, n) ==
    m.has_strong_ref = n.has_strong_ref /\ m.pending_strong_ref = n.pending_strong_ref
SameWeak(m, n) ==
    m.has_weak_ref = n.has_weak_ref /\ m.pending_weak_ref = n.pending_weak_ref

\* What each command does to the marks of the node
Told(n, m, x) ==
    \/ /\ x = "BR_INCREFS" /\ ~ n.has_weak_ref /\ m.has_weak_ref /\ m.pending_weak_ref
       /\ SameStrong(m, n)
    \/ /\ x = "BR_ACQUIRE" /\ ~ n.has_strong_ref /\ m.has_strong_ref /\ m.pending_strong_ref
       /\ SameWeak(m, n) /\ Wanted(n)
    \/ /\ x = "BR_RELEASE" /\ n.has_strong_ref /\ ~ n.pending_strong_ref
       /\ ~ m.has_strong_ref /\ ~ m.pending_strong_ref /\ SameWeak(m, n)
    \/ /\ x = "BR_DECREFS" /\ n.has_weak_ref /\ ~ n.pending_weak_ref
       /\ ~ m.has_weak_ref /\ ~ m.pending_weak_ref /\ SameStrong(m, n)

LEMMA CommandMarks ==
    ASSUME NEW n \in Nodes, FlagsOK(n), n.there, n.proc, NEW o, Counts(n, o),
           NEW strong \in BOOLEAN, NEW weak \in BOOLEAN, strong => weak,
           strong <=> Wanted(n),
           ~ strong => n.local_strong_refs = 0, ~ weak => n.local_weak_refs = 0,
           NEW c, c = NodeCommand(n, strong, weak)
    PROVE  /\ c.br # "BR_NOOP" =>
                 /\ Told(n, c.node, c.br)
                 /\ Wanted(c.node) /\ ~ c.node.has_strong_ref => Wanted(n) /\ ~ n.has_strong_ref
           /\ c.br = "BR_NOOP" =>
                 (strong => n.has_strong_ref) /\ (~ weak => ~ n.has_strong_ref /\ ~ n.has_weak_ref)
<1> DEFINE m == c.node
           a == One(n.proc /\ n.pending_strong_ref)
           b == One(n.proc /\ n.pending_weak_ref)
<1>0. /\ o.strong \in Nat /\ o.weak \in Nat /\ o \in [Kinds -> Nat] /\ a \in Nat /\ b \in Nat
      /\ n.local_strong_refs = o.strong + a /\ n.local_weak_refs = o.weak + b
  BY CountsSame DEF Counts, Kinds, SameFlags
<1>2. CASE weak /\ ~ n.has_weak_ref
  <2> DEFINE x == n.local_weak_refs + 1
  <2>1. /\ m = [n EXCEPT !.has_weak_ref = TRUE, !.pending_weak_ref = TRUE, !.local_weak_refs = x]
        /\ c.br = "BR_INCREFS" /\ x \in Nat
    BY <1>2 DEF NodeCommand, Nodes
  <2> HIDE DEF m, x
  <2>2. /\ m.has_weak_ref /\ m.pending_weak_ref
        /\ m.internal_strong_refs = n.internal_strong_refs
        /\ m.local_strong_refs = n.local_strong_refs
        /\ m.has_strong_ref = n.has_strong_ref /\ m.pending_strong_ref = n.pending_strong_ref
    BY <2>1 DEF Nodes
  <2>3. Told(n, m, c.br) /\ (Wanted(m) <=> Wanted(n))
    BY <1>2, <2>1, <2>2 DEF Told, SameStrong, Wanted
  <2> QED BY <2>1, <2>2, <2>3 DEF m
<1>3. CASE ~ (weak /\ ~ n.has_weak_ref) /\ strong /\ ~ n.has_strong_ref
  <2> DEFINE x == n.local_strong_refs + 1
  <2>1. /\ m = [n EXCEPT !.has_strong_ref = TRUE, !.pending_strong_ref = TRUE, !.local_strong_refs = x]
        /\ c.br = "BR_ACQUIRE" /\ x \in Nat
    BY <1>3 DEF NodeCommand, Nodes
  <2> HIDE DEF m, x
  <2>2. /\ m.has_strong_ref /\ m.pending_strong_ref
        /\ m.has_weak_ref = n.has_weak_ref /\ m.pending_weak_ref = n.pending_weak_ref
    BY <2>1 DEF Nodes
  <2>3. Told(n, m, c.br)
    BY <1>3, <2>1, <2>2 DEF Told, SameWeak
  <2> QED BY <2>1, <2>2, <2>3 DEF m
<1>4. CASE /\ ~ (weak /\ ~ n.has_weak_ref) /\ ~ (strong /\ ~ n.has_strong_ref)
           /\ ~ strong /\ n.has_strong_ref
  <2>1. m = [n EXCEPT !.has_strong_ref = FALSE] /\ c.br = "BR_RELEASE"
    BY <1>4 DEF NodeCommand
  <2> HIDE DEF m
  <2>2. /\ ~ m.has_strong_ref /\ m.pending_strong_ref = n.pending_strong_ref
        /\ m.internal_strong_refs = n.internal_strong_refs
        /\ m.local_strong_refs = n.local_strong_refs
        /\ m.has_weak_ref = n.has_weak_ref /\ m.pending_weak_ref = n.pending_weak_ref
    BY <2>1 DEF Nodes
  <2>3. a = 0
    <3>1. 0 = o.strong + a
      BY <1>0, <1>4
    <3> HIDE DEF a
    <3> QED BY <1>0, <3>1
  <2>4. ~ n.pending_strong_ref
    BY <2>3 DEF One
  <2>5. Told(n, m, c.br) /\ ~ Wanted(m)
    BY <1>4, <2>1, <2>2, <2>4 DEF Told, SameWeak, Wanted
  <2> QED BY <2>1, <2>5 DEF m
<1>5. CASE /\ ~ (weak /\ ~ n.has_weak_ref) /\ ~ (strong /\ ~ n.has_strong_ref)
           /\ ~ (~ strong /\ n.has_strong_ref) /\ ~ weak /\ n.has_weak_ref
  <2>1. m = [n EXCEPT !.has_weak_ref = FALSE] /\ c.br = "BR_DECREFS"
    BY <1>5 DEF NodeCommand
  <2> HIDE DEF m
  <2>2. /\ ~ m.has_weak_ref /\ m.pending_weak_ref = n.pending_weak_ref
        /\ m.internal_strong_refs = n.internal_strong_refs
        /\ m.local_strong_refs = n.local_strong_refs
        /\ m.has_strong_ref = n.has_strong_ref /\ m.pending_strong_ref = n.pending_strong_ref
    BY <2>1 DEF Nodes
  <2>3. b = 0
    <3>1. 0 = o.weak + b
      BY <1>0, <1>5
    <3> HIDE DEF b
    <3> QED BY <1>0, <3>1
  <2>4. ~ n.pending_weak_ref
    BY <2>3 DEF One
  <2>5. Told(n, m, c.br) /\ (Wanted(m) <=> Wanted(n))
    BY <1>5, <2>1, <2>2, <2>4 DEF Told, SameStrong, Wanted
  <2> QED BY <2>1, <2>2, <2>5 DEF m
<1>6. CASE /\ ~ (weak /\ ~ n.has_weak_ref) /\ ~ (strong /\ ~ n.has_strong_ref)
           /\ ~ (~ strong /\ n.has_strong_ref) /\ ~ (~ weak /\ n.has_weak_ref)
  <2>1. m = n /\ c.br = "BR_NOOP"
    BY <1>6 DEF NodeCommand
  <2> QED BY <1>6, <2>1
<1> QED BY <1>2, <1>3, <1>4, <1>5, <1>6

\* The owner's references after it was told
LEMMA OwedTold ==
    ASSUME NEW n, NEW m, NEW b, NEW u, OwedOK(n, b, u), b \in [Threads -> Seq(Commands)],
           u \in [Kinds -> Int], FlagsOK(n), NEW t \in Threads, NEW x, Told(n, m, x),
           NEW d, d = WithCommand(b, t, x)
    PROVE  OwedOK(m, d, u)
<1>0. /\ x \in Commands
      /\ "BR_ACQUIRE" \in Commands /\ "BR_INCREFS" \in Commands
      /\ "BR_RELEASE" \in Commands /\ "BR_DECREFS" \in Commands
  BY DEF Told, Commands
<1>1. \A br \in Commands :
         /\ IsFiniteSet(Cmds(d, br)) /\ Cardinality(Cmds(b, br)) \in Nat
         /\ x # br => Cardinality(Cmds(d, br)) = Cardinality(Cmds(b, br))
         /\ x = br => Cardinality(Cmds(d, br)) = Cardinality(Cmds(b, br)) + 1
  <2>1. /\ \A br \in Commands : IsFiniteSet(Cmds(b, br))
        /\ b \in [Threads -> Seq(Commands)] /\ t \in Threads /\ d = WithCommand(b, t, x)
    BY DEF OwedOK
  <2> QED BY ONLY <1>0, <2>1, CountsRead
<1> DEFINE A == Cardinality(Cmds(b, "BR_ACQUIRE"))
           I == Cardinality(Cmds(b, "BR_INCREFS"))
           R == Cardinality(Cmds(b, "BR_RELEASE"))
           D == Cardinality(Cmds(b, "BR_DECREFS"))
           A2 == Cardinality(Cmds(d, "BR_ACQUIRE"))
           I2 == Cardinality(Cmds(d, "BR_INCREFS"))
           R2 == Cardinality(Cmds(d, "BR_RELEASE"))
           D2 == Cardinality(Cmds(d, "BR_DECREFS"))
           us == u.strong
           uw == u.weak
<1>2. /\ A \in Nat /\ I \in Nat /\ R \in Nat /\ D \in Nat /\ us \in Int /\ uw \in Int
      /\ A2 = IF x = "BR_ACQUIRE" THEN A + 1 ELSE A
      /\ I2 = IF x = "BR_INCREFS" THEN I + 1 ELSE I
      /\ R2 = IF x = "BR_RELEASE" THEN R + 1 ELSE R
      /\ D2 = IF x = "BR_DECREFS" THEN D + 1 ELSE D
  BY <1>0, <1>1 DEF Kinds
<1>3. /\ A = One(n.pending_strong_ref) /\ I = One(n.pending_weak_ref)
      /\ us = R + One(n.has_strong_ref /\ ~ n.pending_strong_ref)
      /\ uw = D + One(n.has_weak_ref /\ ~ n.pending_weak_ref)
  BY DEF OwedOK
<1> SUFFICES /\ A2 = One(m.pending_strong_ref) /\ I2 = One(m.pending_weak_ref)
             /\ us = R2 + One(m.has_strong_ref /\ ~ m.pending_strong_ref)
             /\ uw = D2 + One(m.has_weak_ref /\ ~ m.pending_weak_ref)
  BY <1>1 DEF OwedOK
<1> HIDE DEF A, I, R, D, A2, I2, R2, D2, us, uw
<1>4. One(TRUE) = 1 /\ One(FALSE) = 0
  BY DEF One
<1>5. CASE x = "BR_INCREFS"
  <2>1. /\ ~ n.has_weak_ref /\ ~ n.pending_weak_ref /\ m.has_weak_ref /\ m.pending_weak_ref
        /\ m.has_strong_ref = n.has_strong_ref /\ m.pending_strong_ref = n.pending_strong_ref
    BY <1>5 DEF Told, SameStrong, FlagsOK
  <2>2. I = 0 /\ uw = D + 0 /\ One(m.pending_weak_ref) = 1
        /\ One(m.has_weak_ref /\ ~ m.pending_weak_ref) = 0
    BY <1>3, <2>1 DEF One
  <2>3. A2 = A /\ I2 = I + 1 /\ R2 = R /\ D2 = D
    BY <1>2, <1>5
  <2>4. /\ One(m.pending_strong_ref) = One(n.pending_strong_ref)
        /\ One(m.has_strong_ref /\ ~ m.pending_strong_ref) = One(n.has_strong_ref /\ ~ n.pending_strong_ref)
    BY <2>1
  <2> QED BY ONLY <1>2, <1>3, <2>2, <2>3, <2>4
<1>6. CASE x = "BR_ACQUIRE"
  <2>1. /\ ~ n.has_strong_ref /\ ~ n.pending_strong_ref /\ m.has_strong_ref /\ m.pending_strong_ref
        /\ m.has_weak_ref = n.has_weak_ref /\ m.pending_weak_ref = n.pending_weak_ref
    BY <1>6 DEF Told, SameWeak, FlagsOK
  <2>2. A = 0 /\ us = R + 0 /\ One(m.pending_strong_ref) = 1
        /\ One(m.has_strong_ref /\ ~ m.pending_strong_ref) = 0
    BY <1>3, <2>1 DEF One
  <2>3. A2 = A + 1 /\ I2 = I /\ R2 = R /\ D2 = D
    BY <1>2, <1>6
  <2>4. /\ One(m.pending_weak_ref) = One(n.pending_weak_ref)
        /\ One(m.has_weak_ref /\ ~ m.pending_weak_ref) = One(n.has_weak_ref /\ ~ n.pending_weak_ref)
    BY <2>1
  <2> QED BY ONLY <1>2, <1>3, <2>2, <2>3, <2>4
<1>7. CASE x = "BR_RELEASE"
  <2>1. /\ n.has_strong_ref /\ ~ n.pending_strong_ref /\ ~ m.has_strong_ref /\ ~ m.pending_strong_ref
        /\ m.has_weak_ref = n.has_weak_ref /\ m.pending_weak_ref = n.pending_weak_ref
    BY <1>7 DEF Told, SameWeak
  <2>2. A = 0 /\ us = R + 1 /\ One(m.pending_strong_ref) = 0
        /\ One(m.has_strong_ref /\ ~ m.pending_strong_ref) = 0
    BY <1>3, <2>1 DEF One
  <2>3. A2 = A /\ I2 = I /\ R2 = R + 1 /\ D2 = D
    BY <1>2, <1>7
  <2>4. /\ One(m.pending_weak_ref) = One(n.pending_weak_ref)
        /\ One(m.has_weak_ref /\ ~ m.pending_weak_ref) = One(n.has_weak_ref /\ ~ n.pending_weak_ref)
    BY <2>1
  <2> QED BY ONLY <1>2, <1>3, <2>2, <2>3, <2>4
<1>8. CASE x = "BR_DECREFS"
  <2>1. /\ n.has_weak_ref /\ ~ n.pending_weak_ref /\ ~ m.has_weak_ref /\ ~ m.pending_weak_ref
        /\ m.has_strong_ref = n.has_strong_ref /\ m.pending_strong_ref = n.pending_strong_ref
    BY <1>8 DEF Told, SameStrong
  <2>2. I = 0 /\ uw = D + 1 /\ One(m.pending_weak_ref) = 0
        /\ One(m.has_weak_ref /\ ~ m.pending_weak_ref) = 0
    BY <1>3, <2>1 DEF One
  <2>3. A2 = A /\ I2 = I /\ R2 = R /\ D2 = D + 1
    BY <1>2, <1>8
  <2>4. /\ One(m.pending_strong_ref) = One(n.pending_strong_ref)
        /\ One(m.has_strong_ref /\ ~ m.pending_strong_ref) = One(n.has_strong_ref /\ ~ n.pending_strong_ref)
    BY <2>1
  <2> QED BY ONLY <1>2, <1>3, <2>2, <2>3, <2>4
<1> QED BY <1>5, <1>6, <1>7, <1>8 DEF Told

\* Such a command is not the end of a transaction.
LEMMA SentTold ==
    ASSUME NEW todo, NEW b, NEW p, SentOK(todo, b, p), b \in [Threads -> Seq(Commands)],
           NEW t \in Threads, NEW x, x \in Commands, x # "BR_TRANSACTION_COMPLETE",
           NEW d, d = WithCommand(b, t, x)
    PROVE  SentOK(todo, d, p)
<1> DEFINE y == "BR_TRANSACTION_COMPLETE"
<1>0. /\ b \in [Threads -> Seq(Commands)] /\ t \in Threads /\ x \in Commands /\ d = WithCommand(b, t, x)
      /\ y \in Commands /\ x # y
  BY DEF Commands
<1> HIDE DEF y
<1>1. /\ \A w \in Threads \ {t} : d[w] = b[w]
      /\ \A a \in Commands :
            /\ Has(d[t], a) /\ x # a => Has(b[t], a)
            /\ Single(b[t], a) /\ x # a => Single(d[t], a)
  BY ONLY <1>0, ReadsMore
<1>2. \A w \in Threads : /\ Has(d[w], y) => Has(b[w], y)
                         /\ Single(b[w], y) => Single(d[w], y)
  BY <1>0, <1>1
<1> QED BY <1>2 DEF SentOK, y

\* Nor does it take what another thread was asked for.
LEMMA AskedTold ==
    ASSUME NEW s, NEW r, NEW b, NEW p, AskedFor(s, b, p), b \in [Threads -> Seq(Commands)],
           r.node.pending_strong_ref = s.node.pending_strong_ref, r.todo = s.todo,
           NEW t \in Threads, NEW x, x \in Commands, NEW d, d = WithCommand(b, t, x)
    PROVE  AskedFor(r, d, p)
<1> DEFINE y == "BR_TRANSACTION_COMPLETE"
           z == "BR_ACQUIRE"
<1>0. /\ b \in [Threads -> Seq(Commands)] /\ t \in Threads /\ x \in Commands /\ d = WithCommand(b, t, x)
      /\ y \in Commands /\ z \in Commands
  BY DEF Commands
<1> HIDE DEF y, z
<1>1. /\ \A w \in Threads \ {t} : d[w] = b[w]
      /\ \A a \in Commands : Has(b[t], a) => Has(d[t], a)
      /\ \A a, c \in Commands : Before(b[t], a, c) => Before(d[t], a, c)
  BY ONLY <1>0, ReadsMore
<1>2. \A w \in Threads : /\ Has(b[w], z) => Has(d[w], z)
                         /\ Before(b[w], z, y) => Before(d[w], z, y)
  BY <1>0, <1>1
<1> QED BY <1>2 DEF AskedFor, y, z

\* The thread that reads BR_ACQUIRE is the one that sends the object.
LEMMA Asker ==
    ASSUME NEW todo \in [Lists -> Seq(WorkTypes)], Once(todo), NEW t \in Threads, NEW l \in {t, "proc"},
           todo[l] # <<>>, Head(todo[l]) = "node", NEW w \in Threads, Before(todo[w], "node", "complete")
    PROVE  w = t /\ Has(todo[t], "complete")
<1>0. l \in Lists /\ w \in Lists /\ w # "proc"
  BY BinderAssumption DEF Lists
<1>1. todo[l] \in Seq(WorkTypes)
  BY <1>0
<1>2. 1 \in DOMAIN todo[l] /\ todo[l][1] = "node"
  BY <1>1
<1>3. PICK i \in DOMAIN todo[w], j \in DOMAIN todo[w] : todo[w][i] = "node" /\ todo[w][j] = "complete"
  BY DEF Before
<1>4. l = w
  BY <1>0, <1>2, <1>3 DEF Once
<1> QED BY <1>0, <1>3, <1>4 DEF Has

\* BINDER_WORK_NODE
LEMMA ReadNodeKept ==
    ASSUME BInv, KInv, NEW t \in Threads, ReadNode(t)
    PROVE  KInv'
<1> DEFINE l == Work(t)
           n == k.node
           strong == n.internal_strong_refs > 0 \/ n.local_strong_refs > 0
           weak == Refs(k) # {} \/ n.local_weak_refs > 0 \/ strong
           c == NodeCommand(n, strong, weak)
           td == Popping(k.todo, l)
           m == IF weak \/ strong THEN n ELSE NoNode
           r == k'
           d == brs'
<1>1. /\ up' = up /\ parcel' = parcel /\ user' = user /\ k.todo[l] # <<>> /\ Head(k.todo[l]) = "node"
      /\ \/ c.br # "BR_NOOP" /\ r = [k EXCEPT !.node = c.node] /\ d = WithCommand(brs, t, c.br)
         \/ c.br = "BR_NOOP" /\ r = [k EXCEPT !.todo = td, !.node = m] /\ d = brs
  BY DEF ReadNode, Reads, WithCommand, Popping
<1>2. /\ up /\ up = TRUE /\ Kept(k, brs, parcel, user) /\ k \in Drivers /\ Sound(k)
      /\ NodeOK(k, obuf, TRUE)
  BY <1>1, ThreadsLive DEF Owned
<1>3. /\ l \in {t, "proc"} /\ l \in Lists /\ k.todo \in [Lists -> Seq(WorkTypes)] /\ Once(k.todo)
      /\ n \in Nodes /\ FlagsOK(n)
  BY <1>2 DEF Drivers, Lists, Work, Sound, WorkOK
<1>4. n.there /\ n.proc
  <2>1. k.todo[l] \in Seq(WorkTypes)
    BY <1>3
  <2>2. 1 \in DOMAIN k.todo[l] /\ k.todo[l][1] = "node"
    BY <1>1, <2>1
  <2>3. OnList(k.todo)
    BY <1>3, <2>2 DEF OnList
  <2>4. n.proc /\ ~ NoNode.proc
    BY <1>2, <2>3 DEF Sound, WorkOK, NoNode
  <2> QED BY <1>3, <2>4 DEF FlagsOK
<1>5. Counts(n, obuf)
  BY <1>2 DEF NodeOK, Counts
<1>6. /\ strong \in BOOLEAN /\ weak \in BOOLEAN /\ (strong => weak) /\ (strong <=> Wanted(n))
      /\ ~ strong => n.local_strong_refs = 0
      /\ ~ weak => n.local_weak_refs = 0
  BY <1>3 DEF Nodes, Wanted
<1> HIDE DEF l, strong, weak, td, r, n, d
<1>7. /\ c.br # "BR_NOOP" =>
            /\ Told(n, c.node, c.br)
            /\ Wanted(c.node) /\ ~ c.node.has_strong_ref => Wanted(n) /\ ~ n.has_strong_ref
      /\ c.br = "BR_NOOP" =>
            (strong => n.has_strong_ref) /\ (~ weak => ~ n.has_strong_ref /\ ~ n.has_weak_ref)
  BY <1>3, <1>4, <1>5, <1>6, CommandMarks
<1> HIDE DEF c
<1>8. CASE c.br # "BR_NOOP" /\ r = [k EXCEPT !.node = c.node] /\ d = WithCommand(brs, t, c.br)
  <2> DEFINE x == c.br
             q == c.node
  <2>1. r.node = q /\ r.todo = k.todo
    BY <1>2, <1>8 DEF Drivers
  <2>2. /\ Told(n, q, x) /\ (Wanted(q) /\ ~ q.has_strong_ref => Wanted(n) /\ ~ n.has_strong_ref)
        /\ d = WithCommand(brs, t, x)
    BY <1>7, <1>8
  <2> HIDE DEF x, q
  <2>3. /\ brs \in [Threads -> Seq(Commands)] /\ OwedOK(n, brs, user)
        /\ SentOK(k.todo, brs, parcel) /\ ToAsk(k, parcel) /\ AskedFor(k, brs, parcel)
        /\ parcel \in [Threads -> Sends] /\ user \in [Kinds -> Int]
    BY <1>2 DEF Kept, n
  <2>4. x \in Commands /\ x # "BR_TRANSACTION_COMPLETE" /\ t \in Threads
    BY <2>2 DEF Told, Commands
  <2>5. OwedOK(q, d, user)
    BY ONLY <1>3, <2>2, <2>3, <2>4, OwedTold
  <2>6. SentOK(k.todo, d, parcel)
    BY ONLY <2>2, <2>3, <2>4, SentTold
  <2>7. ToAsk(r, parcel)
    BY <2>1, <2>2, <2>3 DEF ToAsk, n
  <2>8. d \in [Threads -> Seq(Commands)] /\ Has(d[t], x)
    BY ONLY <2>2, <2>3, <2>4, ReadsMore
  <2>9. AskedFor(r, d, parcel)
    <3>1. CASE x # "BR_ACQUIRE"
      <4>1. \/ r.node.pending_strong_ref = k.node.pending_strong_ref
            \/ ~ r.node.pending_strong_ref
        BY <2>1, <2>2, <3>1 DEF Told, SameStrong, n
      <4>2. ~ r.node.pending_strong_ref => AskedFor(r, d, parcel)
        BY DEF AskedFor
      <4>3. CASE r.node.pending_strong_ref = k.node.pending_strong_ref
        BY ONLY <2>1, <2>2, <2>3, <2>4, <4>3, AskedTold
      <4> QED BY <4>1, <4>2, <4>3
    <3>2. CASE x = "BR_ACQUIRE"
      <4>1. Wanted(k.node) /\ ~ k.node.has_strong_ref
        BY <2>2, <3>2 DEF Told, n
      <4>2. PICK w \in Threads : parcel[w] = "strong" /\ Before(k.todo[w], "node", "complete")
        BY <2>3, <4>1 DEF ToAsk
      <4>3. w = t /\ Has(k.todo[t], "complete")
        BY <1>1, <1>3, <4>2, Asker
      <4> QED BY <2>1, <2>8, <3>2, <4>2, <4>3 DEF AskedFor
    <3> QED BY <3>1, <3>2
  <2>10. Kept(r, d, parcel, user)
    BY <2>1, <2>3, <2>5, <2>6, <2>7, <2>8, <2>9 DEF Kept
  <2> QED BY <1>1, <1>2, <2>10 DEF KInv, r, d
<1>9. CASE c.br = "BR_NOOP" /\ r = [k EXCEPT !.todo = td, !.node = m] /\ d = brs
  <2>0. td = Popping(k.todo, l)
    BY DEF td
  <2>1. /\ DoneSame(k.todo, td) /\ td \in [Lists -> Seq(WorkTypes)]
    BY ONLY <1>1, <1>3, <2>0, PopDone
  <2>2. r.node = m /\ r.todo = td
    BY <1>2, <1>9 DEF Drivers
  <2>3. SameMarks(m, n) /\ ~ (Wanted(m) /\ ~ m.has_strong_ref)
    <3>1. CASE weak
      <4>1. m = n
        BY <3>1
      <4> QED BY <1>6, <1>7, <1>9, <4>1 DEF SameMarks
    <3>2. CASE ~ weak
      <4>1. m = NoNode
        BY <1>6, <3>2
      <4>2. ~ n.has_strong_ref /\ ~ n.has_weak_ref /\ ~ n.pending_strong_ref /\ ~ n.pending_weak_ref
        BY <1>3, <1>7, <1>9, <3>2 DEF FlagsOK
      <4>3. n.has_strong_ref \in BOOLEAN /\ n.has_weak_ref \in BOOLEAN
            /\ n.pending_strong_ref \in BOOLEAN /\ n.pending_weak_ref \in BOOLEAN
        BY <1>3 DEF Nodes
      <4>4. ~ Wanted(NoNode) /\ NoNode.has_strong_ref = FALSE /\ NoNode.has_weak_ref = FALSE
            /\ NoNode.pending_strong_ref = FALSE /\ NoNode.pending_weak_ref = FALSE
        BY DEF Wanted, NoNode
      <4> HIDE DEF m
      <4> QED BY <4>1, <4>2, <4>3, <4>4 DEF SameMarks
    <3> QED BY <3>1, <3>2
  <2> HIDE DEF m
  <2>4. SameMarks(r.node, k.node) /\ DoneSame(k.todo, r.todo) /\ ToAsk(r, parcel)
    BY <2>1, <2>2, <2>3 DEF ToAsk, n
  <2>5. Kept(r, brs, parcel, user)
    BY <1>2, <2>4, KeptIf
  <2> QED BY <1>1, <1>2, <1>9, <2>5 DEF KInv, r, d
<1> QED BY <1>1, <1>8, <1>9

\* What the owner does with a command: its references, and the node's marks
Takes(n, m, u, v, x) ==
    \/ x = "BR_TRANSACTION_COMPLETE" /\ SameStrong(m, n) /\ SameWeak(m, n)
       /\ v.strong = u.strong /\ v.weak = u.weak
    \/ x = "BR_ACQUIRE" /\ m.has_strong_ref = n.has_strong_ref /\ ~ m.pending_strong_ref
       /\ SameWeak(m, n) /\ v.strong = u.strong + 1 /\ v.weak = u.weak
    \/ x = "BR_INCREFS" /\ m.has_weak_ref = n.has_weak_ref /\ ~ m.pending_weak_ref
       /\ SameStrong(m, n) /\ v.strong = u.strong /\ v.weak = u.weak + 1
    \/ x = "BR_RELEASE" /\ SameStrong(m, n) /\ SameWeak(m, n)
       /\ v.strong = u.strong - 1 /\ v.weak = u.weak
    \/ x = "BR_DECREFS" /\ SameStrong(m, n) /\ SameWeak(m, n)
       /\ v.strong = u.strong /\ v.weak = u.weak - 1

\* A thread that handles BR_ACQUIRE or BR_INCREFS acknowledges what is pending.
LEMMA FirstPending ==
    ASSUME NEW n, NEW b, NEW u, OwedOK(n, b, u), b \in [Threads -> Seq(Commands)],
           NEW t \in Threads, b[t] # <<>>, NEW d, d = WithoutFirst(b, t)
    PROVE  /\ Head(b[t]) = "BR_ACQUIRE" => n.pending_strong_ref
           /\ Head(b[t]) = "BR_INCREFS" => n.pending_weak_ref
<1>0. /\ \A br \in Commands : IsFiniteSet(Cmds(b, br))
      /\ b \in [Threads -> Seq(Commands)] /\ t \in Threads /\ b[t] # <<>> /\ d = WithoutFirst(b, t)
  BY DEF OwedOK
<1>1. \A br \in Commands :
         /\ IsFiniteSet(Cmds(d, br)) /\ Cardinality(Cmds(b, br)) \in Nat
         /\ Head(b[t]) = br => Cardinality(Cmds(d, br)) = Cardinality(Cmds(b, br)) - 1
  BY ONLY <1>0, CountsHandled
<1>2. \A br \in Commands : Cardinality(Cmds(d, br)) \in Nat
  BY <1>1, FS_CardinalityType
<1>3. \A br \in Commands : Head(b[t]) = br => Cardinality(Cmds(b, br)) # 0
  <2> SUFFICES ASSUME NEW br \in Commands, Head(b[t]) = br
               PROVE  Cardinality(Cmds(b, br)) # 0
    OBVIOUS
  <2> DEFINE x == Cardinality(Cmds(b, br))
             y == Cardinality(Cmds(d, br))
  <2>1. x \in Nat /\ y \in Nat /\ y = x - 1
    BY <1>1, <1>2
  <2> HIDE DEF x, y
  <2>2. x # 0
    BY ONLY <2>1
  <2> QED BY <2>2 DEF x
<1>4. "BR_ACQUIRE" \in Commands /\ "BR_INCREFS" \in Commands
  BY DEF Commands
<1>5. /\ Head(b[t]) = "BR_ACQUIRE" => One(n.pending_strong_ref) # 0
      /\ Head(b[t]) = "BR_INCREFS" => One(n.pending_weak_ref) # 0
  BY <1>3, <1>4 DEF OwedOK
<1> QED BY <1>5 DEF One

\* The owner's references afterwards
LEMMA OwedHandled ==
    ASSUME NEW n, NEW m, NEW b, NEW u, NEW v, OwedOK(n, b, u), b \in [Threads -> Seq(Commands)],
           u \in [Kinds -> Int], FlagsOK(n), NEW t \in Threads, b[t] # <<>>,
           Takes(n, m, u, v, Head(b[t])), NEW d, d = WithoutFirst(b, t)
    PROVE  OwedOK(m, d, v)
<1> DEFINE x == Head(b[t])
<1>0. /\ "BR_ACQUIRE" \in Commands /\ "BR_INCREFS" \in Commands
      /\ "BR_RELEASE" \in Commands /\ "BR_DECREFS" \in Commands
  BY DEF Commands
<1>1. \A br \in Commands :
         /\ IsFiniteSet(Cmds(d, br)) /\ Cardinality(Cmds(b, br)) \in Nat
         /\ x # br => Cardinality(Cmds(d, br)) = Cardinality(Cmds(b, br))
         /\ x = br => Cardinality(Cmds(d, br)) = Cardinality(Cmds(b, br)) - 1
  <2>1. /\ \A br \in Commands : IsFiniteSet(Cmds(b, br))
        /\ b \in [Threads -> Seq(Commands)] /\ t \in Threads /\ b[t] # <<>> /\ d = WithoutFirst(b, t)
    BY DEF OwedOK
  <2> QED BY ONLY <2>1, CountsHandled
<1>p. (x = "BR_ACQUIRE" => n.pending_strong_ref) /\ (x = "BR_INCREFS" => n.pending_weak_ref)
  BY FirstPending
<1>t. Takes(n, m, u, v, x)
  OBVIOUS
<1> DEFINE A == Cardinality(Cmds(b, "BR_ACQUIRE"))
           I == Cardinality(Cmds(b, "BR_INCREFS"))
           R == Cardinality(Cmds(b, "BR_RELEASE"))
           D == Cardinality(Cmds(b, "BR_DECREFS"))
           A2 == Cardinality(Cmds(d, "BR_ACQUIRE"))
           I2 == Cardinality(Cmds(d, "BR_INCREFS"))
           R2 == Cardinality(Cmds(d, "BR_RELEASE"))
           D2 == Cardinality(Cmds(d, "BR_DECREFS"))
           us == u.strong
           uw == u.weak
           vs == v.strong
           vw == v.weak
<1> HIDE DEF x
<1>2. /\ A \in Nat /\ I \in Nat /\ R \in Nat /\ D \in Nat /\ us \in Int /\ uw \in Int
      /\ A2 = IF x = "BR_ACQUIRE" THEN A - 1 ELSE A
      /\ I2 = IF x = "BR_INCREFS" THEN I - 1 ELSE I
      /\ R2 = IF x = "BR_RELEASE" THEN R - 1 ELSE R
      /\ D2 = IF x = "BR_DECREFS" THEN D - 1 ELSE D
  BY <1>0, <1>1 DEF Kinds
<1>3. /\ A = One(n.pending_strong_ref) /\ I = One(n.pending_weak_ref)
      /\ us = R + One(n.has_strong_ref /\ ~ n.pending_strong_ref)
      /\ uw = D + One(n.has_weak_ref /\ ~ n.pending_weak_ref)
  BY DEF OwedOK
<1> SUFFICES /\ A2 = One(m.pending_strong_ref) /\ I2 = One(m.pending_weak_ref)
             /\ vs = R2 + One(m.has_strong_ref /\ ~ m.pending_strong_ref)
             /\ vw = D2 + One(m.has_weak_ref /\ ~ m.pending_weak_ref)
  BY <1>1 DEF OwedOK
<1> DEFINE sp == One(n.pending_strong_ref)
           wp == One(n.pending_weak_ref)
           so == One(n.has_strong_ref /\ ~ n.pending_strong_ref)
           wo == One(n.has_weak_ref /\ ~ n.pending_weak_ref)
<1>4. sp \in Nat /\ wp \in Nat /\ so \in Nat /\ wo \in Nat
  BY DEF One
<1>5. ASSUME SameStrong(m, n)
      PROVE  One(m.pending_strong_ref) = sp /\ One(m.has_strong_ref /\ ~ m.pending_strong_ref) = so
  BY <1>5 DEF SameStrong
<1>6. ASSUME SameWeak(m, n)
      PROVE  One(m.pending_weak_ref) = wp /\ One(m.has_weak_ref /\ ~ m.pending_weak_ref) = wo
  BY <1>6 DEF SameWeak
<1>7. CASE x = "BR_TRANSACTION_COMPLETE"
  <2>1. SameStrong(m, n) /\ SameWeak(m, n) /\ vs = us /\ vw = uw
    BY <1>t, <1>7 DEF Takes
  <2>2. A2 = A /\ I2 = I /\ R2 = R /\ D2 = D
    BY <1>2, <1>7
  <2> QED BY <1>3, <1>5, <1>6, <2>1, <2>2
<1>8. CASE x = "BR_ACQUIRE"
  <2>1. /\ m.has_strong_ref = n.has_strong_ref /\ ~ m.pending_strong_ref
        /\ SameWeak(m, n) /\ vs = us + 1 /\ vw = uw
    BY <1>t, <1>8 DEF Takes
  <2>2. n.pending_strong_ref /\ n.has_strong_ref
    BY <1>p, <1>8 DEF FlagsOK
  <2>3. sp = 1 /\ so = 0 /\ One(m.pending_strong_ref) = 0
        /\ One(m.has_strong_ref /\ ~ m.pending_strong_ref) = 1
    BY <2>1, <2>2 DEF One
  <2>4. A2 = A - 1 /\ I2 = I /\ R2 = R /\ D2 = D
    BY <1>2, <1>8
  <2>5. One(m.pending_weak_ref) = wp /\ One(m.has_weak_ref /\ ~ m.pending_weak_ref) = wo
    BY <1>6, <2>1
  <2> HIDE DEF A, I, R, D, A2, I2, R2, D2, us, uw, vs, vw, sp, wp, so, wo
  <2> QED BY <1>2, <1>3, <2>1, <2>3, <2>4, <2>5 DEF sp, so, wp, wo
<1>9. CASE x = "BR_INCREFS"
  <2>1. /\ m.has_weak_ref = n.has_weak_ref /\ ~ m.pending_weak_ref
        /\ SameStrong(m, n) /\ vs = us /\ vw = uw + 1
    BY <1>t, <1>9 DEF Takes
  <2>2. n.pending_weak_ref /\ n.has_weak_ref
    BY <1>p, <1>9 DEF FlagsOK
  <2>3. wp = 1 /\ wo = 0 /\ One(m.pending_weak_ref) = 0
        /\ One(m.has_weak_ref /\ ~ m.pending_weak_ref) = 1
    BY <2>1, <2>2 DEF One
  <2>4. A2 = A /\ I2 = I - 1 /\ R2 = R /\ D2 = D
    BY <1>2, <1>9
  <2>5. One(m.pending_strong_ref) = sp /\ One(m.has_strong_ref /\ ~ m.pending_strong_ref) = so
    BY <1>5, <2>1
  <2> HIDE DEF A, I, R, D, A2, I2, R2, D2, us, uw, vs, vw, sp, wp, so, wo
  <2> QED BY <1>2, <1>3, <2>1, <2>3, <2>4, <2>5 DEF sp, so, wp, wo
<1>10. CASE x = "BR_RELEASE"
  <2>1. SameStrong(m, n) /\ SameWeak(m, n) /\ vs = us - 1 /\ vw = uw
    BY <1>t, <1>10 DEF Takes
  <2>2. A2 = A /\ I2 = I /\ R2 = R - 1 /\ D2 = D
    BY <1>2, <1>10
  <2>3. us = R + so /\ vs = R2 + so
    <3>1. us = R + so
      BY <1>3
    <3> HIDE DEF A, I, R, D, A2, I2, R2, D2, us, uw, vs, vw, sp, wp, so, wo
    <3> QED BY <1>2, <1>4, <2>1, <2>2, <3>1
  <2> QED BY <1>3, <1>5, <1>6, <2>1, <2>2, <2>3
<1>11. CASE x = "BR_DECREFS"
  <2>1. SameStrong(m, n) /\ SameWeak(m, n) /\ vs = us /\ vw = uw - 1
    BY <1>t, <1>11 DEF Takes
  <2>2. A2 = A /\ I2 = I /\ R2 = R /\ D2 = D - 1
    BY <1>2, <1>11
  <2>3. uw = D + wo /\ vw = D2 + wo
    <3>1. uw = D + wo
      BY <1>3
    <3> HIDE DEF A, I, R, D, A2, I2, R2, D2, us, uw, vs, vw, sp, wp, so, wo
    <3> QED BY <1>2, <1>4, <2>1, <2>2, <3>1
  <2> QED BY <1>3, <1>5, <1>6, <2>1, <2>2, <2>3
<1> QED BY <1>t, <1>7, <1>8, <1>9, <1>10, <1>11 DEF Takes

\* Thread t is done with its transaction.
Parted(p, t) == [p EXCEPT ![t] = "none"]

\* A thread handles its first command: what there is to be asked for, and was,
\* before it learns that its transaction is done.
LEMMA HandledKept ==
    ASSUME NEW s, NEW a, NEW b, NEW p, NEW u, NEW v, NEW q, Kept(s, b, p, u), FlagsOK(s.node),
           NEW t \in Threads, b[t] # <<>>, Takes(s.node, a.node, u, v, Head(b[t])),
           v \in [Kinds -> Int], a.todo = s.todo, Wanted(a.node) => Wanted(s.node),
           Head(b[t]) = "BR_TRANSACTION_COMPLETE" => q = Parted(p, t),
           Head(b[t]) # "BR_TRANSACTION_COMPLETE" => q = p,
           NEW d, d = WithoutFirst(b, t)
    PROVE  Kept(a, d, q, v)
<1> DEFINE x == "BR_TRANSACTION_COMPLETE"
           y == "BR_ACQUIRE"
           h == Head(b[t])
<1>0. /\ b \in [Threads -> Seq(Commands)] /\ p \in [Threads -> Sends] /\ u \in [Kinds -> Int]
      /\ OwedOK(s.node, b, u) /\ SentOK(s.todo, b, p) /\ ToAsk(s, p) /\ AskedFor(s, b, p)
      /\ t \in Threads /\ b[t] # <<>> /\ d = WithoutFirst(b, t) /\ FlagsOK(s.node)
      /\ Takes(s.node, a.node, u, v, Head(b[t]))
  BY DEF Kept
<1>1. OwedOK(a.node, d, v)
  BY ONLY <1>0, OwedHandled
<1>2. x \in Commands /\ y \in Commands /\ x # y
  BY DEF Commands
<1> HIDE DEF x, y
<1>3. /\ d \in [Threads -> Seq(Commands)] /\ h \in Commands /\ Has(b[t], h)
      /\ \A w \in Threads \ {t} : d[w] = b[w]
      /\ \A z \in Commands :
            /\ Has(d[t], z) => Has(b[t], z)
            /\ Has(b[t], z) /\ h # z => Has(d[t], z)
            /\ Single(b[t], z) => Single(d[t], z)
            /\ Single(b[t], z) /\ h = z => ~ Has(d[t], z)
      /\ \A c, z \in Commands :
            /\ Before(b[t], c, z) /\ h # c => Before(d[t], c, z)
            /\ Before(b[t], c, z) /\ Single(b[t], z) => h # z
  BY ONLY <1>0, HandlesOne
<1>4. /\ \A w \in Threads :
            /\ Single(s.todo[w], "complete") /\ Single(b[w], x)
            /\ ~ (Has(s.todo[w], "complete") /\ Has(b[w], x))
            /\ p[w] = "none" => ~ Has(s.todo[w], "complete") /\ ~ Has(b[w], x)
  BY <1>0 DEF SentOK, x
<1>5. /\ q \in [Threads -> Sends] /\ \A w \in Threads \ {t} : q[w] = p[w]
      /\ h # x => q = p
  <2>1. "none" \in Sends
    BY DEF Sends
  <2> QED BY <1>0, <2>1 DEF Parted, x
<1> HIDE DEF h
<1>6. SentOK(a.todo, d, q)
  <2> SUFFICES ASSUME NEW w \in Threads
               PROVE  /\ Single(s.todo[w], "complete") /\ Single(d[w], x)
                      /\ ~ (Has(s.todo[w], "complete") /\ Has(d[w], x))
                      /\ q[w] = "none" => ~ Has(s.todo[w], "complete") /\ ~ Has(d[w], x)
    BY DEF SentOK, x
  <2>1. CASE w # t
    BY <1>3, <1>4, <1>5, <2>1
  <2>2. CASE w = t /\ h # x
    BY <1>2, <1>3, <1>4, <1>5, <2>2
  <2>3. CASE w = t /\ h = x
    BY <1>2, <1>3, <1>4, <2>3
  <2> QED BY <2>1, <2>2, <2>3
<1>7. h = x => ~ Has(s.todo[t], "complete")
  BY <1>3, <1>4
<1>8. ToAsk(a, q)
  <2> SUFFICES ASSUME Wanted(a.node), ~ a.node.has_strong_ref
               PROVE  \E w \in Threads : q[w] = "strong" /\ Before(s.todo[w], "node", "complete")
    BY DEF ToAsk
  <2>1. ~ s.node.has_strong_ref
    BY DEF Takes, SameStrong
  <2>2. PICK w \in Threads : p[w] = "strong" /\ Before(s.todo[w], "node", "complete")
    BY <1>0, <2>1 DEF ToAsk
  <2>3. Has(s.todo[w], "complete")
    BY <2>2 DEF Before, Has
  <2> QED BY <1>5, <1>7, <2>2, <2>3
<1>9. AskedFor(a, d, q)
  <2> SUFFICES ASSUME a.node.pending_strong_ref
               PROVE  \E w \in Threads :
                        /\ q[w] = "strong" /\ Has(d[w], y)
                        /\ Has(s.todo[w], "complete") \/ Before(d[w], y, x)
    BY DEF AskedFor, x, y
  <2>1. s.node.pending_strong_ref /\ h # y
    BY DEF Takes, SameStrong, h, y
  <2>2. PICK w \in Threads : /\ p[w] = "strong" /\ Has(b[w], y)
                             /\ Has(s.todo[w], "complete") \/ Before(b[w], y, x)
    BY <1>0, <2>1 DEF AskedFor, x, y
  <2>3. CASE w # t
    BY <1>3, <1>5, <2>2, <2>3
  <2>4. CASE w = t /\ h # x
    BY <1>2, <1>3, <1>5, <2>1, <2>2, <2>4
  <2>5. CASE w = t /\ h = x
    BY <1>2, <1>3, <1>4, <1>7, <2>2, <2>5
  <2> QED BY <2>3, <2>4, <2>5
<1> QED BY <1>1, <1>3, <1>5, <1>6, <1>8, <1>9 DEF Kept

\* BC_ACQUIRE_DONE and BC_INCREFS_DONE of what was pending
LEMMA AckedDone ==
    ASSUME NEW s, Owned(s), NEW kind \in Kinds,
           kind = "strong" => s.node.pending_strong_ref, kind = "weak" => s.node.pending_weak_ref,
           NEW a, a = Acked(s, kind), NEW r, r = Done(s, kind = "strong")
    PROVE  /\ Owned(a) /\ Eases(a, r) /\ a.todo = s.todo /\ (Wanted(a.node) => Wanted(s.node))
           /\ a.node.has_strong_ref = s.node.has_strong_ref
           /\ a.node.has_weak_ref = s.node.has_weak_ref
           /\ kind = "strong" => ~ a.node.pending_strong_ref /\ SameWeak(a.node, s.node)
           /\ kind = "weak" => ~ a.node.pending_weak_ref /\ SameStrong(a.node, s.node)
<1> DEFINE strong == kind = "strong"
           no == FALSE
<1>0. s \in Drivers /\ strong \in BOOLEAN /\ no \in BOOLEAN /\ (strong \/ kind = "weak")
  BY DEF Owned, Kinds
<1>1. r = binder_dec_node(a, strong, no)
  <2>1. CASE kind = "strong"
    BY <2>1 DEF Done, Acked
  <2>2. CASE kind = "weak"
    BY <2>2 DEF Done, Acked
  <2> QED BY <1>0, <2>1, <2>2
<1>2. /\ a \in Drivers /\ a.todo = s.todo
      /\ a.node.there = s.node.there /\ a.node.proc = s.node.proc
      /\ a.node.internal_strong_refs = s.node.internal_strong_refs
      /\ a.node.local_strong_refs = s.node.local_strong_refs
      /\ a.node.has_strong_ref = s.node.has_strong_ref
      /\ a.node.has_weak_ref = s.node.has_weak_ref
      /\ strong => ~ a.node.pending_strong_ref /\ a.node.pending_weak_ref = s.node.pending_weak_ref
      /\ ~ strong => ~ a.node.pending_weak_ref /\ a.node.pending_strong_ref = s.node.pending_strong_ref
  <2>1. CASE kind = "strong"
    BY <1>0, <2>1, AckedEffect
  <2>2. CASE kind = "weak"
    BY <1>0, <2>2, AckedEffect
  <2> QED BY <1>0, <2>1, <2>2
<1> HIDE DEF strong, no
<1>3. Eases(a, r)
  BY <1>0, <1>1, <1>2, DriversLoose, DecNodeEases
<1>4. s.node.there
  <2>1. ~ NoNode.pending_strong_ref /\ ~ NoNode.pending_weak_ref
    BY DEF NoNode
  <2> QED BY <1>0, <2>1 DEF Owned, FlagsOK, strong
<1>5. Owned(a)
  BY <1>0, <1>2, <1>4 DEF Owned, FlagsOK
<1> QED BY <1>0, <1>2, <1>3, <1>5 DEF strong, SameWeak, SameStrong, Wanted

\* A thread of the owner handles a command.
LEMMA HandleKept ==
    ASSUME BInv, KInv, NEW t \in Threads, Handle(t)
    PROVE  KInv'
<1> DEFINE h == Head(brs[t])
           d == brs'
           r == k'
           q == parcel'
           v == user'
<1>0. /\ brs[t] # <<>> /\ d = WithoutFirst(brs, t) /\ up' = up
      /\ v = CASE h = "BR_ACQUIRE" -> [user EXCEPT !.strong = @ + 1]
               [] h = "BR_RELEASE" -> [user EXCEPT !.strong = @ - 1]
               [] h = "BR_INCREFS" -> [user EXCEPT !.weak = @ + 1]
               [] h = "BR_DECREFS" -> [user EXCEPT !.weak = @ - 1]
               [] OTHER -> user
      /\ h = "BR_TRANSACTION_COMPLETE" => q = Parted(parcel, t)
      /\ h # "BR_TRANSACTION_COMPLETE" => q = parcel
      /\ r = CASE h = "BR_ACQUIRE" -> Done(k, TRUE)
               [] h = "BR_INCREFS" -> Done(k, FALSE)
               [] OTHER -> k
  BY DEF Handle, WithoutFirst, Parted
<1>1. up /\ up = TRUE /\ Kept(k, brs, parcel, user) /\ Owned(k) /\ FlagsOK(k.node)
  BY <1>0, ThreadsLive DEF Owned
<1>2. /\ user \in [Kinds -> Int] /\ user.strong \in Int /\ user.weak \in Int
      /\ brs \in [Threads -> Seq(Commands)] /\ OwedOK(k.node, brs, user)
  BY <1>1 DEF Kept, Kinds
<1> HIDE DEF d, r, q
<1>3. /\ h = "BR_ACQUIRE" => k.node.pending_strong_ref
      /\ h = "BR_INCREFS" => k.node.pending_weak_ref
  BY <1>0, <1>2, FirstPending
<1>4. h \in Commands
  BY <1>2, <1>0
<1> HIDE DEF v, h
<1>5. /\ v \in [Kinds -> Int]
      /\ h = "BR_ACQUIRE" => v.strong = user.strong + 1 /\ v.weak = user.weak
      /\ h = "BR_RELEASE" => v.strong = user.strong - 1 /\ v.weak = user.weak
      /\ h = "BR_INCREFS" => v.strong = user.strong /\ v.weak = user.weak + 1
      /\ h = "BR_DECREFS" => v.strong = user.strong /\ v.weak = user.weak - 1
      /\ h = "BR_TRANSACTION_COMPLETE" => v.strong = user.strong /\ v.weak = user.weak
  BY <1>0, <1>2, <1>4 DEF Commands, Kinds
<1> SUFFICES Kept(r, d, q, v)
  BY <1>0, <1>1 DEF KInv, r, d, q, v
<1>6. ASSUME NEW a, Takes(k.node, a.node, user, v, h), a.todo = k.todo, Wanted(a.node) => Wanted(k.node)
      PROVE  Kept(a, d, q, v)
  <2>1. /\ Kept(k, brs, parcel, user) /\ FlagsOK(k.node) /\ t \in Threads /\ brs[t] # <<>>
        /\ Takes(k.node, a.node, user, v, Head(brs[t])) /\ v \in [Kinds -> Int]
        /\ a.todo = k.todo /\ (Wanted(a.node) => Wanted(k.node)) /\ d = WithoutFirst(brs, t)
        /\ Head(brs[t]) = "BR_TRANSACTION_COMPLETE" => q = Parted(parcel, t)
        /\ Head(brs[t]) # "BR_TRANSACTION_COMPLETE" => q = parcel
    BY <1>0, <1>1, <1>5, <1>6 DEF h
  <2> QED BY ONLY <2>1, HandledKept
<1>7. CASE h \in {"BR_TRANSACTION_COMPLETE", "BR_RELEASE", "BR_DECREFS"}
  <2>1. r = k
    BY <1>0, <1>7
  <2>2. Takes(k.node, k.node, user, v, h)
    BY <1>5, <1>7 DEF Takes, SameStrong, SameWeak
  <2> QED BY <1>6, <2>1, <2>2
<1>8. CASE h = "BR_ACQUIRE"
  <2> DEFINE kind == "strong"
             a == Acked(k, kind)
  <2>1. kind \in Kinds /\ r = Done(k, kind = "strong") /\ kind = "strong"
    BY <1>0, <1>8 DEF Kinds
  <2> HIDE DEF kind, a
  <2>2. a = Acked(k, kind)
    BY DEF a
  <2>3. /\ Owned(a) /\ Eases(a, r) /\ a.todo = k.todo /\ (Wanted(a.node) => Wanted(k.node))
        /\ a.node.has_strong_ref = k.node.has_strong_ref
        /\ ~ a.node.pending_strong_ref /\ SameWeak(a.node, k.node)
    BY <1>1, <1>3, <1>8, <2>1, <2>2, AckedDone
  <2>4. Takes(k.node, a.node, user, v, h)
    BY <1>5, <1>8, <2>3 DEF Takes
  <2>5. Kept(a, d, q, v)
    BY <1>6, <2>3, <2>4
  <2> QED BY <2>3, <2>5, EasesKept
<1>9. CASE h = "BR_INCREFS"
  <2> DEFINE kind == "weak"
             a == Acked(k, kind)
  <2>1. kind \in Kinds /\ r = Done(k, kind = "strong") /\ kind = "weak"
    BY <1>0, <1>9 DEF Kinds
  <2> HIDE DEF kind, a
  <2>2. a = Acked(k, kind)
    BY DEF a
  <2>3. /\ Owned(a) /\ Eases(a, r) /\ a.todo = k.todo /\ (Wanted(a.node) => Wanted(k.node))
        /\ a.node.has_weak_ref = k.node.has_weak_ref
        /\ ~ a.node.pending_weak_ref /\ SameStrong(a.node, k.node)
    BY <1>1, <1>3, <1>9, <2>1, <2>2, AckedDone
  <2>4. Takes(k.node, a.node, user, v, h)
    BY <1>5, <1>9, <2>3 DEF Takes
  <2>5. Kept(a, d, q, v)
    BY <1>6, <2>3, <2>4
  <2> QED BY <2>3, <2>5, EasesKept
<1> QED BY <1>4, <1>7, <1>8, <1>9 DEF Commands

-----------------------------------------------------------------------------
(* Without commands and transactions *)

LEMMA NoneKept ==
    ASSUME NEW s, s.node = NoNode, Empty(s.todo), NEW b, b = [t \in Threads |-> <<>>],
           NEW p, p = [t \in Threads |-> "none"]
    PROVE  Kept(s, b, p, None)
<1>1. /\ ~ NoNode.has_strong_ref /\ ~ NoNode.pending_strong_ref
      /\ ~ NoNode.has_weak_ref /\ ~ NoNode.pending_weak_ref /\ ~ Wanted(NoNode)
  BY DEF NoNode, Wanted
<1>2. \A br \in Commands : Cmds(b, br) = {}
  <2> TAKE br \in Commands
  <2>1. \A w \in Threads, i \in Nat : ~ (i \in DOMAIN b[w])
    OBVIOUS
  <2> QED BY <2>1 DEF Cmds
<1>3. \A br \in Commands : IsFiniteSet(Cmds(b, br)) /\ Cardinality(Cmds(b, br)) = 0
  BY <1>2, FS_EmptySet
<1>4. /\ Cardinality(Cmds(b, "BR_ACQUIRE")) = 0 /\ Cardinality(Cmds(b, "BR_INCREFS")) = 0
      /\ Cardinality(Cmds(b, "BR_RELEASE")) = 0 /\ Cardinality(Cmds(b, "BR_DECREFS")) = 0
  BY <1>3 DEF Commands
<1>5. None \in [Kinds -> Int] /\ None.strong = 0 /\ None.weak = 0
  BY DEF None, Kinds
<1>6. OwedOK(s.node, b, None)
  <2>1. One(FALSE) = 0 /\ 0 = 0 + 0
    BY DEF One
  <2>2. /\ One(s.node.pending_strong_ref) = 0 /\ One(s.node.pending_weak_ref) = 0
        /\ One(s.node.has_strong_ref /\ ~ s.node.pending_strong_ref) = 0
        /\ One(s.node.has_weak_ref /\ ~ s.node.pending_weak_ref) = 0
    BY <1>1 DEF One
  <2> QED BY <1>3, <1>4, <1>5, <2>1, <2>2 DEF OwedOK
<1>7. \A t \in Threads : s.todo[t] = <<>> /\ b[t] = <<>>
  BY DEF Empty, Lists
<1>8. \A x : ~ Has(<<>>, x) /\ Single(<<>>, x)
  BY DEF Has, Single
<1>9. SentOK(s.todo, b, p)
  BY <1>7, <1>8 DEF SentOK
<1>10. ToAsk(s, p) /\ AskedFor(s, b, p)
  BY <1>1 DEF ToAsk, AskedFor
<1>11. b \in [Threads -> Seq(Commands)] /\ p \in [Threads -> Sends]
  BY DEF Sends
<1> QED BY <1>5, <1>6, <1>9, <1>10, <1>11 DEF Kept

LEMMA InitKept == Init => KInv
<1> SUFFICES ASSUME Init
             PROVE  KInv
  OBVIOUS
<1>1. /\ k.node = NoNode /\ Empty(k.todo) /\ up = TRUE /\ user = None
      /\ brs = [t \in Threads |-> <<>>] /\ parcel = [t \in Threads |-> "none"]
  BY DEF Init, Empty
<1>2. Kept(k, brs, parcel, None)
  BY <1>1, NoneKept
<1> QED BY <1>1, <1>2 DEF KInv

\* Another object begins without any; its driver has forgotten the last one.
LEMMA NewObjectKept ==
    ASSUME BInv, NewObject
    PROVE  KInv'
<1> DEFINE d == brs'
           q == parcel'
<1>1. /\ k' = k /\ up' = TRUE /\ user' = None
      /\ d = [t \in Threads |-> <<>>] /\ q = [t \in Threads |-> "none"]
      /\ k.node = NoNode
  BY DEF NewObject, OwnerReset, BInv, Sound, FlagsOK
<1>2. Empty(k.todo)
  <2>1. CASE up
    BY <2>1 DEF NewObject, Empty
  <2>2. CASE ~ up
    BY <2>2 DEF BInv, NodeOK
  <2> QED BY <2>1, <2>2
<1> HIDE DEF d, q
<1>3. Kept(k, d, q, None)
  BY <1>1, <1>2, NoneKept
<1> QED BY <1>1, <1>3 DEF KInv, d, q

LEMMA OwnerDiesKept ==
    ASSUME OwnerDies
    PROVE  KInv'
<1>1. up' = FALSE /\ user' = None
  BY DEF OwnerDies, OwnerReset
<1> QED BY <1>1 DEF KInv

LEMMA StepKept == BInv /\ KInv /\ ~ Steals /\ [Next]_vars => KInv'
<1> SUFFICES ASSUME BInv, KInv, ~ Steals, [Next]_vars
             PROVE  KInv'
  OBVIOUS
<1>1. CASE UNCHANGED vars
  BY <1>1, IdleKept DEF vars
<1>2. ASSUME NEW c \in Clients, Client(c)
      PROVE  KInv'
  <2>1. CASE BC_ACQUIRE(c) \/ BC_INCREFS(c)
    BY <2>1, AcquireKept
  <2>2. ASSUME NEW kind \in Kinds, BC_RELEASE(c, kind) \/ FreeBuffer(c, kind)
        PROVE  KInv'
    BY <2>2, ReleaseKept
  <2>3. ASSUME NEW kind \in Kinds, Transact(c, kind)
        PROVE  KInv'
    BY <2>3, TransactKept
  <2>4. ASSUME NEW d \in Clients, NEW kind \in Kinds, SendHandle(c, d, kind)
        PROVE  KInv'
    BY <2>4, SendHandleKept
  <2>5. CASE \/ BC_REQUEST_DEATH_NOTIFICATION(c) \/ BC_CLEAR_DEATH_NOTIFICATION(c)
             \/ ReadDeath(c) \/ BC_DEAD_BINDER_DONE(c)
    <3>1. k' = k /\ UNCHANGED ownerVars
      BY <2>5 DEF BC_REQUEST_DEATH_NOTIFICATION, BC_CLEAR_DEATH_NOTIFICATION, ReadDeath,
                  BC_DEAD_BINDER_DONE
    <3> QED BY <3>1, IdleKept DEF ownerVars
  <2>6. CASE ClientDies(c)
    BY <2>6, ClientDiesKept
  <2> QED BY <1>2, <2>1, <2>2, <2>3, <2>4, <2>5, <2>6 DEF Client
<1>3. ASSUME NEW t \in Threads, Owner(t)
      PROVE  KInv'
  BY <1>3, ReadCompleteKept, ReadNodeKept, HandleKept DEF Owner
<1>4. ASSUME NEW t \in Threads, NEW c \in Clients, NEW kind \in Kinds,
             SendBinder(t, c, kind) \/ SendFails(t, c, kind)
      PROVE  KInv'
  BY <1>4, SendBinderKept, SendFailsKept
<1>5. ASSUME NEW kind \in Kinds, OwnerFrees(kind)
      PROVE  KInv'
  BY <1>5, OwnerFreesKept
<1>6. CASE OwnerDrops
  <2>1. k' = k /\ UNCHANGED <<up, brs, parcel, user>>
    BY <1>6 DEF OwnerDrops
  <2> QED BY <2>1, IdleKept
<1>7. CASE OwnerDies
  BY <1>7, OwnerDiesKept
<1>8. CASE NewObject
  BY <1>8, NewObjectKept
<1> QED BY <1>1, <1>2, <1>3, <1>4, <1>5, <1>6, <1>7, <1>8 DEF Next

\* The owner has the object while it is wanted: it has a reference for the
\* driver, or a thread has it in a transaction.
LEMMA InvKeeps == BInv /\ KInv => ObjectKept
<1> SUFFICES ASSUME BInv, KInv
             PROVE  ObjectKept
  OBVIOUS
<1>1. CASE ~ up
  <2>1. user = None
    BY <1>1 DEF KInv
  <2>2. None.strong = 0 /\ None.weak = 0
    BY DEF None, Kinds
  <2> QED BY <1>1, <2>1, <2>2 DEF ObjectKept
<1>2. CASE up
  <2>0. Kept(k, brs, parcel, user) /\ FlagsOK(k.node)
    BY <1>2 DEF KInv, BInv, Sound
  <2> DEFINE R == Cardinality(Cmds(brs, "BR_RELEASE"))
             D == Cardinality(Cmds(brs, "BR_DECREFS"))
             so == One(k.node.has_strong_ref /\ ~ k.node.pending_strong_ref)
             wo == One(k.node.has_weak_ref /\ ~ k.node.pending_weak_ref)
  <2>1. R \in Nat /\ D \in Nat /\ user.strong = R + so /\ user.weak = D + wo
    <3>1. IsFiniteSet(Cmds(brs, "BR_RELEASE")) /\ IsFiniteSet(Cmds(brs, "BR_DECREFS"))
      BY <2>0 DEF Kept, OwedOK, Commands
    <3> QED BY <2>0, <3>1, FS_CardinalityType DEF Kept, OwedOK
  <2>2. so \in Nat /\ wo \in Nat /\ (k.node.has_strong_ref /\ ~ k.node.pending_strong_ref => so = 1)
    BY DEF One
  <2> HIDE DEF R, D, so, wo
  <2>3. /\ user.strong >= 0 /\ user.weak >= 0
        /\ k.node.has_strong_ref /\ ~ k.node.pending_strong_ref => user.strong > 0
    BY <2>1, <2>2
  <2>4. ASSUME Wanted(k.node)
        PROVE  Alive
    <3>1. CASE ~ k.node.has_strong_ref
      BY <2>0, <2>4, <3>1 DEF Kept, ToAsk, Alive
    <3>2. CASE k.node.pending_strong_ref
      BY <2>0, <3>2 DEF Kept, AskedFor, Alive
    <3>3. CASE k.node.has_strong_ref /\ ~ k.node.pending_strong_ref
      BY <2>3, <3>3 DEF Alive
    <3> QED BY <3>1, <3>2, <3>3
  <2> QED BY <2>3, <2>4 DEF ObjectKept, Wanted
<1> QED BY <1>1, <1>2

\* While another process has a strong reference to the object, or the owner an
\* unfreed transaction to it, the owner has it, however its threads read and
\* handle commands, drop their own references and finish their transactions;
\* and it never gives up a reference that it has not taken.  Excluded is a send
\* that fails after binder_inc_node took the node's work off the list of another
\* thread that sends the object (see Steals).
THEOREM BinderObjectKept == ~ Steals => (Spec => []ObjectKept)
<1> SUFFICES ASSUME ~ Steals
             PROVE  Spec => []ObjectKept
  OBVIOUS
<1>1. Init => BInv /\ KInv
  BY InitInv, InitKept
<1>2. BInv /\ KInv /\ [Next]_vars => (BInv /\ KInv)'
  BY StepInv, StepKept
<1>3. BInv /\ KInv => ObjectKept
  BY InvKeeps
<1> QED BY <1>1, <1>2, <1>3, PTL DEF Spec
=============================================================================
