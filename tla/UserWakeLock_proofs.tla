------------------------ MODULE UserWakeLock_proofs ------------------------
(***************************************************************************)
(* Proofs about UserWakeLock, for every set of names: the tree stays in    *)
(* the order of the names, so that whatever shape it has every walk for a  *)
(* stored name ends at its node; and a timeout that fits its types is the  *)
(* time the lock is held.                                                  *)
(***************************************************************************)
EXTENDS UserWakeLock, WakeLockOps_proofs

-----------------------------------------------------------------------------
(* The order of names that strncmp and the check for a longer name give *)

Strings == Seq(Nat \ {0})

\* a comes before b: the first place where they differ decides.
Below(a, b) ==
    \E p \in Nat \ {0} :
        /\ Char(a, p) < Char(b, p)
        /\ \A q \in 1..(p - 1) : Char(a, q) = Char(b, q)

\* A name has no NUL, and reads as NUL behind its end.
LEMMA CharType ==
    ASSUME NEW s \in Strings, NEW i \in Nat \ {0}
    PROVE  Char(s, i) \in Nat /\ (Char(s, i) = 0 <=> i > Len(s))
BY DEF Char, Strings

LEMMA BelowIrreflexive ==
    ASSUME NEW s \in Strings
    PROVE  ~ Below(s, s)
BY CharType DEF Below

LEMMA BelowTransitive ==
    ASSUME NEW a \in Strings, NEW b \in Strings, NEW c \in Strings,
           Below(a, b), Below(b, c)
    PROVE  Below(a, c)
<1>1. PICK p \in Nat \ {0} : /\ Char(a, p) < Char(b, p)
                             /\ \A q \in 1..(p - 1) : Char(a, q) = Char(b, q)
  BY DEF Below
<1>2. PICK r \in Nat \ {0} : /\ Char(b, r) < Char(c, r)
                             /\ \A q \in 1..(r - 1) : Char(b, q) = Char(c, q)
  BY DEF Below
<1>3. \A i \in Nat \ {0} : Char(a, i) \in Nat /\ Char(b, i) \in Nat /\ Char(c, i) \in Nat
  BY CharType
<1>4. CASE p <= r
  <2>1. Char(a, p) < Char(c, p)
    BY <1>1, <1>2, <1>3, <1>4
  <2>2. \A q \in 1..(p - 1) : Char(a, q) = Char(c, q)
    BY <1>1, <1>2, <1>4
  <2> QED BY <2>1, <2>2 DEF Below
<1>5. CASE r < p
  <2>1. Char(a, r) < Char(c, r)
    BY <1>1, <1>2, <1>3, <1>5
  <2>2. \A q \in 1..(r - 1) : Char(a, q) = Char(c, q)
    BY <1>1, <1>2, <1>5
  <2> QED BY <2>1, <2>2 DEF Below
<1> QED BY <1>4, <1>5

\* The comparison of lookup_wake_lock_name is this order.
LEMMA CompareMeans ==
    ASSUME NEW a \in Strings, NEW b \in Strings
    PROVE  /\ Compare(a, b) \in {-1, 0, 1}
           /\ Compare(a, b) < 0 => Below(a, b)
           /\ Compare(a, b) > 0 => Below(b, a)
           /\ Compare(a, b) = 0 => a = b
<1> DEFINE differ == {i \in 1..Len(a) : a[i] # Char(b, i)}
<1>0. Len(a) \in Nat /\ Len(b) \in Nat
  BY DEF Strings
<1>1. \A i \in Nat \ {0} : Char(a, i) \in Nat /\ Char(b, i) \in Nat
  BY CharType
<1>2. \A i \in 1..Len(a) : Char(a, i) = a[i]
  BY DEF Char
<1>3. CASE differ # {}
  <2> DEFINE m == Min(differ)
  <2>1. m \in differ /\ \A y \in differ : m <= y
    <3>1. differ \subseteq Nat
      OBVIOUS
    <3> HIDE DEF differ
    <3> QED BY <1>3, <3>1, NatMin
  <2>2. Compare(a, b) = IF a[m] < Char(b, m) THEN -1 ELSE 1
    BY <1>3 DEF Compare
  <2> HIDE DEF m
  <2>3. m \in 1..Len(a) /\ a[m] # Char(b, m)
    BY <2>1
  <2>4. ASSUME NEW q \in 1..(m - 1) PROVE Char(a, q) = Char(b, q)
    <3>1. q \in 1..Len(a) /\ ~ (m <= q)
      BY <1>0, <2>3
    <3>2. q \notin differ
      BY <2>1, <3>1
    <3> QED BY <1>2, <3>1, <3>2
  <2>5. m \in Nat \ {0} /\ Char(a, m) = a[m] /\ Char(a, m) # Char(b, m)
    BY <1>0, <1>2, <2>3
  <2>6. CASE a[m] < Char(b, m)
    <3>1. Below(a, b)
      BY <2>4, <2>5, <2>6 DEF Below
    <3> QED BY <2>2, <2>6, <3>1
  <2>7. CASE ~ (a[m] < Char(b, m))
    <3>1. Char(b, m) < Char(a, m)
      BY <1>1, <2>5, <2>7
    <3>2. Below(b, a)
      BY <2>4, <2>5, <3>1 DEF Below
    <3> QED BY <2>2, <2>7, <3>2
  <2> QED BY <2>6, <2>7
<1>4. CASE differ = {}
  <2>1. Compare(a, b) = IF Len(b) > Len(a) THEN -1 ELSE 0
    BY <1>4 DEF Compare
  <2>2. \A i \in 1..Len(a) : Char(a, i) = Char(b, i)
    BY <1>2, <1>4
  <2>3. CASE Len(b) > Len(a)
    <3> DEFINE p == Len(a) + 1
    <3>1. p \in Nat \ {0} /\ p - 1 = Len(a)
      BY <1>0
    <3>2. Char(a, p) = 0 /\ Char(b, p) # 0
      BY <1>0, <2>3, <3>1, CharType
    <3>3. Char(a, p) < Char(b, p)
      BY <1>1, <3>1, <3>2
    <3> HIDE DEF p
    <3>4. Below(a, b)
      BY <2>2, <3>1, <3>3 DEF Below
    <3> QED BY <2>1, <2>3, <3>4
  <2>4. CASE ~ (Len(b) > Len(a))
    <3>1. Len(b) = Len(a)
      <4> SUFFICES ASSUME Len(b) < Len(a) PROVE FALSE
        BY <1>0, <2>4
      <4> DEFINE p == Len(b) + 1
      <4>1. p \in 1..Len(a) /\ p \in Nat \ {0} /\ p > Len(b) /\ ~ (p > Len(a))
        BY <1>0
      <4> HIDE DEF p
      <4>2. Char(b, p) = 0 /\ Char(a, p) # 0
        BY <4>1, CharType
      <4> QED BY <2>2, <4>1, <4>2
    <3>2. \A i \in 1..Len(a) : a[i] = b[i]
      BY <1>2, <2>2, <3>1 DEF Char
    <3>3. a = b
      BY <3>1, <3>2 DEF Strings
    <3> QED BY <2>1, <2>4, <3>3
  <2> QED BY <2>3, <2>4
<1> QED BY <1>3, <1>4

-----------------------------------------------------------------------------
(* What a walk through the tree finds *)

Ranges(t) == (1..(Len(t) + 1)) \X (0..Len(t))
Width(r) == r[2] - r[1] + 1

\* The outcomes when root is the node to compare with, and f gives those of
\* the walk through the nodes on either side of it.
Branch(t, name, f, r, root) ==
    CASE Compare(name, t[root]) < 0 -> f[<<r[1], root - 1>>]
      [] Compare(name, t[root]) > 0 -> f[<<root + 1, r[2]>>]
      [] OTHER -> {root}

Outcomes(t, name, f, r) ==
    IF r[1] > r[2] THEN {-r[1]}
    ELSE UNION {Branch(t, name, f, r, root) : root \in r[1]..r[2]}

\* f gives the outcomes for every range of at most k nodes.
WalksUpTo(t, name, k, f) ==
    \A r \in Ranges(t) : Width(r) <= k => f[r] = Outcomes(t, name, f, r)

LEMMA RangeType ==
    ASSUME NEW t, Len(t) \in Nat, NEW r, r \in Ranges(t)
    PROVE  /\ r[1] \in 1..(Len(t) + 1) /\ r[2] \in 0..Len(t)
           /\ r[1] \in Nat /\ r[2] \in Nat /\ Width(r) \in Int /\ Width(r) <= Len(t)
           /\ Width(r) <= 0 <=> r[1] > r[2]
BY DEF Ranges, Width

\* Both sides of a root are smaller ranges.
LEMMA Sides ==
    ASSUME NEW t, Len(t) \in Nat, NEW r, r \in Ranges(t),
           NEW root, root \in r[1]..r[2]
    PROVE  /\ root \in 1..Len(t)
           /\ <<r[1], root - 1>> \in Ranges(t) /\ Width(<<r[1], root - 1>>) < Width(r)
           /\ <<root + 1, r[2]>> \in Ranges(t) /\ Width(<<root + 1, r[2]>>) < Width(r)
           /\ Width(<<r[1], root - 1>>) \in Nat /\ Width(<<root + 1, r[2]>>) \in Nat
<1>1. /\ r[1] \in 1..(Len(t) + 1) /\ r[2] \in 0..Len(t)
      /\ root \in Int /\ r[1] <= root /\ root <= r[2]
  BY RangeType
<1> QED BY <1>1 DEF Ranges, Width

\* The outcomes of a range depend on those of smaller ranges only.
LEMMA OutcomesCongruent ==
    ASSUME NEW t, Len(t) \in Nat, NEW name, NEW r, r \in Ranges(t), NEW f, NEW g,
           \A q \in Ranges(t) : Width(q) < Width(r) => f[q] = g[q]
    PROVE  Outcomes(t, name, f, r) = Outcomes(t, name, g, r)
<1>1. ASSUME NEW root, root \in r[1]..r[2]
      PROVE  Branch(t, name, f, r, root) = Branch(t, name, g, r, root)
  <2>1. f[<<r[1], root - 1>>] = g[<<r[1], root - 1>>]
    BY <1>1, Sides
  <2>2. f[<<root + 1, r[2]>>] = g[<<root + 1, r[2]>>]
    BY <1>1, Sides
  <2> QED BY <2>1, <2>2 DEF Branch
<1> DEFINE S == r[1]..r[2]
<1> HIDE DEF S
<1>2. {Branch(t, name, f, r, root) : root \in S} = {Branch(t, name, g, r, root) : root \in S}
  BY <1>1 DEF S
<1> QED BY <1>2 DEF Outcomes, S

\* The equation of the walk has a solution.
LEMMA WalkExists ==
    ASSUME NEW t, Len(t) \in Nat, NEW name
    PROVE  \E f : f = [r \in Ranges(t) |-> Outcomes(t, name, f, r)]
<1> DEFINE n == Len(t)
           Bad == {k \in 0..n : ~ \E f : WalksUpTo(t, name, k, f)}
<1>1. Bad = {}
  <2>1. SUFFICES ASSUME Bad # {} PROVE FALSE
    OBVIOUS
  <2>2. PICK k \in Bad : \A y \in Bad : k <= y
    <3>1. Bad \subseteq Nat
      OBVIOUS
    <3> HIDE DEF Bad
    <3> QED BY <2>1, <3>1, NatMin
  <2>3. k \in 0..n /\ ~ \E f : WalksUpTo(t, name, k, f)
    OBVIOUS
  <2>4. k # 0
    <3> DEFINE b == [r \in Ranges(t) |-> {-r[1]}]
    <3>1. ASSUME NEW r, r \in Ranges(t), Width(r) <= 0
          PROVE  b[r] = Outcomes(t, name, b, r)
      <4>1. r[1] > r[2]
        BY <3>1, RangeType
      <4>2. Outcomes(t, name, b, r) = {-r[1]}
        BY <4>1 DEF Outcomes
      <4> QED BY <3>1, <4>2
    <3> HIDE DEF b
    <3>2. WalksUpTo(t, name, 0, b)
      BY <3>1 DEF WalksUpTo
    <3> QED BY <2>3, <3>2
  <2>5. k - 1 \in 0..n /\ k - 1 \notin Bad
    BY <2>2, <2>3, <2>4
  <2>6. PICK g : WalksUpTo(t, name, k - 1, g)
    BY <2>5
  <2> DEFINE h == [r \in Ranges(t) |-> IF Width(r) = k THEN Outcomes(t, name, g, r) ELSE g[r]]
  <2>7. ASSUME NEW r, r \in Ranges(t), Width(r) <= k
        PROVE  h[r] = Outcomes(t, name, h, r)
    <3>1. \A q \in Ranges(t) : Width(q) < Width(r) => h[q] = g[q]
      <4> SUFFICES ASSUME NEW q \in Ranges(t), Width(q) < Width(r) PROVE h[q] = g[q]
        OBVIOUS
      <4>1. Width(q) # k
        BY <2>3, <2>7, RangeType
      <4> QED BY <4>1
    <3> DEFINE e == h
    <3>2. Outcomes(t, name, h, r) = Outcomes(t, name, g, r)
      <4> HIDE DEF h
      <4> QED BY <2>7, <3>1, OutcomesCongruent
    <3>3. h[r] = Outcomes(t, name, g, r)
      <4>1. CASE Width(r) = k
        BY <2>7, <4>1
      <4>2. CASE Width(r) # k
        <5>1. Width(r) <= k - 1
          BY <2>3, <2>7, <4>2, RangeType
        <5>2. g[r] = Outcomes(t, name, g, r)
          BY <2>6, <2>7, <5>1 DEF WalksUpTo
        <5> QED BY <2>7, <4>2, <5>2
      <4> QED BY <4>1, <4>2
    <3> QED BY <3>2, <3>3
  <2>8. WalksUpTo(t, name, k, h)
    <3> HIDE DEF h
    <3> QED BY <2>7 DEF WalksUpTo
  <2> QED BY <2>3, <2>8
<1>2. PICK g : WalksUpTo(t, name, n, g)
  BY <1>1
<1> DEFINE f == [r \in Ranges(t) |-> g[r]]
<1>3. ASSUME NEW r, r \in Ranges(t) PROVE f[r] = Outcomes(t, name, f, r)
  <2>1. g[r] = Outcomes(t, name, g, r)
    BY <1>2, <1>3, RangeType DEF WalksUpTo
  <2>2. \A q \in Ranges(t) : Width(q) < Width(r) => f[q] = g[q]
    OBVIOUS
  <2>4. f[r] = g[r]
    BY <1>3
  <2> HIDE DEF f
  <2>3. Outcomes(t, name, f, r) = Outcomes(t, name, g, r)
    BY <1>3, <2>2, OutcomesCongruent
  <2> QED BY <2>1, <2>3, <2>4
<1>4. f = [r \in Ranges(t) |-> f[r]]
  OBVIOUS
<1> HIDE DEF f
<1>5. f = [r \in Ranges(t) |-> Outcomes(t, name, f, r)]
  BY <1>3, <1>4
<1> QED BY <1>5

\* A walk ends at a node with the name, or between two nodes that the name
\* belongs between.
Ends(t, name, lo, hi, w) ==
    \/ w \in lo..hi /\ Compare(name, t[w]) = 0
    \/ \E g \in lo..(hi + 1) :
          /\ w = -g
          /\ g > lo => Compare(name, t[g - 1]) > 0
          /\ g <= hi => Compare(name, t[g]) < 0

WellEnded(t, name, S, r) ==
    S # {} /\ \A w \in S : Ends(t, name, r[1], r[2], w)

Compares(t, name) == \A i \in 1..Len(t) : Compare(name, t[i]) \in {-1, 0, 1}

LEMMA BranchEnds ==
    ASSUME NEW t, Len(t) \in Nat, NEW name, Compares(t, name), NEW f,
           NEW r, r \in Ranges(t), NEW root, root \in r[1]..r[2],
           WellEnded(t, name, f[<<r[1], root - 1>>], <<r[1], root - 1>>),
           WellEnded(t, name, f[<<root + 1, r[2]>>], <<root + 1, r[2]>>)
    PROVE  WellEnded(t, name, Branch(t, name, f, r, root), r)
<1> DEFINE lo == r[1]
           hi == r[2]
           A == f[<<r[1], root - 1>>]
           B == f[<<root + 1, r[2]>>]
           c == Compare(name, t[root])
<1>1. lo \in Nat /\ hi \in Nat /\ root \in Int /\ lo <= root /\ root <= hi
  BY RangeType
<1>2. c \in {-1, 0, 1}
  BY Sides DEF Compares
<1>3. A # {} /\ \A w \in A : Ends(t, name, lo, root - 1, w)
  BY DEF WellEnded
<1>4. B # {} /\ \A w \in B : Ends(t, name, root + 1, hi, w)
  BY DEF WellEnded
<1>5. Branch(t, name, f, r, root) = IF c < 0 THEN A ELSE IF c > 0 THEN B ELSE {root}
  BY <1>2 DEF Branch
<1> SUFFICES /\ Branch(t, name, f, r, root) # {}
             /\ \A w \in Branch(t, name, f, r, root) : Ends(t, name, lo, hi, w)
  BY DEF WellEnded
<1>9. c = Compare(name, t[root])
  OBVIOUS
<1> HIDE DEF lo, hi, A, B, c
<1>6. CASE c < 0
  <2>1. ASSUME NEW w, w \in A PROVE Ends(t, name, lo, hi, w)
    <3>1. CASE w \in lo..(root - 1) /\ Compare(name, t[w]) = 0
      BY <1>1, <3>1 DEF Ends
    <3>2. ASSUME NEW g, g \in lo..((root - 1) + 1), w = -g,
                 g > lo => Compare(name, t[g - 1]) > 0,
                 g <= root - 1 => Compare(name, t[g]) < 0
          PROVE  Ends(t, name, lo, hi, w)
      <4>1. g \in lo..(hi + 1) /\ (g <= root - 1 \/ g = root)
        BY <1>1, <3>2
      <4>2. Compare(name, t[g]) < 0
        BY <1>6, <1>9, <3>2, <4>1
      <4> QED BY <3>2, <4>1, <4>2 DEF Ends
    <3> QED BY <1>3, <2>1, <3>1, <3>2 DEF Ends
  <2> QED BY <1>3, <1>5, <1>6, <2>1
<1>7. CASE c > 0
  <2>1. ASSUME NEW w, w \in B PROVE Ends(t, name, lo, hi, w)
    <3>1. CASE w \in (root + 1)..hi /\ Compare(name, t[w]) = 0
      BY <1>1, <3>1 DEF Ends
    <3>2. ASSUME NEW g, g \in (root + 1)..(hi + 1), w = -g,
                 g > root + 1 => Compare(name, t[g - 1]) > 0,
                 g <= hi => Compare(name, t[g]) < 0
          PROVE  Ends(t, name, lo, hi, w)
      <4>1. g \in lo..(hi + 1) /\ (g > root + 1 \/ g - 1 = root)
        BY <1>1, <3>2
      <4>2. Compare(name, t[g - 1]) > 0
        BY <1>7, <1>9, <3>2, <4>1
      <4> QED BY <3>2, <4>1, <4>2 DEF Ends
    <3> QED BY <1>4, <2>1, <3>1, <3>2 DEF Ends
  <2>2. ~ (c < 0)
    BY <1>2, <1>7
  <2> QED BY <1>4, <1>5, <1>7, <2>1, <2>2
<1>8. CASE c = 0
  <2>1. Ends(t, name, lo, hi, root)
    BY <1>1, <1>8, <1>9 DEF Ends
  <2> QED BY <1>5, <1>8, <2>1
<1> QED BY <1>2, <1>6, <1>7, <1>8

\* Every walk ends somewhere, and where it should.
LEMMA WalkEnds ==
    ASSUME NEW t, Len(t) \in Nat, NEW name, Compares(t, name)
    PROVE  /\ Walk(t, name) # {}
           /\ \A w \in Walk(t, name) : Ends(t, name, 1, Len(t), w)
<1> DEFINE Eq(f) == f = [r \in (1..(Len(t) + 1)) \X (0..Len(t)) |->
              IF r[1] > r[2]
              THEN {-r[1]}
              ELSE UNION { CASE Compare(name, t[root]) < 0 -> f[<<r[1], root - 1>>]
                             [] Compare(name, t[root]) > 0 -> f[<<root + 1, r[2]>>]
                             [] OTHER -> {root}
                           : root \in r[1]..r[2] }]
           a == CHOOSE f : Eq(f)
<1>1. PICK f : f = [r \in Ranges(t) |-> Outcomes(t, name, f, r)]
  BY WalkExists
<1>2. Eq(f)
  BY <1>1, Zenon DEF Ranges, Outcomes, Branch
<1>3. Eq(a)
  BY <1>2, Zenon
<1>4. Walk(t, name) = a[<<1, Len(t)>>]
  BY DEF Walk
<1>5. a = [r \in Ranges(t) |-> Outcomes(t, name, a, r)]
  <2> HIDE DEF a
  <2> QED BY <1>3, Zenon DEF Ranges, Outcomes, Branch
<1> HIDE DEF a
<1>6. \A r \in Ranges(t) : a[r] = Outcomes(t, name, a, r)
  BY <1>5
<1> DEFINE Wrong == {r \in Ranges(t) : Width(r) \in Nat /\ ~ WellEnded(t, name, a[r], r)}
           Bad == {Width(r) : r \in Wrong}
<1>7. Wrong = {}
  <2>1. SUFFICES ASSUME Bad # {} PROVE FALSE
    OBVIOUS
  <2>2. PICK k \in Bad : \A y \in Bad : k <= y
    <3>1. Bad \subseteq Nat
      OBVIOUS
    <3> HIDE DEF Bad
    <3> QED BY <2>1, <3>1, NatMin
  <2>3. PICK r \in Wrong : k = Width(r)
    OBVIOUS
  <2>4. r \in Ranges(t) /\ Width(r) \in Nat /\ ~ WellEnded(t, name, a[r], r)
    OBVIOUS
  <2>5. ASSUME NEW q \in Ranges(t), Width(q) \in Nat, Width(q) < Width(r)
        PROVE  WellEnded(t, name, a[q], q)
    <3> SUFFICES ASSUME q \in Wrong PROVE FALSE
      BY <2>5
    <3>1. Width(q) \in Bad
      OBVIOUS
    <3> HIDE DEF Bad, Wrong
    <3> QED BY <2>2, <2>3, <2>4, <2>5, <3>1
  <2> HIDE DEF Bad, Wrong
  <2>6. CASE r[1] > r[2]
    <3>1. a[r] = {-r[1]}
      BY <1>6, <2>4, <2>6 DEF Outcomes
    <3>2. r[1] = r[2] + 1 /\ r[1] \in Nat /\ r[2] \in Nat
      BY <2>4, <2>6, RangeType DEF Width
    <3>3. Ends(t, name, r[1], r[2], -r[1])
      BY <3>2 DEF Ends
    <3> QED BY <2>4, <3>1, <3>3 DEF WellEnded
  <2>7. CASE ~ (r[1] > r[2])
    <3>1. a[r] = UNION {Branch(t, name, a, r, root) : root \in r[1]..r[2]}
      BY <1>6, <2>4, <2>7 DEF Outcomes
    <3>2. ASSUME NEW root, root \in r[1]..r[2]
          PROVE  WellEnded(t, name, Branch(t, name, a, r, root), r)
      <4>1. /\ <<r[1], root - 1>> \in Ranges(t)
            /\ Width(<<r[1], root - 1>>) \in Nat /\ Width(<<r[1], root - 1>>) < Width(r)
            /\ <<root + 1, r[2]>> \in Ranges(t)
            /\ Width(<<root + 1, r[2]>>) \in Nat /\ Width(<<root + 1, r[2]>>) < Width(r)
        BY <2>4, <3>2, Sides
      <4>2. WellEnded(t, name, a[<<r[1], root - 1>>], <<r[1], root - 1>>)
        BY <2>5, <4>1
      <4>3. WellEnded(t, name, a[<<root + 1, r[2]>>], <<root + 1, r[2]>>)
        BY <2>5, <4>1
      <4> QED BY <2>4, <3>2, <4>2, <4>3, BranchEnds
    <3>3. r[1] \in r[1]..r[2]
      BY <2>4, <2>7, RangeType
    <3>4. ASSUME NEW w, w \in a[r] PROVE Ends(t, name, r[1], r[2], w)
      <4>1. PICK root \in r[1]..r[2] : w \in Branch(t, name, a, r, root)
        BY <3>1, <3>4
      <4> QED BY <3>2, <4>1 DEF WellEnded
    <3>5. a[r] # {}
      <4>1. PICK w : w \in Branch(t, name, a, r, r[1])
        BY <3>2, <3>3 DEF WellEnded
      <4>2. w \in a[r]
        BY <3>1, <3>3, <4>1
      <4> QED BY <4>2
    <3> QED BY <2>4, <3>4, <3>5 DEF WellEnded
  <2> QED BY <2>6, <2>7
<1>8. <<1, Len(t)>> \in Ranges(t) /\ Width(<<1, Len(t)>>) \in Nat
  BY DEF Ranges, Width
<1>9. WellEnded(t, name, a[<<1, Len(t)>>], <<1, Len(t)>>)
  BY <1>7, <1>8
<1> QED BY <1>4, <1>9 DEF WellEnded

-----------------------------------------------------------------------------
(* The order of the tree *)

Sorted(t) ==
    \A i, j \in 1..Len(t) : i < j => Below(t[i], t[j])

\* Linking a node behind the last one
LEMMA InsertAtEnd ==
    ASSUME NEW S, NEW s \in Seq(S), NEW h \in S
    PROVE  InsertAt(s, Len(s) + 1, h) = Append(s, h)
<1>1. SubSeq(s, 1, (Len(s) + 1) - 1) = s
  OBVIOUS
<1>2. SubSeq(s, Len(s) + 1, Len(s)) = << >>
  OBVIOUS
<1>3. InsertAt(s, Len(s) + 1, h) = (s \o <<h>>) \o << >>
  BY <1>1, <1>2 DEF InsertAt
<1> QED BY <1>3

\* What the tree consists of after rb_link_node
LEMMA Linked ==
    ASSUME NEW t \in Seq(Names), NEW name \in Names, NEW g \in 1..(Len(t) + 1),
           NEW q, q = rb_link_node(t, name, g)
    PROVE  /\ q \in Seq(Names) /\ Len(q) = Len(t) + 1
           /\ \A i \in 1..Len(q) :
                 q[i] = IF i < g THEN t[i] ELSE IF i = g THEN name ELSE t[i - 1]
<1>1. q = IF g = Len(t) + 1 THEN Append(t, name) ELSE InsertAt(t, g, name)
  BY InsertAtEnd DEF rb_link_node
<1> QED BY ONLY <1>1, t \in Seq(Names), name \in Names, g \in 1..(Len(t) + 1), InsertElements

\* Names are strings, and walks for them compare properly.
LEMMA NamesCompare ==
    ASSUME NEW t \in Seq(Names), NEW name \in Names
    PROVE  /\ Len(t) \in Nat /\ Compares(t, name) /\ name \in Strings
           /\ \A i \in 1..Len(t) : t[i] \in Names /\ t[i] \in Strings
<1>1. \A s \in Names : s \in Strings
  BY UserAssumption DEF Strings
<1>2. \A i \in 1..Len(t) : t[i] \in Names
  OBVIOUS
<1> QED BY <1>1, <1>2, CompareMeans DEF Compares

\* A walk that finds a node has found the name; one that does not ends at the
\* place where the name keeps the order.
LEMMA WalkMeans ==
    ASSUME NEW t \in Seq(Names), NEW name \in Names, NEW w \in Walk(t, name)
    PROVE  /\ w > 0 => w \in 1..Len(t) /\ t[w] = name
           /\ w < 0 => /\ -w \in 1..(Len(t) + 1)
                       /\ -w > 1 => Below(t[(-w) - 1], name)
                       /\ -w <= Len(t) => Below(name, t[-w])
           /\ w \in Int /\ w # 0
<1>1. /\ Len(t) \in Nat /\ Compares(t, name) /\ name \in Strings
      /\ \A i \in 1..Len(t) : t[i] \in Strings
  BY NamesCompare
<1>2. Ends(t, name, 1, Len(t), w)
  BY <1>1, WalkEnds
<1>3. CASE w \in 1..Len(t) /\ Compare(name, t[w]) = 0
  <2>1. t[w] = name
    BY <1>1, <1>3, CompareMeans
  <2> QED BY <1>1, <1>3, <2>1
<1>4. ASSUME NEW g, g \in 1..(Len(t) + 1), w = -g,
             g > 1 => Compare(name, t[g - 1]) > 0,
             g <= Len(t) => Compare(name, t[g]) < 0
      PROVE  /\ g > 1 => Below(t[g - 1], name)
             /\ g <= Len(t) => Below(name, t[g])
  <2>1. ASSUME g > 1 PROVE Below(t[g - 1], name)
    <3>1. g - 1 \in 1..Len(t)
      BY <1>1, <1>4, <2>1
    <3> QED BY <1>1, <1>4, <2>1, <3>1, CompareMeans
  <2>2. ASSUME g <= Len(t) PROVE Below(name, t[g])
    <3>1. g \in 1..Len(t)
      BY <1>1, <1>4, <2>2
    <3> QED BY <1>1, <1>4, <2>2, <3>1, CompareMeans
  <2> QED BY <2>1, <2>2
<1>5. CASE \E g \in 1..(Len(t) + 1) : /\ w = -g
                                      /\ g > 1 => Compare(name, t[g - 1]) > 0
                                      /\ g <= Len(t) => Compare(name, t[g]) < 0
  <2>1. PICK g \in 1..(Len(t) + 1) : /\ w = -g
                                     /\ g > 1 => Compare(name, t[g - 1]) > 0
                                     /\ g <= Len(t) => Compare(name, t[g]) < 0
    BY <1>5
  <2>2. /\ g > 1 => Below(t[g - 1], name)
        /\ g <= Len(t) => Below(name, t[g])
    BY <1>4, <2>1
  <2>3. g = -w /\ g \in Nat /\ w < 0 /\ w \in Int
    BY <1>1, <2>1
  <2> QED BY <2>1, <2>2, <2>3
<1> QED BY <1>2, <1>3, <1>5 DEF Ends

\* A name linked where it belongs keeps the tree in order.
LEMMA LinkKeepsOrder ==
    ASSUME NEW t \in Seq(Names), Sorted(t), NEW name \in Names,
           NEW g \in 1..(Len(t) + 1),
           g > 1 => Below(t[g - 1], name), g <= Len(t) => Below(name, t[g]),
           NEW q, q = rb_link_node(t, name, g)
    PROVE  q \in Seq(Names) /\ Sorted(q)
<1>1. /\ q \in Seq(Names) /\ Len(q) = Len(t) + 1
      /\ \A i \in 1..Len(q) :
            q[i] = IF i < g THEN t[i] ELSE IF i = g THEN name ELSE t[i - 1]
  BY Linked
<1>2. /\ Len(t) \in Nat /\ name \in Strings /\ \A i \in 1..Len(t) : t[i] \in Strings
  BY NamesCompare
<1>3. \A i \in 1..Len(t) : i < g => Below(t[i], name)
  <2> SUFFICES ASSUME NEW i \in 1..Len(t), i < g PROVE Below(t[i], name)
    OBVIOUS
  <2>1. g - 1 \in 1..Len(t) /\ g > 1 /\ (i = g - 1 \/ i < g - 1)
    BY <1>2
  <2>2. i < g - 1 => Below(t[i], t[g - 1])
    BY <2>1 DEF Sorted
  <2> QED BY <1>2, <2>1, <2>2, BelowTransitive
<1>4. \A j \in 1..Len(t) : j >= g => Below(name, t[j])
  <2> SUFFICES ASSUME NEW j \in 1..Len(t), j >= g PROVE Below(name, t[j])
    OBVIOUS
  <2>1. g \in 1..Len(t) /\ g <= Len(t) /\ (j = g \/ g < j)
    BY <1>2
  <2>2. g < j => Below(t[g], t[j])
    BY <2>1 DEF Sorted
  <2> QED BY <1>2, <2>1, <2>2, BelowTransitive
<1>5. ASSUME NEW i \in 1..Len(q), NEW j \in 1..Len(q), i < j PROVE Below(q[i], q[j])
  <2>0. i \in Nat /\ j \in Nat /\ g \in Nat /\ i >= 1 /\ j <= Len(t) + 1
    BY <1>1, <1>2
  <2>1. CASE j < g
    <3>1. q[i] = t[i] /\ q[j] = t[j] /\ i \in 1..Len(t) /\ j \in 1..Len(t)
      BY <1>1, <1>2, <1>5, <2>0, <2>1
    <3> QED BY <1>5, <3>1 DEF Sorted
  <2>2. CASE j = g
    <3>1. q[i] = t[i] /\ q[j] = name /\ i \in 1..Len(t) /\ i < g
      BY <1>1, <1>2, <1>5, <2>0, <2>2
    <3> QED BY <1>3, <3>1
  <2>3. CASE j > g /\ i < g
    <3>1. /\ q[i] = t[i] /\ q[j] = t[j - 1] /\ i \in 1..Len(t)
          /\ j - 1 \in 1..Len(t) /\ j - 1 >= g /\ i < j - 1
      BY <1>1, <1>2, <1>5, <2>0, <2>3
    <3> QED BY <3>1 DEF Sorted
  <2>4. CASE j > g /\ i = g
    <3>1. q[i] = name /\ q[j] = t[j - 1] /\ j - 1 \in 1..Len(t) /\ j - 1 >= g
      BY <1>1, <1>2, <1>5, <2>0, <2>4
    <3> QED BY <1>4, <3>1
  <2>5. CASE i > g
    <3>1. /\ q[i] = t[i - 1] /\ q[j] = t[j - 1] /\ i - 1 \in 1..Len(t)
          /\ j - 1 \in 1..Len(t) /\ i - 1 < j - 1
      BY <1>1, <1>2, <1>5, <2>0, <2>5
    <3> QED BY <3>1 DEF Sorted
  <2> QED BY <2>0, <2>1, <2>2, <2>3, <2>4, <2>5
<1>6. Sorted(q)
  BY <1>5 DEF Sorted
<1> QED BY <1>1, <1>6

\* In an ordered tree every walk for a stored name ends at its node.
LEMMA OrderedFinds ==
    ASSUME NEW t \in Seq(Names), Sorted(t), NEW i \in 1..Len(t)
    PROVE  Walk(t, t[i]) = {i}
<1>1. /\ Len(t) \in Nat /\ t[i] \in Names /\ Compares(t, t[i])
      /\ \A j \in 1..Len(t) : t[j] \in Strings
  <2>1. t[i] \in Names
    OBVIOUS
  <2> QED BY <2>1, NamesCompare
<1>2. ASSUME NEW a \in 1..Len(t), NEW b \in 1..Len(t), Below(t[a], t[b])
      PROVE  a < b
  <2> SUFFICES ASSUME ~ (a < b) PROVE FALSE
    OBVIOUS
  <2>1. t[a] \in Strings /\ t[b] \in Strings
    BY <1>1
  <2>2. a = b \/ Below(t[b], t[a])
    BY <1>1 DEF Sorted
  <2> QED BY <1>2, <2>1, <2>2, BelowIrreflexive, BelowTransitive
<1>3. ASSUME NEW w \in Walk(t, t[i]) PROVE w = i
  <2>1. /\ w > 0 => w \in 1..Len(t) /\ t[w] = t[i]
        /\ w < 0 => /\ -w \in 1..(Len(t) + 1)
                    /\ -w > 1 => Below(t[(-w) - 1], t[i])
                    /\ -w <= Len(t) => Below(t[i], t[-w])
        /\ w \in Int /\ w # 0
    BY <1>1, <1>3, WalkMeans
  <2>2. CASE w > 0
    <3>1. w \in 1..Len(t) /\ t[w] = t[i]
      BY <2>1, <2>2
    <3>2. ~ Below(t[w], t[i]) /\ ~ Below(t[i], t[w])
      BY <1>1, <3>1, BelowIrreflexive
    <3> QED BY <1>1, <3>1, <3>2 DEF Sorted
  <2>3. CASE w < 0
    <3> DEFINE g == -w
    <3>1. g \in 1..(Len(t) + 1) /\ (g > 1 => Below(t[g - 1], t[i]))
          /\ (g <= Len(t) => Below(t[i], t[g]))
      BY <2>1, <2>3
    <3> HIDE DEF g
    <3>2. g > 1 => g - 1 < i
      BY <1>1, <1>2, <3>1
    <3>3. g <= Len(t) => i < g
      BY <1>1, <1>2, <3>1
    <3> QED BY <1>1, <3>1, <3>2, <3>3
  <2> QED BY <2>1, <2>2, <2>3
<1>4. Walk(t, t[i]) # {}
  BY <1>1, WalkEnds
<1> QED BY <1>3, <1>4

-----------------------------------------------------------------------------
(* From nanoseconds to jiffies *)

LEMMA DivBounds ==
    ASSUME NEW x \in Nat, NEW d \in Nat \ {0}, NEW q, q = x \div d
    PROVE  q \in Nat /\ d * q <= x /\ x < d * q + d
BY Z3

LEMMA ModBounds ==
    ASSUME NEW x \in Nat, NEW d \in Nat \ {0}
    PROVE  /\ x % d \in 0..(d - 1) /\ x % d \in Nat
           /\ x < d => x % d = x
OBVIOUS

\* Whatever overflows on the way, the timeout is a number of jiffies that a
\* long can hold.
LEMMA TimeoutType ==
    ASSUME NEW ns \in Timeouts \cup {NoTimeout}
    PROVE  /\ timeoutptr(ns) \in Int
           /\ Jiffies(timeoutptr(ns)) \in 0..MaxTimeout
<1>0. /\ U64 \in Nat \ {0} /\ LONG \in Nat \ {0} /\ JiffyNs \in Nat \ {0}
      /\ LONG \div 2 <= MaxTimeout + 1 /\ MaxTimeout \in Nat \ {0}
  BY UserAssumption, LockAssumption
<1>1. CASE ns = NoTimeout
  BY <1>0, <1>1 DEF timeoutptr, Jiffies
<1>2. CASE ns # NoTimeout
  <2>1. ns \in Nat
    <3>1. ns \in 0..(U64 - 1)
      BY <1>2, UserAssumption
    <3> QED BY <3>1
  <2> DEFINE x == (ns + JiffyNs - 1) % U64
             q == x \div JiffyNs
             j == ToJiffies(ns)
             r == j % LONG
             half == LONG \div 2
  <2>2. x \in Nat
    <3>1. ns + JiffyNs - 1 \in Nat
      BY <1>0, <2>1
    <3> QED BY <1>0, <3>1, ModBounds
  <2>3. q \in Nat
    <3> HIDE DEF x
    <3> QED BY <1>0, <2>2, DivBounds
  <2>4. j = IF q <= 0 THEN 1 ELSE q
    BY DEF ToJiffies
  <2> HIDE DEF q, j
  <2>5. j \in Nat
    BY <2>3, <2>4
  <2>6. r \in 0..(LONG - 1)
    BY <1>0, <2>5, ModBounds
  <2>7. half \in Nat /\ half <= MaxTimeout + 1
    BY <1>0
  <2>8. timeoutptr(ns) = IF r >= half THEN r - LONG ELSE r
    BY <1>2 DEF timeoutptr, ToLong, j
  <2> HIDE DEF r, half
  <2>9. r \in Int /\ LONG \in Int /\ r - LONG \in Int /\ r >= 0 /\ r - LONG < 0
    BY <1>0, <2>6
  <2> QED BY <1>0, <2>7, <2>8, <2>9 DEF Jiffies
<1> QED BY <1>1, <1>2

\* The rounding does not overflow a u64, nor the result a long.
Fits ==
    \A ns \in Timeouts : ns + JiffyNs - 1 < U64 /\ ToJiffies(ns) < LONG \div 2

\* j jiffies are the time ns, rounded up.
RoundedUp(j, ns) ==
    /\ j \in 1..MaxTimeout
    /\ j * JiffyNs >= ns
    /\ ns > 0 => (j - 1) * JiffyNs < ns
    /\ ns = 0 => j = 1

LEMMA TimeoutRounded ==
    ASSUME Fits, NEW ns \in Timeouts
    PROVE  /\ ns # NoTimeout /\ timeoutptr(ns) # 0
           /\ RoundedUp(Jiffies(timeoutptr(ns)), ns)
<1>0. /\ U64 \in Nat \ {0} /\ LONG \in Nat \ {0} /\ JiffyNs \in Nat \ {0}
      /\ LONG \div 2 <= MaxTimeout + 1 /\ MaxTimeout \in Nat \ {0}
  BY UserAssumption, LockAssumption
<1>1. ns \in Nat /\ ns # NoTimeout
  <2>1. ns \in 0..(U64 - 1)
    BY UserAssumption
  <2> QED BY <2>1 DEF NoTimeout
<1> DEFINE x == ns + JiffyNs - 1
           q == x \div JiffyNs
           j == ToJiffies(ns)
           half == LONG \div 2
<1>2. x \in Nat /\ x < U64 /\ j < half
  BY <1>0, <1>1 DEF Fits
<1>3. x % U64 = x
  <2> HIDE DEF x
  <2> QED BY <1>0, <1>2, ModBounds
<1>4. j = IF q <= 0 THEN 1 ELSE q
  BY <1>3 DEF ToJiffies
<1>5. q \in Nat /\ JiffyNs * q <= x /\ x < JiffyNs * q + JiffyNs
  <2> HIDE DEF x
  <2> QED BY <1>0, <1>2, DivBounds
<1>6. half \in Nat /\ half <= MaxTimeout + 1 /\ half <= LONG
  BY <1>0
<1> HIDE DEF q
<1> DEFINE p == JiffyNs * q
<1>7. p \in Nat /\ (q = 0 => p = 0) /\ (q = 1 => p = JiffyNs)
  BY <1>0, <1>5
<1>8. p <= ns + JiffyNs - 1 /\ ns + JiffyNs - 1 < p + JiffyNs
  BY <1>5
<1>9. q = 0 <=> ns = 0
  <2>1. CASE q = 0
    <3> HIDE DEF p
    <3> QED BY <1>0, <1>1, <1>7, <1>8, <2>1
  <2>2. CASE ns = 0
    <3>1. q >= 1 => p >= JiffyNs
      BY <1>0, <1>5
    <3> HIDE DEF p
    <3> QED BY <1>0, <1>5, <1>7, <1>8, <2>2, <3>1
  <2> QED BY <2>1, <2>2
<1>10. j \in Nat /\ j >= 1 /\ j <= MaxTimeout /\ j < LONG
  <2> HIDE DEF j, half
  <2> QED BY <1>0, <1>2, <1>4, <1>5, <1>6
<1>11. timeoutptr(ns) = j
  <2>1. j % LONG = j
    <3> HIDE DEF j
    <3> QED BY <1>0, <1>10, ModBounds
  <2>2. ~ (j >= half)
    <3> HIDE DEF j, half
    <3> QED BY <1>2, <1>6, <1>10
  <2> QED BY <1>1, <2>1, <2>2 DEF timeoutptr, ToLong
<1>12. RoundedUp(j, ns)
  <2> HIDE DEF j
  <2>1. CASE q = 0
    <3>1. j = 1 /\ ns = 0
      BY <1>4, <1>9, <2>1
    <3> QED BY <1>0, <3>1 DEF RoundedUp
  <2>2. CASE q # 0
    <3>1. j = q /\ ns > 0
      BY <1>1, <1>4, <1>5, <1>9, <2>2
    <3>2. j * JiffyNs = p /\ (j - 1) * JiffyNs = p - JiffyNs
      BY <1>0, <1>5, <3>1
    <3> HIDE DEF p
    <3> QED BY <1>0, <1>1, <1>7, <1>8, <1>10, <3>1, <3>2 DEF RoundedUp
  <2> QED BY <2>1, <2>2
<1>13. Jiffies(j) = j
  <2> HIDE DEF j
  <2> QED BY <1>10 DEF Jiffies
<1> HIDE DEF j
<1> QED BY <1>1, <1>10, <1>11, <1>12, <1>13

-----------------------------------------------------------------------------
(* The steps *)

\* The inductive invariant: the types, and the tree in the order of names.
Inv == TypeOK /\ Sorted(tree)

\* User locks are of the suspend type.
LEMMA NamesAreSuspend ==
    ASSUME NEW l \in Names
    PROVE  l \in Locks /\ LockType(l) = WAKE_LOCK_SUSPEND
BY UserAssumption DEF LockType

\* A lock taken with a timeout is held for that time.
HeldFor(r, l, h, t) ==
    h /\ t # 0 => l \in r.active /\ l \in r.autoExpire /\ r.left[l] = t

LEMMA TimedLockHeld ==
    ASSUME NEW w \in LockStates, NEW l \in Names,
           NEW h \in BOOLEAN, NEW t \in 0..MaxTimeout
    PROVE  HeldFor(wake_lock_internal(w, l, h, t), l, h, t)
<1> DEFINE r == wake_lock_internal(w, l, h, t)
<1>0. SUFFICES ASSUME h, t # 0 PROVE l \in r.active /\ l \in r.autoExpire /\ r.left[l] = t
  BY DEF HeldFor
<1> DEFINE a == Locked(w, l, h, t)
<1>1. /\ w \in LockStates /\ l \in Locks /\ LockType(l) = WAKE_LOCK_SUSPEND
      /\ h \in BOOLEAN /\ t \in 0..MaxTimeout /\ t # 0
  BY <1>0, NamesAreSuspend
<1>2. /\ a \in LockStates /\ a.active = w.active \cup {l}
      /\ a.autoExpire = w.autoExpire \cup {l} /\ a.left[l] = t
  <2>1. /\ a \in LockStates /\ a.active = w.active \cup {l}
        /\ h => a.autoExpire = w.autoExpire \cup {l}
        /\ a.left[l] = IF h THEN t ELSE 0
    BY ONLY <1>1, LockedEffect
  <2> QED BY <1>0, <2>1
<1>3. r = Reap(a, WAKE_LOCK_SUSPEND)
  BY <1>0, <1>1 DEF wake_lock_internal
<1> HIDE DEF a, r
<1>4. /\ r.left = a.left
      /\ \A k \in a.active \ r.active : Expired(a, k)
      /\ r.autoExpire = a.autoExpire \ (a.active \ r.active)
  BY ONLY <1>2, <1>3, ReapEffect
<1>5. ~ Expired(a, l)
  BY <1>1, <1>2 DEF Expired
<1> QED BY <1>2, <1>4, <1>5

\* The locks after TakeUserLock, and what a timeout makes of it
LEMMA TakeUserLockEffect ==
    ASSUME NEW w \in LockStates, NEW l \in Names,
           NEW ns \in Timeouts \cup {NoTimeout}, NEW r,
           r = TakeUserLock(w, l, timeoutptr(ns))
    PROVE  /\ r \in LockStates
           /\ Fits /\ ns # NoTimeout => /\ l \in r.active /\ l \in r.autoExpire
                                        /\ RoundedUp(r.left[l], ns)
<1> DEFINE h == timeoutptr(ns) # 0
           t == Jiffies(timeoutptr(ns))
<1>1. l \in Locks /\ LockType(l) = WAKE_LOCK_SUSPEND
  BY NamesAreSuspend
<1>2. t \in 0..MaxTimeout /\ h \in BOOLEAN
  BY TimeoutType
<1>3. r = wake_lock_internal(w, l, h, t)
  BY DEF TakeUserLock
<1>4. Fits /\ ns # NoTimeout => h /\ RoundedUp(t, ns)
  BY TimeoutRounded
<1> HIDE DEF h, t
<1>5. r \in LockStates
  BY <1>1, <1>2, <1>3, LockCallEffect
<1>6. HeldFor(r, l, h, t)
  BY <1>2, <1>3, TimedLockHeld
<1>7. ASSUME Fits, ns # NoTimeout
      PROVE  /\ l \in r.active /\ l \in r.autoExpire /\ RoundedUp(r.left[l], ns)
  <2>1. h /\ RoundedUp(t, ns) /\ t # 0
    BY <1>4, <1>7 DEF RoundedUp
  <2> QED BY <1>6, <2>1 DEF HeldFor
<1> QED BY <1>5, <1>7

\* What is recorded of a call
LEMMA CallType ==
    ASSUME NEW op \in {"lock", "unlock", "tick"}, NEW name \in Names \cup {<<>>},
           NEW ns \in Timeouts \cup {NoTimeout}, NEW result \in {OK, EINVAL, ENOMEM},
           Called(op, name, ns, result)
    PROVE  /\ call'.op = op /\ call'.name = name /\ call'.ns = ns /\ call'.result = result
           /\ call'.op \in {"lock", "unlock", "tick"}
           /\ call'.name \in Names \cup {<<>>}
           /\ call'.ns \in Timeouts \cup {NoTimeout}
           /\ call'.result \in {OK, EINVAL, ENOMEM}
BY DEF Called

\* A call that is not a lock that succeeded with a timeout says nothing.
LEMMA HonouredTrivially ==
    ASSUME NEW op, NEW name, NEW ns, NEW result, Called(op, name, ns, result),
           op # "lock" \/ result # OK \/ ns = NoTimeout
    PROVE  TimeoutHonoured'
BY DEF Called, TimeoutHonoured

LEMMA InitInv ==
    Init => Inv
<1> SUFFICES ASSUME Init PROVE Inv
  OBVIOUS
<1>1. wakelocks_init \in LockStates
  BY LockAssumption DEF wakelocks_init, LockStates
<1>2. main_wake_lock \in Locks /\ LockType(main_wake_lock) = WAKE_LOCK_SUSPEND
  BY MainIsSuspend, LockAssumption
<1>3. wake_unlock(wakelocks_init, main_wake_lock) \in LockStates
  BY <1>1, <1>2, UnlockCallEffect
<1>4. wl \in LockStates /\ tree \in Seq(Names)
  BY <1>3 DEF Init
<1>5. TypeOK
  BY <1>4 DEF Init, TypeOK
<1>6. Sorted(tree)
  BY DEF Init, Sorted
<1> QED BY <1>5, <1>6 DEF Inv

LEMMA LockStoreInv ==
    ASSUME Inv, NEW name \in Names, NEW ns \in Timeouts \cup {NoTimeout},
           wake_lock_store(name, ns)
    PROVE  Inv' /\ (Fits => TimeoutHonoured')
<1> DEFINE t == timeoutptr(ns)
<1>0. wl \in LockStates /\ tree \in Seq(Names) /\ Sorted(tree)
  BY DEF Inv, TypeOK
<1>1. PICK where \in Walk(tree, name) :
          \/ /\ where > 0
             /\ wl' = TakeUserLock(wl, tree[where], t)
             /\ UNCHANGED tree
             /\ Called("lock", name, ns, OK)
          \/ /\ where < 0
             /\ tree' = rb_link_node(tree, name, -where)
             /\ wl' = TakeUserLock(wake_lock_init(wl, name), name, t)
             /\ Called("lock", name, ns, OK)
          \/ /\ where < 0 /\ NoMemory
             /\ UNCHANGED <<wl, tree>>
             /\ Called("lock", name, ns, ENOMEM)
  BY DEF wake_lock_store
<1>2. /\ where > 0 => where \in 1..Len(tree) /\ tree[where] = name
      /\ where < 0 => /\ -where \in 1..(Len(tree) + 1)
                      /\ -where > 1 => Below(tree[(-where) - 1], name)
                      /\ -where <= Len(tree) => Below(name, tree[-where])
      /\ where \in Int /\ where # 0
  BY <1>0, <1>1, WalkMeans
\* Either way the lock is taken with the timeout.
<1>3. ASSUME NEW w, w \in LockStates, wl' = TakeUserLock(w, name, t),
             Called("lock", name, ns, OK), tree' \in Seq(Names), Sorted(tree)'
      PROVE  Inv' /\ (Fits => TimeoutHonoured')
  <2>1. /\ wl' \in LockStates
        /\ Fits /\ ns # NoTimeout => /\ name \in wl'.active /\ name \in wl'.autoExpire
                                     /\ RoundedUp(wl'.left[name], ns)
    <3> DEFINE r == wl'
    <3>1. r = TakeUserLock(w, name, timeoutptr(ns))
      BY <1>3
    <3> HIDE DEF r
    <3>2. /\ r \in LockStates
          /\ Fits /\ ns # NoTimeout => /\ name \in r.active /\ name \in r.autoExpire
                                       /\ RoundedUp(r.left[name], ns)
      BY <1>3, <3>1, TakeUserLockEffect
    <3> QED BY <3>2 DEF r
  <2>2. /\ call'.op = "lock" /\ call'.name = name /\ call'.ns = ns /\ call'.result = OK
        /\ call'.op \in {"lock", "unlock", "tick"}
        /\ call'.name \in Names \cup {<<>>}
        /\ call'.ns \in Timeouts \cup {NoTimeout}
        /\ call'.result \in {OK, EINVAL, ENOMEM}
    BY <1>3, CallType
  <2>3. Inv'
    BY <1>3, <2>1, <2>2 DEF Inv, TypeOK
  <2>4. ASSUME Fits, ns # NoTimeout PROVE TimeoutHonoured'
    <3>1. RoundedUp(wl'.left[name], ns) /\ name \in wl'.active /\ name \in wl'.autoExpire
      BY <2>1, <2>4
    <3>2. wl'.left[name] > 0
      BY <3>1 DEF RoundedUp
    <3> QED BY <2>2, <3>1, <3>2 DEF TimeoutHonoured, RoundedUp
  <2>5. ASSUME ns = NoTimeout PROVE TimeoutHonoured'
    BY <1>3, <2>5, HonouredTrivially
  <2> QED BY <2>3, <2>4, <2>5
<1>4. CASE /\ where > 0
           /\ wl' = TakeUserLock(wl, tree[where], t)
           /\ UNCHANGED tree
           /\ Called("lock", name, ns, OK)
  BY <1>0, <1>2, <1>3, <1>4
<1>5. CASE /\ where < 0
           /\ tree' = rb_link_node(tree, name, -where)
           /\ wl' = TakeUserLock(wake_lock_init(wl, name), name, t)
           /\ Called("lock", name, ns, OK)
  <2> DEFINE g == -where
             q == tree'
  <2>1. /\ g \in 1..(Len(tree) + 1) /\ q = rb_link_node(tree, name, g)
        /\ g > 1 => Below(tree[g - 1], name)
        /\ g <= Len(tree) => Below(name, tree[g])
    BY <1>2, <1>5
  <2> HIDE DEF g, q
  <2>2. q \in Seq(Names) /\ Sorted(q)
    BY <1>0, <2>1, LinkKeepsOrder
  <2>3. wake_lock_init(wl, name) \in LockStates
    BY <1>0, NamesAreSuspend, InitDestroyEffect
  <2>4. tree' \in Seq(Names) /\ Sorted(tree)'
    BY <2>2 DEF q
  <2> QED BY <1>3, <1>5, <2>3, <2>4
<1>6. CASE /\ where < 0 /\ NoMemory
           /\ UNCHANGED <<wl, tree>>
           /\ Called("lock", name, ns, ENOMEM)
  <2>1. TimeoutHonoured'
    <3>1. ENOMEM # OK
      BY DEF ENOMEM, OK
    <3> QED BY <1>6, <3>1, HonouredTrivially
  <2>2. /\ call'.op \in {"lock", "unlock", "tick"}
        /\ call'.name \in Names \cup {<<>>}
        /\ call'.ns \in Timeouts \cup {NoTimeout}
        /\ call'.result \in {OK, EINVAL, ENOMEM}
    BY <1>6, CallType
  <2> QED BY <1>0, <1>6, <2>1, <2>2 DEF Inv, TypeOK
<1> QED BY <1>1, <1>4, <1>5, <1>6

\* The steps that take no lock
LEMMA OtherInv ==
    ASSUME Inv,
           \/ \E name \in Names : wake_unlock_store(name)
           \/ \E op \in {"lock", "unlock"} : BadArgument(op)
           \/ Tick
           \/ Look
    PROVE  Inv' /\ TimeoutHonoured'
<1>0. wl \in LockStates /\ tree \in Seq(Names) /\ Sorted(tree)
  BY DEF Inv, TypeOK
<1>1. ASSUME NEW op \in {"lock", "unlock", "tick"}, NEW name \in Names \cup {<<>>},
             NEW result \in {OK, EINVAL, ENOMEM},
             op # "lock" \/ result # OK, Called(op, name, NoTimeout, result),
             wl' \in LockStates, UNCHANGED tree
      PROVE  Inv' /\ TimeoutHonoured'
  <2>1. /\ call'.op \in {"lock", "unlock", "tick"}
        /\ call'.name \in Names \cup {<<>>}
        /\ call'.ns \in Timeouts \cup {NoTimeout}
        /\ call'.result \in {OK, EINVAL, ENOMEM}
    BY <1>1, CallType
  <2>2. TimeoutHonoured'
    BY <1>1, HonouredTrivially
  <2> QED BY <1>0, <1>1, <2>1, <2>2 DEF Inv, TypeOK
<1>2. EINVAL # OK
  BY DEF EINVAL, OK
<1>3. ASSUME NEW name \in Names, wake_unlock_store(name) PROVE Inv' /\ TimeoutHonoured'
  <2>1. PICK where \in Walk(tree, name) :
            \/ /\ where > 0
               /\ wl' = wake_unlock(wl, tree[where])
               /\ Called("unlock", name, NoTimeout, OK)
               /\ UNCHANGED tree
            \/ /\ where < 0
               /\ Called("unlock", name, NoTimeout, EINVAL)
               /\ UNCHANGED <<wl, tree>>
    BY <1>3 DEF wake_unlock_store
  <2>2. CASE /\ where > 0
             /\ wl' = wake_unlock(wl, tree[where])
             /\ Called("unlock", name, NoTimeout, OK)
             /\ UNCHANGED tree
    <3>1. tree[where] = name
      BY <1>0, <2>1, <2>2, WalkMeans
    <3>2. wake_unlock(wl, name) \in LockStates
      BY <1>0, NamesAreSuspend, UnlockCallEffect
    <3> QED BY <1>1, <2>2, <3>1, <3>2
  <2>3. CASE /\ where < 0
             /\ Called("unlock", name, NoTimeout, EINVAL)
             /\ UNCHANGED <<wl, tree>>
    BY <1>0, <1>1, <1>2, <2>3
  <2> QED BY <2>1, <2>2, <2>3
<1>4. ASSUME NEW op \in {"lock", "unlock"}, BadArgument(op)
      PROVE  Inv' /\ TimeoutHonoured'
  BY <1>0, <1>1, <1>2, <1>4 DEF BadArgument
<1>5. ASSUME Tick PROVE Inv' /\ TimeoutHonoured'
  <2>1. wl' \in LockStates
    BY <1>0, <1>5, ElapseEffect DEF Tick
  <2> QED BY <1>1, <1>5, <2>1 DEF Tick
<1>6. ASSUME Look PROVE Inv' /\ TimeoutHonoured'
  <2>1. wl' \in LockStates
    BY <1>0, <1>6, ReapEffect DEF Look
  <2> QED BY <1>1, <1>6, <2>1 DEF Look
<1> QED BY <1>3, <1>4, <1>5, <1>6

LEMMA NextInv ==
    ASSUME Inv, [Next]_vars
    PROVE  Inv' /\ (Fits /\ TimeoutHonoured => TimeoutHonoured')
<1>1. CASE UNCHANGED vars
  <2>1. wl' = wl /\ tree' = tree /\ call' = call
    BY <1>1 DEF vars
  <2> QED BY <2>1 DEF Inv, TypeOK, TimeoutHonoured
<1>2. CASE \E name \in Names, ns \in Timeouts \cup {NoTimeout} : wake_lock_store(name, ns)
  BY <1>2, LockStoreInv
<1>3. CASE \/ \E name \in Names : wake_unlock_store(name)
           \/ \E op \in {"lock", "unlock"} : BadArgument(op)
           \/ Tick
           \/ Look
  BY <1>3, OtherInv
<1> QED BY <1>1, <1>2, <1>3 DEF Next

(***************************************************************************)
(* Type correctness of the user wake locks: whatever names and timeouts    *)
(* user space writes, and whatever kzalloc does, the tree holds names and  *)
(* the timeout given to wake_lock_internal is one that a long can hold.    *)
(***************************************************************************)
THEOREM UserTypeOK == Spec => []TypeOK
<1>1. Init => Inv
  BY InitInv
<1>2. Inv /\ [Next]_vars => Inv'
  BY NextInv
<1>3. Inv => TypeOK
  BY DEF Inv
<1> QED BY <1>1, <1>2, <1>3, PTL DEF Spec

(***************************************************************************)
(* lookup_wake_lock_name finds every lock it ever created, for any names   *)
(* and any shape of the red-black tree: comparing with strncmp and -1 for  *)
(* a longer stored name is an order of the names, the place where a walk   *)
(* fails keeps the tree in that order, and in an ordered tree all walks    *)
(* for a stored name end at its node.                                      *)
(***************************************************************************)
THEOREM UserLookupFinds == Spec => []LookupFinds
<1>1. Init => Inv
  BY InitInv
<1>2. Inv /\ [Next]_vars => Inv'
  BY NextInv
<1>3. Inv => LookupFinds
  <2> SUFFICES ASSUME Inv, NEW i \in DOMAIN tree PROVE Walk(tree, tree[i]) = {i}
    BY DEF LookupFinds
  <2>1. tree \in Seq(Names) /\ Sorted(tree) /\ i \in 1..Len(tree)
    BY DEF Inv, TypeOK
  <2> QED BY <2>1, OrderedFinds
<1> QED BY <1>1, <1>2, <1>3, PTL DEF Spec

(***************************************************************************)
(* A timeout that neither the rounding nor the assignment to a long can    *)
(* overflow is honoured: the lock written is held, for the nanoseconds     *)
(* asked rounded up to jiffies, also when it existed or had run out.  Run  *)
(* userwakelock_width shows what happens to a timeout that does not fit.   *)
(***************************************************************************)
THEOREM UserTimeoutHonoured == Fits => (Spec => []TimeoutHonoured)
<1> SUFFICES ASSUME Fits PROVE Spec => []TimeoutHonoured
  OBVIOUS
<1> DEFINE I == Inv /\ TimeoutHonoured
<1>1. Init => I
  <2>1. Init => TimeoutHonoured
    BY DEF Init, TimeoutHonoured
  <2> QED BY <2>1, InitInv
<1>2. I /\ [Next]_vars => I'
  BY NextInv
<1>3. I => TimeoutHonoured
  OBVIOUS
<1> HIDE DEF I
<1> QED BY <1>1, <1>2, <1>3, PTL DEF Spec
=============================================================================
