---------------------------- MODULE Logger_proofs ----------------------------
(***************************************************************************)
(* Proofs about Logger, for every number of writers and readers, every     *)
(* size of the log and of its entries: the types, and, where a fault finds *)
(* orig fresh, that what is left to read is intact and read in order.      *)
(***************************************************************************)
EXTENDS Logger, FiniteSetsExt, TLAPS, WellFoundedInduction

\* A non-empty set of naturals has a minimum, and Min is it.
LEMMA NatMin ==
    ASSUME NEW S, S \subseteq Nat, S # {}
    PROVE  /\ Min(S) \in S
           /\ \A y \in S : Min(S) <= y
<1>1. PICK t \in S : \A u \in S : ~ (<<u, t>> \in OpToRel(<, Nat))
  BY WFMin, NatLessThanWellFounded, Zenon
<1>2. \A u \in S : ~ (u < t)
  BY <1>1 DEF OpToRel
<1>3. \A u \in S : t <= u
  BY <1>2
<1> QED BY <1>3 DEF Min

-----------------------------------------------------------------------------
(* The inductive invariants *)

\* A writer holds the mutex while it writes, and the entry it writes is the
\* youngest.
WriterOK ==
    \A w \in Writers :
        /\ wpc[w] = "payload" <=> mutex = w
        /\ mutex = w =>
              /\ Header + ret[w] <= need[w] /\ cur[w] = count
              /\ count > 0 /\ len[count] = need[w]

\* A file that is being read is open.
ReaderOK == \A r \in Readers : rpc[r] # "idle" => r_off[r] # Closed

TypeInv ==
    /\ TypeOK /\ WriterOK /\ ReaderOK
    /\ \A o \in Offsets : buffer[o][1] <= count

\* The n bytes of b behind off
View(b, off, n) == [j \in 0..(n - 1) |-> b[logger_offset(off + j)]]

\* The n bytes of v are whole entries, with numbers above lo and up to hi and
\* of the lengths l, the older ones first.
Entries(v, n, l, lo, hi) ==
    /\ \A j \in 0..(n - 1) :
          /\ v[j][1] \in (lo + 1)..hi
          /\ v[j][2] <= j /\ v[j][2] < l[v[j][1]]
          /\ j - v[j][2] + l[v[j][1]] <= n
          /\ \A k \in 0..(l[v[j][1]] - 1) : v[j - v[j][2] + k] = <<v[j][1], k>>
    /\ \A j, k \in 0..(n - 1) : j < k =>
          \/ v[j][1] < v[k][1]
          \/ v[j][1] = v[k][1] /\ k - v[k][2] = j - v[j][2]

\* Bytes from one offset to another
Dist(off, to) == logger_offset(to - off + Size)

\* Entries lie from off to s, and room bytes behind s are none of theirs.
Placed(b, l, off, s, room, lo, hi) ==
    /\ Dist(off, s) + room < Size
    /\ Entries(View(b, off, Dist(off, s)), Dist(off, s), l, lo, hi)

\* Where the entry of the writer w begins
Start(w) == logger_offset(w_off - Header - ret[w] + Size)

\* The same for head and all readers, who have read entries up to la
Everywhere(b, l, h, ro, la, s, room, hi) ==
    /\ Placed(b, l, h, s, room, 0, hi)
    /\ \A r \in Readers : ro[r] # Closed =>
          la[r] <= hi /\ Placed(b, l, ro[r], s, room, la[r], hi)

\* The first n bytes of an entry that begins at s
Written(b, s, id, n) == \A k \in 0..(n - 1) : b[logger_offset(s + k)] = <<id, k>>

LogInv ==
    /\ TypeInv
    /\ mutex = Free => Everywhere(buffer, len, head, r_off, last, w_off, 0, count)
    /\ \A w \in Writers : mutex = w =>
          /\ Everywhere(buffer, len, head, r_off, last, Start(w), need[w], count - 1)
          /\ Written(buffer, Start(w), count, Header + ret[w])

-----------------------------------------------------------------------------
(* Offsets that go round the end of the buffer *)

LEMMA LengthBounds ==
    /\ Size \in Nat /\ Size > 0 /\ Header \in Nat /\ Header >= 2
    /\ \A n \in Lengths : n \in Nat /\ n > Header /\ 2 * n <= Size
<1>1. PICK n \in Lengths : TRUE
  BY LoggerAssumption
<1>2. n \in Nat /\ n > Header /\ 2 * n <= Size /\ Header \in Nat /\ Size \in Nat
  BY LoggerAssumption
<1> QED BY <1>2, LoggerAssumption

LEMMA MaxLenBound == MaxLen \in Lengths /\ \A n \in Lengths : n <= MaxLen
<1> DEFINE T == {Size - n : n \in Lengths}
<1>0. \A n \in Lengths : n \in Nat /\ n <= Size /\ Size - n \in T /\ Size - n \in Nat
  BY LengthBounds
<1>1. T \subseteq Nat /\ T # {} /\ Size \in Nat
  BY <1>0, LoggerAssumption
<1>2. PICK t \in T : \A u \in T : t <= u
  <2> HIDE DEF T
  <2> QED BY <1>1, NatMin
<1>3. PICK n \in Lengths : t = Size - n
  BY <1>2
<1>4. \A m \in Lengths : m <= n
  <2> SUFFICES ASSUME NEW m \in Lengths PROVE m <= n
    OBVIOUS
  <2>1. t <= Size - m /\ m \in Nat /\ n \in Nat
    BY <1>0, <1>2
  <2> QED BY <1>1, <1>3, <2>1
<1> QED BY <1>4 DEF MaxLen

\* The offset, without the modulus
LEMMA OffsetValue ==
    ASSUME NEW x \in Int
    PROVE  /\ logger_offset(x) \in Offsets
           /\ x \in Offsets => logger_offset(x) = x
           /\ x \in Size..(2 * Size - 1) => logger_offset(x) = x - Size
<1>1. Size \in Nat /\ Size > 0
  BY LengthBounds
<1>2. x % Size \in 0..(Size - 1)
  BY <1>1
<1>3. x \in 0..(Size - 1) => x % Size = x
  BY <1>1
<1>4. x \in Size..(2 * Size - 1) => x % Size = x - Size
  BY <1>1
<1> QED BY <1>2, <1>3, <1>4 DEF logger_offset, Offsets

\* n bytes further
LEMMA OffsetSum ==
    ASSUME NEW t \in Offsets, NEW n \in 0..Size
    PROVE  /\ logger_offset(t + n) \in Offsets
           /\ logger_offset(t + n) = IF t + n < Size THEN t + n ELSE t + n - Size
<1>1. Size \in Nat /\ Size > 0 /\ t \in 0..(Size - 1)
  BY LengthBounds DEF Offsets
<1> DEFINE x == t + n
<1>2. x \in Int /\ (x < Size => x \in Offsets) /\ (~ x < Size => x \in Size..(2 * Size - 1))
  BY <1>1 DEF Offsets
<1> HIDE DEF x
<1>3. /\ logger_offset(x) \in Offsets
      /\ x < Size => logger_offset(x) = x
      /\ ~ x < Size => logger_offset(x) = x - Size
  BY <1>2, OffsetValue
<1> QED BY <1>1, <1>3 DEF x

LEMMA OffsetTwice ==
    ASSUME NEW t \in Offsets, NEW m \in Nat, NEW i \in Nat, m + i <= Size
    PROVE  /\ logger_offset(logger_offset(t + m) + i) = logger_offset(t + (m + i))
           /\ logger_offset(t + m) \in Offsets
<1>1. Size \in Nat /\ t \in 0..(Size - 1) /\ m \in 0..Size /\ i \in 0..Size /\ m + i \in 0..Size
  BY LengthBounds DEF Offsets
<1> DEFINE u == logger_offset(t + m)
           j == m + i
<1>2. u \in Offsets /\ u = IF t + m < Size THEN t + m ELSE t + m - Size
  BY <1>1, OffsetSum
<1>3. logger_offset(t + j) = IF t + j < Size THEN t + j ELSE t + j - Size
  BY <1>1, OffsetSum
<1> HIDE DEF u
<1>4. logger_offset(u + i) = IF u + i < Size THEN u + i ELSE u + i - Size
  BY <1>1, <1>2, OffsetSum
<1> QED BY <1>1, <1>2, <1>3, <1>4 DEF u, Offsets

LEMMA DistValue ==
    ASSUME NEW t \in Offsets, NEW h \in Offsets
    PROVE  /\ Dist(t, h) \in Nat /\ Dist(t, h) < Size
           /\ Dist(t, h) = IF t <= h THEN h - t ELSE h - t + Size
           /\ logger_offset(t + Dist(t, h)) = h
<1>1. Size \in Nat /\ Size > 0 /\ t \in 0..(Size - 1) /\ h \in 0..(Size - 1)
  BY LengthBounds DEF Offsets
<1> DEFINE x == h - t + Size
           d == logger_offset(x)
<1>2. x \in Int /\ (t <= h => x \in Size..(2 * Size - 1)) /\ (~ t <= h => x \in Offsets)
  BY <1>1 DEF Offsets
<1> HIDE DEF x
<1>3. d \in Offsets /\ (t <= h => d = x - Size) /\ (~ t <= h => d = x)
  BY <1>2, OffsetValue
<1>4. Dist(t, h) = d
  BY DEF Dist, x
<1> HIDE DEF d
<1>5. d \in 0..Size /\ d < Size /\ d = IF t <= h THEN h - t ELSE h - t + Size
  BY <1>1, <1>3 DEF x, Offsets
<1>6. logger_offset(t + d) = IF t + d < Size THEN t + d ELSE t + d - Size
  BY <1>5, OffsetSum
<1> QED BY <1>1, <1>4, <1>5, <1>6

LEMMA DistSum ==
    ASSUME NEW t \in Offsets, NEW n \in Nat, n < Size
    PROVE  Dist(t, logger_offset(t + n)) = n
<1>1. Size \in Nat /\ Size > 0 /\ t \in 0..(Size - 1) /\ n \in 0..Size
  BY LengthBounds DEF Offsets
<1> DEFINE h == logger_offset(t + n)
<1>2. h \in Offsets /\ h = IF t + n < Size THEN t + n ELSE t + n - Size
  BY <1>1, OffsetSum
<1> HIDE DEF h
<1>3. Dist(t, h) = IF t <= h THEN h - t ELSE h - t + Size
  BY <1>2, DistValue
<1>4. Dist(t, h) = n
  BY <1>1, <1>2, <1>3 DEF Offsets
<1> QED BY <1>4 DEF h

LEMMA DistRest ==
    ASSUME NEW t \in Offsets, NEW h \in Offsets, NEW m \in Nat, m <= Dist(t, h)
    PROVE  Dist(logger_offset(t + m), h) = Dist(t, h) - m
<1>1. Size \in Nat /\ Size > 0 /\ t \in 0..(Size - 1) /\ h \in 0..(Size - 1)
  BY LengthBounds DEF Offsets
<1> DEFINE u == logger_offset(t + m)
           d == Dist(t, h)
<1>2. d \in Nat /\ d < Size /\ d = IF t <= h THEN h - t ELSE h - t + Size
  BY DistValue
<1>3. m \in 0..Size
  BY <1>1, <1>2
<1>4. u \in Offsets /\ u = IF t + m < Size THEN t + m ELSE t + m - Size
  BY <1>3, OffsetSum
<1> HIDE DEF u
<1>5. Dist(u, h) = IF u <= h THEN h - u ELSE h - u + Size
  BY <1>4, DistValue
<1> HIDE DEF d
<1>6. m <= d
  BY DEF d
<1>7. Dist(u, h) = d - m
  BY <1>1, <1>2, <1>3, <1>4, <1>5, <1>6 DEF Offsets
<1> QED BY <1>7 DEF u, d

\* From e bytes behind t round the end to j bytes behind it
LEMMA DistBack ==
    ASSUME NEW t \in Offsets, NEW e \in Nat, NEW j \in Nat, j < e, e < Size
    PROVE  Dist(logger_offset(t + e), logger_offset(t + j)) = Size - e + j
<1>1. Size \in Nat /\ Size > 0 /\ t \in 0..(Size - 1) /\ e \in 0..Size /\ j \in 0..Size
  BY LengthBounds DEF Offsets
<1> DEFINE u == logger_offset(t + e)
           o == logger_offset(t + j)
<1>2. u \in Offsets /\ u = IF t + e < Size THEN t + e ELSE t + e - Size
  BY <1>1, OffsetSum
<1>3. o \in Offsets /\ o = IF t + j < Size THEN t + j ELSE t + j - Size
  BY <1>1, OffsetSum
<1> HIDE DEF u, o
<1>4. Dist(u, o) = IF u <= o THEN o - u ELSE o - u + Size
  BY <1>2, <1>3, DistValue
<1>5. Dist(u, o) = Size - e + j
  BY <1>1, <1>2, <1>3, <1>4 DEF Offsets
<1> QED BY <1>5 DEF u, o

-----------------------------------------------------------------------------
(* Bytes that are stored *)

LEMMA StoreByte ==
    ASSUME NEW b, NEW t, NEW id, NEW k, NEW n, NEW o, o \in Offsets
    PROVE  Store(b, t, id, k, n)[o] =
              IF Dist(t, o) < n THEN <<id, k + Dist(t, o)>> ELSE b[o]
BY DEF Store, Dist

LEMMA ViewByte ==
    ASSUME NEW b, NEW off, NEW n, NEW j, j \in 0..(n - 1)
    PROVE  View(b, off, n)[j] = b[logger_offset(off + j)]
BY DEF View

\* n more bytes of an entry that begins at s
LEMMA WrittenMore ==
    ASSUME NEW b, NEW s, s \in Offsets, NEW id, NEW m, m \in Nat, NEW n, n \in Nat,
           m < Size, m + n <= Size, Written(b, s, id, m)
    PROVE  Written(Store(b, logger_offset(s + m), id, m, n), s, id, m + n)
<1> DEFINE u == logger_offset(s + m)
           c == Store(b, u, id, m, n)
<1> HIDE DEF c
<1> SUFFICES ASSUME NEW i, i \in 0..(m + n - 1) PROVE c[logger_offset(s + i)] = <<id, i>>
  BY DEF Written, c
<1> DEFINE o == logger_offset(s + i)
<1>0. Size \in Nat /\ Size > 0 /\ i \in Nat /\ i < m + n /\ i \in 0..Size /\ m \in 0..Size /\ i < Size
  BY LengthBounds
<1>1. u \in Offsets /\ o \in Offsets
  BY <1>0, OffsetSum
<1>2. c[o] = IF Dist(u, o) < n THEN <<id, m + Dist(u, o)>> ELSE b[o]
  BY <1>1, StoreByte DEF c
<1>3. CASE i < m
  <2>1. Dist(u, o) = Size - m + i
    BY <1>0, <1>3, DistBack
  <2>2. b[o] = <<id, i>>
    BY <1>0, <1>3 DEF Written
  <2> HIDE DEF u, o
  <2>3. ~ (Dist(u, o) < n)
    BY <1>0, <2>1
  <2>4. c[o] = <<id, i>>
    BY <1>2, <2>2, <2>3
  <2> QED BY <2>4 DEF o
<1>4. CASE ~ (i < m)
  <2> DEFINE x == i - m
  <2>1. x \in Nat /\ m + x = i /\ m + x <= Size /\ x < n /\ x < Size
    BY <1>0, <1>4
  <2> HIDE DEF x
  <2>2. logger_offset(u + x) = o
    BY <2>1, OffsetTwice
  <2> HIDE DEF u, o
  <2>3. Dist(u, logger_offset(u + x)) = x
    BY <1>1, <2>1, DistSum
  <2>4. Dist(u, o) < n /\ m + Dist(u, o) = i
    BY <2>1, <2>2, <2>3
  <2>5. c[o] = <<id, i>>
    BY <1>2, <2>4
  <2> QED BY <2>5 DEF o
<1> QED BY <1>3, <1>4

\* The bytes between off and s stay as they are.
LEMMA StoreLeaves ==
    ASSUME NEW b, NEW off, off \in Offsets, NEW s, s \in Offsets, NEW id, NEW m, m \in Nat,
           NEW n, n \in Nat, NEW k, Dist(off, s) + (m + n) < Size,
           NEW c, c = Store(b, logger_offset(s + m), id, k, n)
    PROVE  View(c, off, Dist(off, s)) = View(b, off, Dist(off, s))
<1> DEFINE d == Dist(off, s)
           u == logger_offset(s + m)
           e == d + m
<1>1. Size \in Nat /\ Size > 0 /\ d \in Nat /\ d < Size /\ logger_offset(off + d) = s
  BY LengthBounds, DistValue
<1> HIDE DEF d
<1>2. e \in Nat /\ d + m <= Size /\ e < Size /\ m \in 0..Size /\ d + (m + n) < Size
  BY <1>1 DEF d
<1>3. logger_offset(off + e) = u /\ u \in Offsets
  BY <1>1, <1>2, OffsetTwice, OffsetSum
<1> HIDE DEF u
<1>4. ASSUME NEW j \in 0..(d - 1) PROVE c[logger_offset(off + j)] = b[logger_offset(off + j)]
  <2> DEFINE o == logger_offset(off + j)
  <2>1. j \in Nat /\ j < e /\ j \in 0..Size
    BY <1>1, <1>2
  <2> HIDE DEF e
  <2>2. o \in Offsets
    BY <2>1, OffsetSum
  <2>3. Dist(u, o) = Size - e + j
    BY <1>2, <1>3, <2>1, DistBack
  <2> HIDE DEF o
  <2>4. ~ (Dist(u, o) < n)
    BY <1>1, <1>2, <2>1, <2>3 DEF e
  <2>5. c[o] = IF Dist(u, o) < n THEN <<id, k + Dist(u, o)>> ELSE b[o]
    BY <2>2, StoreByte DEF u
  <2> QED BY <2>4, <2>5 DEF o
<1>5. View(c, off, d) = View(b, off, d)
  BY <1>4 DEF View
<1> QED BY <1>5 DEF d

-----------------------------------------------------------------------------
(* Entries end to end *)

LEMMA EntriesNone ==
    ASSUME NEW v, NEW l, NEW lo, NEW hi
    PROVE  Entries(v, 0, l, lo, hi)
<1>1. 0..(0 - 1) = {}
  OBVIOUS
<1> QED BY <1>1 DEF Entries

\* The lengths of younger entries do not matter.
LEMMA EntriesYounger ==
    ASSUME NEW v, NEW n, n \in Nat, NEW l, NEW lo, lo \in Nat, NEW hi, hi \in Nat,
           Entries(v, n, l, lo, hi),
           NEW l2, \A i \in 1..hi : l2[i] = l[i], NEW hi2, hi2 \in Nat, hi <= hi2
    PROVE  Entries(v, n, l2, lo, hi2)
<1>1. \A j \in 0..(n - 1) : v[j][1] \in (lo + 1)..hi
  BY DEF Entries
<1>2. \A j \in 0..(n - 1) : v[j][1] \in (lo + 1)..hi2 /\ l2[v[j][1]] = l[v[j][1]]
  BY <1>1
<1>3. ASSUME NEW j, j \in 0..(n - 1)
      PROVE  /\ v[j][1] \in (lo + 1)..hi2
             /\ v[j][2] <= j /\ v[j][2] < l2[v[j][1]]
             /\ j - v[j][2] + l2[v[j][1]] <= n
             /\ \A k \in 0..(l2[v[j][1]] - 1) : v[j - v[j][2] + k] = <<v[j][1], k>>
  <2>1. l2[v[j][1]] = l[v[j][1]] /\ v[j][1] \in (lo + 1)..hi2
    BY <1>2, <1>3
  <2>2. /\ v[j][2] <= j /\ v[j][2] < l[v[j][1]]
        /\ j - v[j][2] + l[v[j][1]] <= n
        /\ \A k \in 0..(l[v[j][1]] - 1) : v[j - v[j][2] + k] = <<v[j][1], k>>
    BY <1>3 DEF Entries
  <2> QED BY <2>1, <2>2
<1>4. \A j, k \in 0..(n - 1) : j < k =>
          \/ v[j][1] < v[k][1]
          \/ v[j][1] = v[k][1] /\ k - v[k][2] = j - v[j][2]
  BY DEF Entries
<1> QED BY <1>3, <1>4 DEF Entries

Bytes(v, n) == \A j \in 0..(n - 1) : v[j] \in Nat \X Nat

Sizes(l, hi) == \A i \in 1..hi : l[i] \in Nat /\ l[i] >= 2

\* At m begins the entry number i, which goes up to e.
Begins(v, l, m, i, e) == v[m][2] = 0 /\ i = v[m][1] /\ e = m + l[i]

\* The byte at j is the k-th of entry number i.
Is(v, j, i, k) == v[j] = <<i, k>>

\* At e an entry begins, or all end.
Edge(v, e, n) == e < n => v[e][2] = 0

\* What lies at the beginning of an entry, and where it ends
LEMMA EntriesFirst ==
    ASSUME NEW v, NEW n, n \in Nat, NEW l, NEW lo, lo \in Nat, NEW hi, hi \in Nat,
           Entries(v, n, l, lo, hi), Bytes(v, n), Sizes(l, hi),
           NEW m, m \in Nat, m < n, NEW i, NEW e, Begins(v, l, m, i, e)
    PROVE  /\ i \in (lo + 1)..hi /\ l[i] \in Nat /\ l[i] >= 2
           /\ Is(v, m, i, 0) /\ Is(v, m + 1, i, 1)
           /\ e \in Nat /\ e <= n /\ m < e
           /\ Edge(v, e, n)
           /\ \A j \in m..(e - 1) : Is(v, j, i, j - m)
<1>1. m \in 0..(n - 1) /\ v[m][2] = 0 /\ i = v[m][1] /\ e = m + l[i]
  BY DEF Begins
<1>2. /\ i \in (lo + 1)..hi /\ m - 0 + l[i] <= n
      /\ \A k \in 0..(l[i] - 1) : v[m - 0 + k] = <<i, k>>
  BY <1>1 DEF Entries
<1>3. l[i] \in Nat /\ l[i] >= 2
  BY <1>2 DEF Sizes
<1>4. \A k \in 0..(l[i] - 1) : v[m + k] = <<i, k>>
  <2> SUFFICES ASSUME NEW k, k \in 0..(l[i] - 1) PROVE v[m + k] = <<i, k>>
    OBVIOUS
  <2>1. m - 0 + k = m + k
    BY <1>3
  <2> QED BY <1>2, <2>1
<1>5. \A j \in m..(e - 1) : v[j] = <<i, j - m>>
  <2> SUFFICES ASSUME NEW j, j \in m..(e - 1) PROVE v[j] = <<i, j - m>>
    OBVIOUS
  <2>1. j - m \in 0..(l[i] - 1) /\ m + (j - m) = j
    BY <1>1, <1>3
  <2> QED BY <1>4, <2>1
<1>6. v[m] = <<i, 0>> /\ v[m + 1] = <<i, 1>>
  <2>1. m \in m..(e - 1) /\ m - m = 0 /\ m + 1 \in m..(e - 1) /\ (m + 1) - m = 1
    BY <1>1, <1>3
  <2> QED BY <1>5, <2>1
<1>7. e \in Nat /\ e <= n /\ m < e
  BY <1>1, <1>2, <1>3
<1>8. ASSUME e < n PROVE v[e][2] = 0
  <2> DEFINE x == v[e][2]
             p == v[e][1]
             a == e - 1
  <2>1. e \in 0..(n - 1) /\ a \in 0..(n - 1) /\ a < e /\ a \in m..(e - 1)
    BY <1>7, <1>8
  <2>2. v[a] = <<i, a - m>>
    BY <1>5, <2>1
  <2>3. v[a][1] = i /\ v[a][2] = a - m
    BY <2>2
  <2>4. x \in Nat /\ p \in Nat
    BY <2>1 DEF Bytes
  <2>5. /\ p \in (lo + 1)..hi /\ x <= e /\ x < l[p]
        /\ \A k \in 0..(l[p] - 1) : v[e - x + k] = <<p, k>>
    BY <2>1 DEF Entries
  <2> HIDE DEF x, p
  <2>6. p \in 1..hi /\ l[p] \in Nat
    BY <2>5 DEF Sizes
  <2>7. CASE x > 0
    <3> DEFINE q == x - 1
    <3>1. q \in 0..(l[p] - 1) /\ e - x + q = a
      BY <1>7, <2>4, <2>5, <2>6, <2>7
    <3> HIDE DEF q, a
    <3>2. v[a] = <<p, q>>
      BY <2>5, <3>1
    <3>3. p = i /\ q = a - m
      BY <2>3, <3>2
    <3> QED BY <1>1, <1>3, <1>7, <2>4, <2>5, <2>7, <3>3 DEF q, a
  <2> QED BY <2>4, <2>7 DEF x
<1> QED BY <1>2, <1>3, <1>5, <1>6, <1>7, <1>8 DEF Is, Edge

\* The entries from m on
LEMMA EntriesRest ==
    ASSUME NEW v, NEW n, n \in Nat, NEW l, NEW lo, lo \in Nat, NEW hi, hi \in Nat,
           Entries(v, n, l, lo, hi), Bytes(v, n), Sizes(l, hi),
           NEW m, m \in Nat, m <= n, m < n => v[m][2] = 0,
           NEW lo2, lo2 \in Nat, \A j \in m..(n - 1) : v[j][1] > lo2,
           NEW r, r = n - m,
           NEW u, \A j \in 0..(r - 1) : u[j] = v[m + j]
    PROVE  Entries(u, r, l, lo2, hi)
<1>1. ASSUME NEW j, j \in 0..(r - 1)
      PROVE  /\ u[j][1] \in (lo2 + 1)..hi
             /\ u[j][2] <= j /\ u[j][2] < l[u[j][1]]
             /\ j - u[j][2] + l[u[j][1]] <= r
             /\ \A k \in 0..(l[u[j][1]] - 1) : u[j - u[j][2] + k] = <<u[j][1], k>>
  <2> DEFINE a == m + j
             i == v[a][1]
             x == v[a][2]
  <2>1. a \in 0..(n - 1) /\ a \in m..(n - 1) /\ u[j] = v[a] /\ m < n
    BY <1>1
  <2>2. i \in Nat /\ x \in Nat
    BY <2>1 DEF Bytes
  <2>3. /\ i \in (lo + 1)..hi /\ x <= a /\ x < l[i] /\ a - x + l[i] <= n
        /\ \A k \in 0..(l[i] - 1) : v[a - x + k] = <<i, k>>
    BY <2>1 DEF Entries
  <2>4. i > lo2 /\ l[i] \in Nat
    BY <2>1, <2>3 DEF Sizes
  <2>5. x <= j
    <3> SUFFICES ASSUME ~ (x <= j) PROVE FALSE
      OBVIOUS
    <3> DEFINE k == m - (a - x)
    <3>1. k \in 0..(l[i] - 1) /\ a - x + k = m /\ k > 0
      BY <1>1, <2>2, <2>3, <2>4
    <3> HIDE DEF k, a, x, i
    <3>2. v[m] = <<i, k>>
      BY <2>3, <3>1
    <3>3. v[m][2] = 0
      BY <2>1
    <3> QED BY <3>1, <3>2, <3>3
  <2>6. u[j][1] = i /\ u[j][2] = x
    BY <2>1
  <2>7. i \in (lo2 + 1)..hi /\ j - x + l[i] <= r
    BY <1>1, <2>2, <2>3, <2>4
  <2>8. ASSUME NEW k, k \in 0..(l[i] - 1) PROVE u[j - x + k] = <<i, k>>
    <3> DEFINE y == j - x + k
    <3>1. y \in 0..(r - 1) /\ m + y = a - x + k
      BY <1>1, <2>2, <2>4, <2>5, <2>7, <2>8
    <3> HIDE DEF y, a, x, i
    <3>2. u[y] = v[a - x + k]
      BY <3>1
    <3> QED BY <2>3, <2>8, <3>2 DEF y
  <2> HIDE DEF a, x, i
  <2>9. u[j][2] <= j /\ u[j][2] < l[u[j][1]] /\ u[j][1] \in (lo2 + 1)..hi
    BY <2>3, <2>5, <2>6, <2>7
  <2>10. j - u[j][2] + l[u[j][1]] <= r
    BY <2>6, <2>7
  <2>11. \A k \in 0..(l[u[j][1]] - 1) : u[j - u[j][2] + k] = <<u[j][1], k>>
    BY <2>6, <2>8
  <2> QED BY <2>9, <2>10, <2>11
<1>2. ASSUME NEW j, j \in 0..(r - 1), NEW k, k \in 0..(r - 1), j < k
      PROVE  \/ u[j][1] < u[k][1]
             \/ u[j][1] = u[k][1] /\ k - u[k][2] = j - u[j][2]
  <2> DEFINE a == m + j
             c == m + k
  <2>1. a \in 0..(n - 1) /\ c \in 0..(n - 1) /\ a < c /\ u[j] = v[a] /\ u[k] = v[c]
    BY <1>2
  <2>2. \/ v[a][1] < v[c][1]
        \/ v[a][1] = v[c][1] /\ c - v[c][2] = a - v[a][2]
    BY <2>1 DEF Entries
  <2>3. v[a][2] \in Nat /\ v[c][2] \in Nat
    BY <2>1 DEF Bytes
  <2> QED BY <1>2, <2>1, <2>2, <2>3
<1> QED BY <1>1, <1>2 DEF Entries

\* The m bytes of u are the n bytes of v, and behind them the entry number c.
Longer(u, m, v, n, l, hi, c) ==
    /\ c = hi + 1 /\ l[c] \in Nat /\ m = n + l[c]
    /\ \A j \in 0..(n - 1) : u[j] = v[j]
    /\ \A j \in 0..(l[c] - 1) : u[n + j] = <<c, j>>

\* One more entry behind the others
LEMMA EntriesMore ==
    ASSUME NEW v, NEW n, n \in Nat, NEW l, NEW lo, lo \in Nat, NEW hi, hi \in Nat, lo <= hi,
           Entries(v, n, l, lo, hi), Bytes(v, n), Sizes(l, hi),
           NEW u, NEW m, NEW c, Longer(u, m, v, n, l, hi, c)
    PROVE  Entries(u, m, l, lo, c)
<1> DEFINE k == l[c]
<1>3. /\ c = hi + 1 /\ k \in Nat /\ k = l[c] /\ m = n + k
      /\ \A j \in 0..(n - 1) : u[j] = v[j]
      /\ \A j \in 0..(k - 1) : u[n + j] = <<c, j>>
  BY DEF Longer
<1> HIDE DEF k
<1> USE <1>3
<1>0. \A j \in n..(m - 1) : u[j] = <<c, j - n>> /\ u[j][1] = c /\ u[j][2] = j - n
  <2> SUFFICES ASSUME NEW j, j \in n..(m - 1) PROVE u[j] = <<c, j - n>>
    OBVIOUS
  <2>1. j - n \in 0..(k - 1) /\ n + (j - n) = j
    OBVIOUS
  <2> QED BY <2>1
<1>1. ASSUME NEW j, j \in 0..(m - 1)
      PROVE  /\ u[j][1] \in (lo + 1)..c
             /\ u[j][2] <= j /\ u[j][2] < l[u[j][1]]
             /\ j - u[j][2] + l[u[j][1]] <= m
             /\ \A q \in 0..(l[u[j][1]] - 1) : u[j - u[j][2] + q] = <<u[j][1], q>>
  <2>1. CASE j < n
    <3> DEFINE i == v[j][1]
               x == v[j][2]
    <3>1. j \in 0..(n - 1) /\ u[j] = v[j]
      BY <1>1, <2>1
    <3>2. /\ i \in (lo + 1)..hi /\ x <= j /\ x < l[i] /\ j - x + l[i] <= n
          /\ \A q \in 0..(l[i] - 1) : v[j - x + q] = <<i, q>>
      BY <3>1 DEF Entries
    <3>3. i \in Nat /\ x \in Nat /\ l[i] \in Nat
      BY <3>1, <3>2 DEF Bytes, Sizes
    <3>4. u[j][1] = i /\ u[j][2] = x
      BY <3>1
    <3> HIDE DEF i, x
    <3>5. ASSUME NEW q, q \in 0..(l[i] - 1) PROVE u[j - x + q] = <<i, q>>
      <4>1. j - x + q \in 0..(n - 1)
        BY <1>1, <3>2, <3>3, <3>5
      <4> QED BY <3>2, <3>5, <4>1
    <3>6. i \in (lo + 1)..c /\ j - x + l[i] <= m
      BY <1>1, <3>2, <3>3
    <3>7. u[j][2] <= j /\ u[j][2] < l[u[j][1]] /\ u[j][1] \in (lo + 1)..c
      BY <3>2, <3>4, <3>6
    <3>8. j - u[j][2] + l[u[j][1]] <= m
      BY <3>4, <3>6
    <3>9. \A q \in 0..(l[u[j][1]] - 1) : u[j - u[j][2] + q] = <<u[j][1], q>>
      BY <3>4, <3>5
    <3> QED BY <3>7, <3>8, <3>9
  <2>2. CASE ~ (j < n)
    <3> DEFINE x == j - n
    <3>1. j \in n..(m - 1) /\ x \in 0..(k - 1) /\ j - x = n
      BY <1>1, <2>2
    <3>2. u[j][1] = c /\ u[j][2] = x
      BY <1>0, <3>1
    <3>3. c \in (lo + 1)..c /\ x <= j /\ n + k <= m
      BY <3>1
    <3>4. u[j][2] <= j /\ u[j][2] < l[u[j][1]] /\ u[j][1] \in (lo + 1)..c
      BY <3>1, <3>2, <3>3
    <3>5. j - u[j][2] = n /\ l[u[j][1]] = k /\ u[j][1] = c
      BY <3>1, <3>2
    <3> QED BY <3>3, <3>4, <3>5
  <2> QED BY <2>1, <2>2
<1>2. ASSUME NEW j, j \in 0..(m - 1), NEW q, q \in 0..(m - 1), j < q
      PROVE  \/ u[j][1] < u[q][1]
             \/ u[j][1] = u[q][1] /\ q - u[q][2] = j - u[j][2]
  <2>1. CASE q < n
    <3>1. j \in 0..(n - 1) /\ q \in 0..(n - 1) /\ u[j] = v[j] /\ u[q] = v[q]
      BY <1>2, <2>1
    <3>2. \/ v[j][1] < v[q][1]
          \/ v[j][1] = v[q][1] /\ q - v[q][2] = j - v[j][2]
      BY <1>2, <3>1 DEF Entries
    <3> QED BY <3>1, <3>2
  <2>2. CASE ~ (q < n) /\ j < n
    <3>1. j \in 0..(n - 1) /\ u[j] = v[j] /\ u[q][1] = c
      BY <1>0, <1>2, <2>2
    <3>2. v[j][1] \in (lo + 1)..hi
      BY <3>1 DEF Entries
    <3> QED BY <3>1, <3>2
  <2>3. CASE ~ (q < n) /\ ~ (j < n)
    <3>1. /\ u[j][1] = c /\ u[q][1] = c
          /\ u[j][2] = j - n /\ u[q][2] = q - n
      BY <1>0, <1>2, <2>3
    <3>2. q - u[q][2] = n /\ j - u[j][2] = n
      BY <1>2, <3>1
    <3> QED BY <3>1, <3>2
  <2> QED BY <2>1, <2>2, <2>3
<1> QED BY ONLY <1>1, <1>2 DEF Entries

-----------------------------------------------------------------------------
(* The loop of get_next_entry *)

\* From each count below n the loop goes to a larger one.
Onward(n, next) == \A c \in 0..(n - 1) : next[c] \in Nat /\ next[c] > c

\* f is what it returns, from each count, when it returns base at the end.
Returns(n, next, base, f) ==
    \A c \in 0..(n - 1) : f[c] = IF next[c] < n THEN f[next[c]] ELSE base[c]

\* From G it goes on to G, or ends with a value in V.
LeadsTo(n, next, base, G, V) ==
    \A c \in G : IF next[c] < n THEN next[c] \in G ELSE base[c] \in V

\* The loop, for the counts from n - k on
FromOn(n, next, base, k, g) ==
    \A c \in (n - k)..(n - 1) : g[c] = IF next[c] < n THEN g[next[c]] ELSE base[c]

LEMMA LoopExists ==
    ASSUME NEW n, n \in Nat, NEW next, Onward(n, next), NEW base
    PROVE  \E f : f = [c \in 0..(n - 1) |-> f[c]] /\ Returns(n, next, base, f)
<1>0. \A c \in 0..(n - 1) : next[c] \in Nat /\ next[c] > c
  BY DEF Onward
<1> DEFINE Bad == {k \in 0..n : ~ \E g : FromOn(n, next, base, k, g)}
<1>1. Bad = {}
  <2> SUFFICES ASSUME Bad # {} PROVE FALSE
    OBVIOUS
  <2>1. Bad \subseteq Nat
    OBVIOUS
  <2>2. PICK k \in Bad : \A y \in Bad : k <= y
    <3> HIDE DEF Bad
    <3> QED BY <2>1, NatMin
  <2>3. k \in 0..n /\ ~ \E g : FromOn(n, next, base, k, g)
    OBVIOUS
  <2>4. k # 0
    <3>1. FromOn(n, next, base, 0, base)
      <4>1. (n - 0)..(n - 1) = {}
        OBVIOUS
      <4> QED BY <4>1 DEF FromOn
    <3> QED BY <2>3, <3>1
  <2>5. k - 1 \in 0..n /\ k - 1 \notin Bad
    BY <2>2, <2>3, <2>4
  <2>6. PICK g : FromOn(n, next, base, k - 1, g)
    BY <2>5
  <2> DEFINE a == n - k
             h == [c \in 0..(n - 1) |->
                     IF c = a THEN (IF next[c] < n THEN g[next[c]] ELSE base[c]) ELSE g[c]]
  <2>7. ASSUME NEW c, c \in (n - k)..(n - 1)
        PROVE  h[c] = IF next[c] < n THEN h[next[c]] ELSE base[c]
    <3>1. c \in 0..(n - 1) /\ next[c] \in Nat /\ next[c] > c /\ a \in 0..(n - 1) /\ a <= c
      BY <1>0, <2>3, <2>4, <2>7
    <3>2. next[c] < n => h[next[c]] = g[next[c]]
      BY <3>1
    <3>3. CASE c = a
      <4>1. h[c] = IF next[c] < n THEN g[next[c]] ELSE base[c]
        BY <3>1, <3>3
      <4> QED BY <3>2, <4>1
    <3>4. CASE c # a
      <4>1. h[c] = g[c] /\ c \in (n - (k - 1))..(n - 1)
        BY <2>3, <2>4, <2>7, <3>1, <3>4
      <4>2. g[c] = IF next[c] < n THEN g[next[c]] ELSE base[c]
        BY <2>6, <4>1 DEF FromOn
      <4> QED BY <3>2, <4>1, <4>2
    <3> QED BY <3>3, <3>4
  <2>8. FromOn(n, next, base, k, h)
    <3> HIDE DEF h
    <3> QED BY <2>7 DEF FromOn
  <2> QED BY <2>3, <2>8
<1>2. PICK g : FromOn(n, next, base, n, g)
  BY <1>1
<1> DEFINE f == [c \in 0..(n - 1) |-> g[c]]
<1>3. ASSUME NEW c, c \in 0..(n - 1)
      PROVE  f[c] = IF next[c] < n THEN f[next[c]] ELSE base[c]
  <2>1. next[c] \in Nat /\ c \in (n - n)..(n - 1)
    BY <1>0, <1>3
  <2>2. g[c] = IF next[c] < n THEN g[next[c]] ELSE base[c]
    BY <1>2, <2>1 DEF FromOn
  <2>3. next[c] < n => f[next[c]] = g[next[c]]
    BY <2>1
  <2> QED BY <1>3, <2>2, <2>3
<1>4. f = [c \in 0..(n - 1) |-> f[c]]
  OBVIOUS
<1> HIDE DEF f
<1>5. Returns(n, next, base, f)
  BY <1>3 DEF Returns
<1> QED BY <1>4, <1>5

\* What the loop returns, when it goes from counts in G to others in G, and
\* leaves them with a value in V
LEMMA LoopIn ==
    ASSUME NEW n, n \in Nat, NEW next, Onward(n, next),
           NEW base, NEW f, Returns(n, next, base, f),
           NEW G, G \subseteq 0..(n - 1), NEW V, LeadsTo(n, next, base, G, V)
    PROVE  \A c \in G : f[c] \in V
<1> DEFINE Bad == {n - c : c \in {x \in G : f[x] \notin V}}
<1>1. SUFFICES ASSUME Bad # {} PROVE FALSE
  OBVIOUS
<1>2. Bad \subseteq Nat
  OBVIOUS
<1>3. PICK k \in Bad : \A y \in Bad : k <= y
  <2> HIDE DEF Bad
  <2> QED BY <1>1, <1>2, NatMin
<1>4. PICK c \in G : k = n - c /\ f[c] \notin V
  BY <1>3
<1>5. c \in 0..(n - 1) /\ next[c] \in Nat /\ next[c] > c
  BY <1>4 DEF Onward
<1>6. next[c] < n /\ next[c] \in G /\ f[next[c]] \notin V
  BY <1>4, <1>5 DEF Returns, LeadsTo
<1>7. n - next[c] \in Bad
  BY <1>6
<1>8. n - c <= n - next[c]
  BY <1>3, <1>4, <1>7
<1> QED BY <1>5, <1>8

LEMMA NextEntryIn ==
    ASSUME NEW off, NEW n, n \in Nat, n > 0, NEW next, Onward(n, next),
           \A c \in 0..(n - 1) : next[c] = c + get_entry_len(buffer, logger_offset(off + c)),
           NEW base, \A c \in 0..(n - 1) : base[c] = logger_offset(off + next[c]),
           NEW G, G \subseteq 0..(n - 1), 0 \in G, NEW V, LeadsTo(n, next, base, G, V)
    PROVE  get_next_entry(off, n) \in V
<1> DEFINE Eq(f) == f = [c \in 0..(n - 1) |->
                           LET to == c + get_entry_len(buffer, logger_offset(off + c))
                           IN  IF to < n THEN f[to] ELSE logger_offset(off + to)]
           a == CHOOSE f : Eq(f)
<1>1. PICK f : f = [c \in 0..(n - 1) |-> f[c]] /\ Returns(n, next, base, f)
  BY LoopExists
<1>2. Eq(f)
  <2>1. \A c \in 0..(n - 1) :
           f[c] = LET to == c + get_entry_len(buffer, logger_offset(off + c))
                  IN  IF to < n THEN f[to] ELSE logger_offset(off + to)
    BY <1>1 DEF Returns
  <2> QED BY <1>1, <2>1
<1>3. Eq(a)
  BY <1>2, Zenon
<1>4. get_next_entry(off, n) = a[0]
  BY DEF get_next_entry
<1> HIDE DEF a
<1>5. Returns(n, next, base, a)
  BY <1>3 DEF Returns
<1>6. \A c \in G : a[c] \in V
  BY <1>5, LoopIn
<1> QED BY <1>4, <1>6

-----------------------------------------------------------------------------
(* Readers that are pulled forward *)

LEMMA Types ==
    ASSUME TypeInv
    PROVE  /\ buffer \in [Offsets -> Nat \X Nat] /\ w_off \in Offsets
           /\ count \in Nat /\ len \in Seq(Lengths) /\ Len(len) = count
           /\ \A hi \in 0..count : Sizes(len, hi)
<1>1. /\ buffer \in [Offsets -> (0..MaxWrites) \X (0..(MaxLen - 1))] /\ w_off \in Offsets
      /\ count \in 0..MaxWrites /\ len \in Seq(Lengths) /\ Len(len) = count
  BY DEF TypeInv, TypeOK
<1>2. MaxWrites \in Nat
  BY LoggerAssumption
<1>3. count \in Nat
  BY <1>1, <1>2
<1>4. buffer \in [Offsets -> Nat \X Nat]
  BY <1>1
<1>5. ASSUME NEW hi, hi \in 0..count PROVE Sizes(len, hi)
  <2>1. ASSUME NEW i, i \in 1..hi PROVE len[i] \in Nat /\ len[i] >= 2
    <3>1. i \in 1..Len(len)
      BY <1>1, <1>3, <1>5, <2>1
    <3>2. len[i] \in Lengths
      BY <1>1, <3>1
    <3> QED BY <3>2, LengthBounds
  <2> QED BY <2>1 DEF Sizes
<1> QED BY <1>1, <1>3, <1>4, <1>5

LEMMA ViewBytes ==
    ASSUME NEW b, b \in [Offsets -> Nat \X Nat], NEW off, off \in Offsets,
           NEW n, n \in Nat, n <= Size
    PROVE  Bytes(View(b, off, n), n)
<1> SUFFICES ASSUME NEW j, j \in 0..(n - 1) PROVE View(b, off, n)[j] \in Nat \X Nat
  BY DEF Bytes
<1>1. j \in 0..Size
  BY LengthBounds
<1>2. logger_offset(off + j) \in Offsets
  BY <1>1, OffsetSum
<1>3. View(b, off, n)[j] = b[logger_offset(off + j)]
  BY ViewByte
<1> QED BY <1>2, <1>3

\* From the first byte of an entry on
LEMMA PlacedRest ==
    ASSUME NEW b, b \in [Offsets -> Nat \X Nat], NEW l, NEW off, off \in Offsets,
           NEW s, s \in Offsets, NEW room, NEW lo, lo \in Nat, NEW hi, hi \in Nat, Sizes(l, hi),
           Placed(b, l, off, s, room, lo, hi),
           NEW d, d = Dist(off, s), NEW v, v = View(b, off, d),
           NEW m, m \in Nat, m <= d, m < d => v[m][2] = 0,
           NEW lo2, lo2 \in Nat, \A j \in m..(d - 1) : v[j][1] > lo2,
           NEW room2, room2 \in Nat, d - m + room2 < Size
    PROVE  Placed(b, l, logger_offset(off + m), s, room2, lo2, hi)
<1>1. Size \in Nat /\ d \in Nat /\ d < Size
  BY LengthBounds, DistValue
<1> DEFINE u == logger_offset(off + m)
           r == d - m
           x == View(b, u, r)
<1>2. Dist(u, s) = r
  BY DistRest
<1>3. r \in Nat /\ m + r = d
  BY <1>1
<1>4. ASSUME NEW j, j \in 0..(r - 1) PROVE x[j] = v[m + j]
  <2>1. j \in Nat /\ m + j <= Size /\ m + j \in 0..(d - 1)
    BY <1>1, <1>3, <1>4
  <2>2. logger_offset(u + j) = logger_offset(off + (m + j))
    BY <2>1, OffsetTwice
  <2> HIDE DEF u, r
  <2>3. x[j] = b[logger_offset(u + j)]
    BY <1>4, ViewByte
  <2>4. v[m + j] = b[logger_offset(off + (m + j))]
    BY <2>1, ViewByte
  <2> QED BY <2>2, <2>3, <2>4
<1>5. Entries(v, d, l, lo, hi)
  BY DEF Placed
<1>6. Bytes(v, d)
  BY <1>1, ViewBytes
<1> HIDE DEF u, x
<1>7. Entries(x, r, l, lo2, hi)
  BY <1>1, <1>4, <1>5, <1>6, EntriesRest
<1> QED BY <1>2, <1>7 DEF Placed, u, x

\* The length that is found at the beginning of an entry
LEMMA EntryLen ==
    ASSUME NEW off, off \in Offsets, NEW d, d \in Nat, d < Size, NEW c, c \in Nat, c + 1 < d,
           NEW v, v = View(buffer, off, d), NEW i, i \in Nat, i > 0,
           Is(v, c, i, 0), Is(v, c + 1, i, 1)
    PROVE  get_entry_len(buffer, logger_offset(off + c)) = len[i]
<1>1. Size \in Nat /\ c \in 0..(d - 1) /\ c + 1 \in 0..(d - 1) /\ c + 1 <= Size /\ 1 \in Nat
  BY LengthBounds
<1> DEFINE o == logger_offset(off + c)
<1>2. buffer[o] = <<i, 0>>
  BY <1>1, ViewByte DEF Is
<1>3. logger_offset(o + 1) = logger_offset(off + (c + 1))
  BY ONLY <1>1, off \in Offsets, c \in Nat, OffsetTwice DEF o
<1>4. buffer[logger_offset(o + 1)] = <<i, 1>>
  BY <1>1, <1>3, ViewByte DEF Is
<1> HIDE DEF o
<1>5. buffer[o][1] = i
  BY <1>2
<1>6. get_entry_len(buffer, o) = len[i]
  BY <1>2, <1>4, <1>5 DEF get_entry_len
<1> QED BY <1>6 DEF o

LEMMA EntryLenType ==
    ASSUME TypeInv, NEW o, o \in Offsets
    PROVE  get_entry_len(buffer, o) \in Nat /\ get_entry_len(buffer, o) >= 2
<1> DEFINE i == buffer[o][1]
<1>1. i \in Nat /\ i <= count /\ count \in Nat
  BY Types DEF TypeInv
<1>2. count \in 0..count /\ Sizes(len, count)
  BY <1>1, Types
<1>3. i > 0 => len[i] \in Nat /\ len[i] >= 2
  BY <1>1, <1>2 DEF Sizes
<1>4. (i > 0 /\ get_entry_len(buffer, o) = len[i]) \/ get_entry_len(buffer, o) = Header
  BY DEF get_entry_len
<1> QED BY <1>3, <1>4, LengthBounds

\* The interval behind t, and whether off is n bytes ahead of it or less
LEMMA IntervalValue ==
    ASSUME NEW t, t \in Offsets, NEW off, off \in Offsets, NEW n, n \in Nat, n < Size
    PROVE  clock_interval(t, logger_offset(t + n), off) <=>
              Dist(off, t) > 0 /\ Dist(off, t) + n >= Size
<1>1. Size \in Nat /\ t \in 0..(Size - 1) /\ off \in 0..(Size - 1) /\ n \in 0..Size
  BY LengthBounds DEF Offsets
<1> DEFINE h == logger_offset(t + n)
           d == Dist(off, t)
<1>2. h = IF t + n < Size THEN t + n ELSE t + n - Size
  BY <1>1, OffsetSum
<1>3. d = IF off <= t THEN t - off ELSE t - off + Size
  BY DistValue
<1> HIDE DEF h, d
<1>4. clock_interval(t, h, off) <=> d > 0 /\ d + n >= Size
  BY <1>1, <1>2, <1>3 DEF clock_interval
<1> QED BY <1>4 DEF h, d

LEMMA FixUpType ==
    ASSUME TypeInv, NEW off, off \in Offsets, NEW n, n \in Lengths
    PROVE  FixUp(off, n) \in Offsets
<1> DEFINE next == [c \in 0..(n - 1) |-> c + get_entry_len(buffer, logger_offset(off + c))]
           base == [c \in 0..(n - 1) |-> logger_offset(off + next[c])]
           G == 0..(n - 1)
<1>1. n \in Nat /\ n > 0 /\ Size \in Nat /\ 2 * n <= Size
  BY LengthBounds
<1>2. ASSUME NEW c, c \in 0..(n - 1)
      PROVE  /\ next[c] = c + get_entry_len(buffer, logger_offset(off + c))
             /\ next[c] \in Nat /\ next[c] > c
             /\ base[c] = logger_offset(off + next[c]) /\ base[c] \in Offsets
  <2> DEFINE y == get_entry_len(buffer, logger_offset(off + c))
  <2>1. c \in 0..Size /\ off \in Int
    BY <1>1, <1>2 DEF Offsets
  <2>2. logger_offset(off + c) \in Offsets
    BY <2>1, OffsetSum
  <2>3. y \in Nat /\ y >= 2
    BY <2>2, EntryLenType
  <2>4. next[c] = c + y /\ base[c] = logger_offset(off + next[c])
    BY <1>2
  <2> HIDE DEF y, next, base
  <2>5. next[c] \in Nat /\ next[c] > c /\ off + next[c] \in Int
    BY <1>2, <2>1, <2>3, <2>4
  <2>6. base[c] \in Offsets
    BY <2>4, <2>5, OffsetValue
  <2> QED BY <2>4, <2>5, <2>6 DEF y
<1> HIDE DEF next, base
<1>3. Onward(n, next)
  BY <1>2 DEF Onward
<1>4. LeadsTo(n, next, base, G, Offsets)
  BY <1>1, <1>2 DEF LeadsTo
<1>5. G \subseteq 0..(n - 1) /\ 0 \in G
  BY <1>1
<1> HIDE DEF G
<1>6. get_next_entry(off, n) \in Offsets
  BY <1>1, <1>2, <1>3, <1>4, <1>5, NextEntryIn
<1> QED BY <1>6 DEF FixUp

LEMMA FixUpPlaced ==
    ASSUME TypeInv, NEW off, off \in Offsets, NEW n, n \in Lengths,
           NEW lo, lo \in Nat, NEW hi, hi \in 0..count,
           Placed(buffer, len, off, w_off, 0, lo, hi)
    PROVE  Placed(buffer, len, FixUp(off, n), w_off, n, lo, hi)
<1> DEFINE d == Dist(off, w_off)
           v == View(buffer, off, d)
<1>1. /\ n \in Nat /\ n > 0 /\ Size \in Nat /\ 2 * n <= Size /\ n < Size
      /\ buffer \in [Offsets -> Nat \X Nat] /\ w_off \in Offsets /\ hi \in Nat
      /\ Sizes(len, hi)
  BY LengthBounds, Types
<1>2. d \in Nat /\ d < Size /\ Entries(v, d, len, lo, hi)
  BY <1>1, DistValue DEF Placed
<1>3. Bytes(v, d)
  BY <1>1, <1>2, ViewBytes
<1>4. clock_interval(w_off, logger_offset(w_off + n), off) <=> d > 0 /\ d + n >= Size
  BY <1>1, IntervalValue
<1>5. CASE ~ clock_interval(w_off, logger_offset(w_off + n), off)
  <2>1. d + n < Size
    BY <1>1, <1>2, <1>4, <1>5
  <2>2. FixUp(off, n) = off
    BY <1>5 DEF FixUp
  <2> QED BY <1>2, <2>1, <2>2 DEF Placed
<1>6. CASE clock_interval(w_off, logger_offset(w_off + n), off)
  <2> DEFINE next == [c \in 0..(n - 1) |-> c + get_entry_len(buffer, logger_offset(off + c))]
             base == [c \in 0..(n - 1) |-> logger_offset(off + next[c])]
             G == {c \in 0..(n - 1) : v[c][2] = 0}
             E == {m \in n..d : m < d => v[m][2] = 0}
             V == {logger_offset(off + m) : m \in E}
  <2>0. n <= d /\ d > 0
    BY <1>1, <1>2, <1>4, <1>6
  <2>1. ASSUME NEW c, c \in 0..(n - 1)
        PROVE  /\ next[c] = c + get_entry_len(buffer, logger_offset(off + c))
               /\ next[c] \in Nat /\ next[c] > c
               /\ base[c] = logger_offset(off + next[c])
    <3> DEFINE y == get_entry_len(buffer, logger_offset(off + c))
    <3>1. c \in 0..Size
      BY <1>1, <2>1
    <3>2. logger_offset(off + c) \in Offsets
      BY <3>1, OffsetSum
    <3>3. y \in Nat /\ y >= 2
      BY <3>2, EntryLenType
    <3>4. next[c] = c + y /\ base[c] = logger_offset(off + next[c])
      BY <2>1
    <3> HIDE DEF y, next, base
    <3>5. next[c] \in Nat /\ next[c] > c
      BY <2>1, <3>3, <3>4
    <3> QED BY <3>4, <3>5 DEF y
  <2> HIDE DEF next, base, v, d
  <2>2. Onward(n, next)
    BY <2>1 DEF Onward
  <2>3. ASSUME NEW c, c \in G
        PROVE  IF next[c] < n THEN next[c] \in G ELSE base[c] \in V
    <3> DEFINE i == v[c][1]
               e == c + len[i]
    <3>1. c \in 0..(n - 1) /\ c \in Nat /\ c < d /\ v[c][2] = 0
      BY <1>1, <1>2, <2>0, <2>3
    <3>a. Begins(v, len, c, i, e)
      BY <3>1 DEF Begins
    <3> HIDE DEF i, e
    <3>2. /\ i \in (lo + 1)..hi /\ len[i] \in Nat /\ len[i] >= 2
          /\ Is(v, c, i, 0) /\ Is(v, c + 1, i, 1)
          /\ e \in Nat /\ e <= d /\ Edge(v, e, d)
      BY <1>1, <1>2, <1>3, <3>1, <3>a, EntriesFirst
    <3>3. i \in Nat /\ i > 0 /\ c + 1 < d
      BY <1>1, <1>2, <3>1, <3>2 DEF e
    <3>4. get_entry_len(buffer, logger_offset(off + c)) = len[i]
      BY <1>2, <3>1, <3>2, <3>3, EntryLen DEF v
    <3>5. next[c] = e /\ base[c] = logger_offset(off + e)
      BY <2>1, <3>1, <3>4 DEF e
    <3>6. CASE e < n
      <4>1. e \in G
        BY <1>1, <1>2, <2>0, <3>2, <3>6 DEF Edge
      <4> QED BY <3>5, <3>6, <4>1
    <3>7. CASE ~ (e < n)
      <4>1. e \in E
        BY <1>1, <1>2, <3>2, <3>7 DEF Edge
      <4> QED BY <3>5, <3>7, <4>1
    <3> QED BY <3>6, <3>7
  <2>4. 0 \in G
    <3>1. 0 \in 0..(d - 1) /\ 0 \in 0..(n - 1)
      BY <1>1, <1>2, <2>0
    <3>2. v[0][2] <= 0 /\ v[0][2] \in Nat
      BY <1>2, <1>3, <3>1 DEF Entries, Bytes
    <3> QED BY <3>1, <3>2
  <2>5. G \subseteq 0..(n - 1)
    OBVIOUS
  <2> HIDE DEF G
  <2>6. get_next_entry(off, n) \in V
    <3> HIDE DEF V
    <3>1. LeadsTo(n, next, base, G, V)
      BY <2>3 DEF LeadsTo
    <3> QED BY <1>1, <2>1, <2>2, <2>4, <2>5, <3>1, NextEntryIn
  <2>7. PICK m \in E : get_next_entry(off, n) = logger_offset(off + m)
    BY <2>6
  <2>8. m \in Nat /\ m <= d /\ (m < d => v[m][2] = 0) /\ d - m + n < Size
    BY <1>1, <1>2, <2>7
  <2>9. \A j \in m..(d - 1) : v[j][1] > lo
    <3> SUFFICES ASSUME NEW j, j \in m..(d - 1) PROVE v[j][1] > lo
      OBVIOUS
    <3>1. j \in 0..(d - 1)
      BY <1>2, <2>8
    <3>2. v[j][1] \in (lo + 1)..hi
      BY <1>2, <3>1 DEF Entries
    <3> QED BY <1>1, <3>2
  <2>10. Placed(buffer, len, logger_offset(off + m), w_off, n, lo, hi)
    BY <1>1, <2>8, <2>9, PlacedRest DEF v, d
  <2>11. FixUp(off, n) = logger_offset(off + m)
    BY <1>6, <2>7 DEF FixUp
  <2> QED BY <2>10, <2>11
<1> QED BY <1>5, <1>6

-----------------------------------------------------------------------------
(* Type correctness *)

Cells == (0..MaxWrites) \X (0..(MaxLen - 1))

LEMMA StoreType ==
    ASSUME NEW b, b \in [Offsets -> Cells], NEW t, t \in Offsets, NEW id, id \in 0..MaxWrites,
           NEW k, k \in Nat, NEW n, n \in Nat, k + n <= MaxLen,
           NEW c, c \in Nat, id <= c, \A o \in Offsets : b[o][1] <= c,
           NEW s, s = Store(b, t, id, k, n)
    PROVE  s \in [Offsets -> Cells] /\ \A o \in Offsets : s[o][1] <= c
<1>1. s = [o \in Offsets |-> s[o]]
  BY DEF Store
<1>2. ASSUME NEW o, o \in Offsets PROVE s[o] \in Cells /\ s[o][1] <= c
  <2> DEFINE d == Dist(t, o)
  <2>1. d \in Nat
    BY <1>2, DistValue
  <2>2. s[o] = IF d < n THEN <<id, k + d>> ELSE b[o]
    BY <1>2, StoreByte
  <2> HIDE DEF d
  <2>3. CASE d < n
    <3>1. k + d \in 0..(MaxLen - 1)
      BY <2>1, <2>3, MaxLenBound, LengthBounds
    <3>2. s[o] = <<id, k + d>>
      BY <2>2, <2>3
    <3> QED BY <3>1, <3>2 DEF Cells
  <2>4. CASE ~ (d < n)
    BY <1>2, <2>2, <2>4
  <2> QED BY <2>3, <2>4
<1> QED BY <1>1, <1>2

LEMMA NotClosed == Closed \notin Offsets
BY LengthBounds DEF Closed, Offsets

LEMMA OpenReader ==
    ASSUME TypeInv, NEW r, r \in Readers, r_off[r] # Closed
    PROVE  r \in Open /\ r_off[r] \in Offsets /\ last[r] \in Nat
<1>1. r_off[r] \in Offsets \cup {Closed} /\ last[r] \in 0..MaxWrites
  BY DEF TypeInv, TypeOK
<1> QED BY <1>1, LoggerAssumption DEF Open

LEMMA InitTypeInv == Init => TypeInv
<1> SUFFICES ASSUME Init PROVE TypeInv
  OBVIOUS
<1>1. MaxLen \in Lengths /\ MaxLen \in Nat /\ MaxLen > 0
  BY MaxLenBound, LengthBounds
<1>2. Size \in Nat /\ Size > 0 /\ MaxWrites \in Nat /\ Free \notin Writers
  BY LengthBounds, LoggerAssumption
<1>3. 0 \in Offsets
  BY <1>2 DEF Offsets
<1>4. <<0, 0>> \in (0..MaxWrites) \X (0..(MaxLen - 1))
  BY <1>1, <1>2
<1>5. buffer \in [Offsets -> (0..MaxWrites) \X (0..(MaxLen - 1))]
  BY <1>4 DEF Init, Blank
<1>6. TypeOK
  <2>1. len \in Seq(Lengths) /\ Len(len) = count
    BY DEF Init
  <2> QED BY <1>1, <1>2, <1>3, <1>5, <2>1 DEF Init, TypeOK
<1>7. WriterOK
  BY <1>2 DEF Init, WriterOK
<1>8. \A o \in Offsets : buffer[o][1] <= count
  BY DEF Init, Blank
<1>9. ReaderOK
  BY DEF Init, ReaderOK
<1> QED BY <1>6, <1>7, <1>8, <1>9 DEF TypeInv

\* What the types say while a writer w is writing
LEMMA WriterTypes ==
    ASSUME TypeInv, NEW w, w \in Writers
    PROVE  /\ need[w] \in Lengths /\ need[w] \in Nat /\ need[w] > Header /\ 2 * need[w] <= Size
           /\ need[w] <= MaxLen /\ ret[w] \in Nat /\ orig[w] \in Offsets /\ w # Free
           /\ MaxLen \in Lengths /\ MaxLen \in Nat /\ Header \in Nat /\ Size \in Nat
           /\ MaxWrites \in Nat /\ count \in Nat /\ count <= MaxWrites
<1>1. need[w] \in Lengths /\ ret[w] \in 0..MaxLen /\ orig[w] \in Offsets /\ count \in 0..MaxWrites
  BY DEF TypeInv, TypeOK
<1>2. MaxLen \in Lengths /\ MaxLen \in Nat /\ need[w] <= MaxLen
  BY <1>1, MaxLenBound, LengthBounds
<1>3. MaxWrites \in Nat /\ w # Free
  BY LoggerAssumption
<1>4. /\ need[w] \in Nat /\ need[w] > Header /\ 2 * need[w] <= Size
      /\ Header \in Nat /\ Size \in Nat
  BY <1>1, LengthBounds
<1>5. ret[w] \in Nat /\ count \in Nat /\ count <= MaxWrites
  BY <1>1, <1>2, <1>3
<1> QED BY <1>1, <1>2, <1>3, <1>4, <1>5

LEMMA StartType ==
    ASSUME TypeInv, NEW w, w \in Writers, WriteStart(w)
    PROVE  TypeInv'
<1>1. PICK n \in Lengths : need' = [need EXCEPT ![w] = n]
  BY DEF WriteStart
<1>2. wpc[w] = "idle" /\ mutex # w
  BY DEF TypeInv, WriterOK, WriteStart
<1>3. TypeOK'
  BY <1>1 DEF TypeInv, TypeOK, WriteStart, logVars, readerVars
<1>4. WriterOK'
  <2> SUFFICES ASSUME NEW x, x \in Writers
               PROVE  /\ wpc'[x] = "payload" <=> mutex' = x
                      /\ mutex' = x => /\ Header + ret'[x] <= need'[x] /\ cur'[x] = count'
                                       /\ count' > 0 /\ len'[count'] = need'[x]
    BY DEF WriterOK
  <2>1. mutex' = mutex /\ ret' = ret /\ cur' = cur /\ count' = count /\ len' = len
    BY DEF WriteStart, logVars
  <2>2. x # w => wpc'[x] = wpc[x] /\ need'[x] = need[x]
    BY <1>1 DEF WriteStart, TypeInv, TypeOK
  <2>3. wpc'[w] = "lock"
    BY DEF WriteStart, TypeInv, TypeOK
  <2>4. CASE x = w
    BY <1>2, <2>1, <2>3, <2>4
  <2>5. CASE x # w
    BY <2>1, <2>2, <2>5 DEF TypeInv, WriterOK
  <2> QED BY <2>4, <2>5
<1>5. (\A o \in Offsets : buffer[o][1] <= count)'
  BY DEF TypeInv, WriteStart, logVars
<1>6. ReaderOK'
  BY DEF TypeInv, ReaderOK, WriteStart, readerVars
<1> QED BY <1>3, <1>4, <1>5, <1>6 DEF TypeInv

LEMMA HeaderType ==
    ASSUME TypeInv, NEW w, w \in Writers, WriteHeader(w)
    PROVE  TypeInv'
<1>1. /\ need[w] \in Lengths /\ Header + 0 <= need[w] /\ Header <= MaxLen /\ Header \in Nat
      /\ count \in Nat /\ count + 1 \in 0..MaxWrites /\ MaxLen \in Nat
  BY WriterTypes DEF WriteHeader
<1>2. TypeOK /\ WriterOK /\ ReaderOK /\ \A o \in Offsets : buffer[o][1] <= count
  BY DEF TypeInv
<1>3. \A o \in Offsets : buffer[o][1] <= count + 1
  BY <1>1, Types, <1>2
<1>4. buffer \in [Offsets -> Cells] /\ w_off \in Offsets
  BY <1>2 DEF TypeOK, Cells
<1>5. buffer' \in [Offsets -> Cells] /\ \A o \in Offsets : buffer'[o][1] <= count + 1
  <2>1. buffer' = Store(buffer, w_off, count + 1, 0, Header)
    BY DEF WriteHeader
  <2>2. count + 1 \in Nat /\ count + 1 <= count + 1 /\ 0 \in Nat /\ 0 + Header <= MaxLen
    BY <1>1
  <2> DEFINE c == count + 1
  <2>3. /\ buffer' = Store(buffer, w_off, c, 0, Header) /\ c \in Nat /\ c <= c
        /\ c \in 0..MaxWrites /\ \A o \in Offsets : buffer[o][1] <= c
    BY <1>1, <1>3, <2>1, <2>2
  <2> DEFINE s == buffer'
  <2> HIDE DEF c, s
  <2>4. s \in [Offsets -> Cells] /\ \A o \in Offsets : s[o][1] <= c
    BY <1>1, <1>4, <2>2, <2>3, StoreType DEF s
  <2> QED BY <2>4 DEF c, s
<1>6. w_off' \in Offsets /\ head' \in Offsets /\ r_off' \in [Readers -> Offsets \cup {Closed}]
  <2>1. w_off + Header \in Int
    BY <1>1, <1>4 DEF Offsets
  <2>2. w_off' \in Offsets
    BY <2>1, OffsetValue DEF WriteHeader
  <2>3. head' \in Offsets
    BY <1>1, <1>2, FixUpType DEF WriteHeader, TypeOK
  <2>4. ASSUME NEW r, r \in Readers, r \in Open PROVE FixUp(r_off[r], need[w]) \in Offsets
    <3>1. r_off[r] \in Offsets
      BY <1>2, <2>4 DEF TypeOK, Open
    <3> QED BY <1>1, <3>1, FixUpType
  <2>5. r_off' = [r \in Readers |-> IF r \in Open THEN FixUp(r_off[r], need[w]) ELSE Closed]
    BY DEF WriteHeader
  <2> QED BY <2>2, <2>3, <2>4, <2>5
<1>7. len' \in Seq(Lengths) /\ Len(len') = count' /\ len'[count'] = need[w] /\ count' = count + 1
  <2>1. len' = Append(len, need[w]) /\ count' = count + 1
    BY DEF WriteHeader
  <2>2. len \in Seq(Lengths) /\ Len(len) = count
    BY <1>2 DEF TypeOK
  <2> QED BY <1>1, <2>1, <2>2
<1>8. TypeOK'
  <2>1. buffer' \in [Offsets -> (0..MaxWrites) \X (0..(MaxLen - 1))]
    BY <1>5 DEF Cells
  <2>2. /\ mutex' \in Writers \cup {Free} /\ orig' = orig /\ need' = need /\ rpc' = rpc
        /\ task' = task /\ last' = last
        /\ wpc' = [wpc EXCEPT ![w] = "payload"] /\ ret' = [ret EXCEPT ![w] = 0]
        /\ cur' = [cur EXCEPT ![w] = count + 1]
    BY DEF WriteHeader
  <2>7. /\ wpc \in [Writers -> {"idle", "lock", "payload", "wake"}]
        /\ ret \in [Writers -> 0..MaxLen] /\ cur \in [Writers -> 0..MaxWrites]
        /\ 0 \in 0..MaxLen
    BY <1>1, <1>2 DEF TypeOK
  <2>5. wpc' \in [Writers -> {"idle", "lock", "payload", "wake"}]
    BY <2>2, <2>7
  <2>6. ret' \in [Writers -> 0..MaxLen]
    BY <2>2, <2>7
  <2>3. cur' \in [Writers -> 0..MaxWrites]
    BY <1>1, <2>2, <2>7
  <2>4. count' \in 0..MaxWrites
    BY <1>1, <1>7
  <2> QED BY <1>2, <1>6, <1>7, <2>1, <2>2, <2>5, <2>6, <2>3, <2>4 DEF TypeOK
<1>9. WriterOK'
  <2> SUFFICES ASSUME NEW x, x \in Writers
               PROVE  /\ wpc'[x] = "payload" <=> mutex' = x
                      /\ mutex' = x => /\ Header + ret'[x] <= need'[x] /\ cur'[x] = count'
                                       /\ count' > 0 /\ len'[count'] = need'[x]
    BY DEF WriterOK
  <2>1. mutex' = w /\ mutex = Free /\ need' = need /\ w # Free
    BY WriterTypes DEF WriteHeader
  <2>2. CASE x = w
    <3>1. wpc'[w] = "payload" /\ ret'[w] = 0 /\ cur'[w] = count + 1
      BY <1>2 DEF WriteHeader, TypeOK
    <3> QED BY <1>1, <1>7, <2>1, <2>2, <3>1
  <2>3. CASE x # w
    <3>1. wpc'[x] = wpc[x]
      BY <1>2, <2>3 DEF WriteHeader, TypeOK
    <3>2. x # Free
      BY WriterTypes
    <3> QED BY <1>2, <2>1, <2>3, <3>1, <3>2 DEF WriterOK
  <2> QED BY <2>2, <2>3
<1>10. ReaderOK'
  <2> SUFFICES ASSUME NEW r, r \in Readers, rpc'[r] # "idle" PROVE r_off'[r] # Closed
    BY DEF ReaderOK
  <2>1. rpc' = rpc /\ r_off' = [x \in Readers |-> IF x \in Open THEN FixUp(r_off[x], need[w]) ELSE Closed]
    BY DEF WriteHeader
  <2>2. r_off[r] # Closed /\ r \in Open
    BY <1>2, <2>1 DEF ReaderOK, Open
  <2>3. r_off[r] \in Offsets
    BY <1>2, <2>2 DEF TypeOK
  <2>4. FixUp(r_off[r], need[w]) \in Offsets
    BY <1>1, <2>3, FixUpType
  <2> QED BY <2>1, <2>2, <2>4, NotClosed
<1> QED BY <1>5, <1>7, <1>8, <1>9, <1>10 DEF TypeInv

\* A segment is stored; then the writer goes on, or it gives up.
LEMMA SegmentStored ==
    ASSUME TypeInv, NEW w, w \in Writers, wpc[w] = "payload", NEW n, n \in Nat,
           n <= need[w] - Header - ret[w], NEW c, c = Store(buffer, w_off, cur[w], Header + ret[w], n)
    PROVE  /\ c \in [Offsets -> Cells] /\ \A o \in Offsets : c[o][1] <= count
           /\ mutex = w /\ cur[w] = count
<1>1. mutex = w /\ cur[w] = count /\ \A o \in Offsets : buffer[o][1] <= count
  BY DEF TypeInv, WriterOK
<1>2. /\ buffer \in [Offsets -> Cells] /\ w_off \in Offsets
  BY DEF TypeInv, TypeOK, Cells
<1>3. /\ need[w] \in Nat /\ need[w] <= MaxLen /\ ret[w] \in Nat /\ MaxLen \in Nat /\ Header \in Nat
      /\ MaxWrites \in Nat /\ count \in Nat /\ count <= MaxWrites
  BY WriterTypes
<1> DEFINE k == Header + ret[w]
<1>4. /\ k \in Nat /\ k + n <= MaxLen /\ count \in 0..MaxWrites /\ count <= count
      /\ c = Store(buffer, w_off, count, k, n)
  BY <1>1, <1>3
<1> HIDE DEF k
<1>5. c \in [Offsets -> Cells] /\ \A o \in Offsets : c[o][1] <= count
  BY <1>1, <1>2, <1>3, <1>4, StoreType
<1> QED BY <1>1, <1>5

LEMMA SegmentType ==
    ASSUME TypeInv, NEW w, w \in Writers, WriteSegment(w)
    PROVE  TypeInv'
<1>1. PICK n \in 1..(need[w] - Header - ret[w]) :
          /\ buffer' = Store(buffer, w_off, cur[w], Header + ret[w], n)
          /\ w_off' = logger_offset(w_off + n)
          /\ ret' = [ret EXCEPT ![w] = @ + n]
  BY DEF WriteSegment
<1>2. /\ wpc[w] = "payload" /\ head' = head /\ len' = len /\ mutex' = mutex /\ wpc' = wpc
      /\ orig' = orig /\ need' = need /\ cur' = cur /\ count' = count
      /\ r_off' = r_off /\ rpc' = rpc /\ task' = task /\ last' = last
  BY DEF WriteSegment, readerVars
<1>3. /\ need[w] \in Nat /\ need[w] <= MaxLen /\ ret[w] \in Nat /\ MaxLen \in Nat /\ Header \in Nat
  BY WriterTypes
<1>4. n \in Nat /\ n <= need[w] - Header - ret[w] /\ ret[w] + n \in 0..MaxLen
      /\ Header + (ret[w] + n) <= need[w]
  BY <1>3
<1>5. buffer' \in [Offsets -> Cells] /\ \A o \in Offsets : buffer'[o][1] <= count
  <2> DEFINE c == buffer'
  <2>1. c = Store(buffer, w_off, cur[w], Header + ret[w], n)
    BY <1>1
  <2> HIDE DEF c
  <2>2. c \in [Offsets -> Cells] /\ \A o \in Offsets : c[o][1] <= count
    BY <1>2, <1>4, <2>1, SegmentStored
  <2> QED BY <2>2 DEF c
<1>6. TypeOK /\ WriterOK
  BY DEF TypeInv
<1>7. w_off' \in Offsets
  <2>1. w_off + n \in Int
    BY <1>4, Types DEF Offsets
  <2> QED BY <1>1, <2>1, OffsetValue
<1>8. ret' \in [Writers -> 0..MaxLen] /\ ret'[w] = ret[w] + n
      /\ \A x \in Writers : x # w => ret'[x] = ret[x]
  BY <1>1, <1>4, <1>6 DEF TypeOK
<1>9. TypeOK'
  BY <1>2, <1>5, <1>6, <1>7, <1>8 DEF TypeOK, Cells
<1>10. WriterOK'
  <2> SUFFICES ASSUME NEW x, x \in Writers
               PROVE  /\ wpc'[x] = "payload" <=> mutex' = x
                      /\ mutex' = x => /\ Header + ret'[x] <= need'[x] /\ cur'[x] = count'
                                       /\ count' > 0 /\ len'[count'] = need'[x]
    BY DEF WriterOK
  <2>1. CASE x = w
    BY <1>2, <1>4, <1>6, <1>8, <2>1 DEF WriterOK
  <2>2. CASE x # w
    BY <1>2, <1>6, <1>8, <2>2 DEF WriterOK
  <2> QED BY <2>1, <2>2
<1>11. ReaderOK'
  BY <1>2 DEF TypeInv, ReaderOK
<1> QED BY <1>2, <1>5, <1>9, <1>10, <1>11 DEF TypeInv

\* The locals of a call that ends, and the mutex that it gives up
LEMMA EndType ==
    ASSUME TypeInv, NEW w, w \in Writers, wpc[w] = "payload", mutex' = Free, LocalsEnd(w),
           NEW p, p \in {"idle", "wake"}, wpc' = [wpc EXCEPT ![w] = p],
           buffer' \in [Offsets -> Cells], \A o \in Offsets : buffer'[o][1] <= count,
           w_off' \in Offsets, UNCHANGED <<head, len, count, readerVars>>
    PROVE  TypeInv'
<1>1. TypeOK /\ WriterOK /\ MaxLen \in Lengths /\ MaxWrites \in Nat /\ MaxLen \in Nat
  BY WriterTypes DEF TypeInv
<1>2. 0 \in Offsets
  BY LengthBounds DEF Offsets
<1>3. /\ head' = head /\ len' = len /\ count' = count
      /\ r_off' = r_off /\ rpc' = rpc /\ task' = task /\ last' = last
  BY DEF readerVars
<1>4. /\ orig' \in [Writers -> Offsets] /\ ret' \in [Writers -> 0..MaxLen]
      /\ need' \in [Writers -> Lengths] /\ cur' \in [Writers -> 0..MaxWrites]
      /\ wpc' \in [Writers -> {"idle", "lock", "payload", "wake"}]
  <2>1. /\ wpc \in [Writers -> {"idle", "lock", "payload", "wake"}]
        /\ ret \in [Writers -> 0..MaxLen] /\ cur \in [Writers -> 0..MaxWrites]
        /\ orig \in [Writers -> Offsets] /\ need \in [Writers -> Lengths]
    BY <1>1 DEF TypeOK
  <2>6. 0 \in 0..MaxLen /\ 0 \in 0..MaxWrites
    BY <1>1
  <2>2. wpc' \in [Writers -> {"idle", "lock", "payload", "wake"}]
    BY <2>1
  <2>3. orig' \in [Writers -> Offsets] /\ need' \in [Writers -> Lengths]
    BY <1>1, <1>2, <2>1 DEF LocalsEnd
  <2>4. ret' \in [Writers -> 0..MaxLen]
    BY <2>1, <2>6 DEF LocalsEnd
  <2>5. cur' \in [Writers -> 0..MaxWrites]
    BY <2>1, <2>6 DEF LocalsEnd
  <2> QED BY <2>2, <2>3, <2>4, <2>5
<1>5. TypeOK'
  BY <1>1, <1>3, <1>4 DEF TypeOK, Cells
<1>6. WriterOK'
  <2> SUFFICES ASSUME NEW x, x \in Writers PROVE wpc'[x] # "payload" /\ mutex' # x
    BY DEF WriterOK
  <2>1. x # Free
    BY WriterTypes
  <2>2. mutex = w
    BY <1>1 DEF WriterOK
  <2>3. CASE x = w
    BY <1>1, <2>1, <2>3 DEF TypeOK
  <2>4. CASE x # w
    BY <1>1, <2>1, <2>2, <2>4 DEF TypeOK, WriterOK
  <2> QED BY <2>3, <2>4
<1>7. ReaderOK'
  BY <1>3 DEF TypeInv, ReaderOK
<1> QED BY <1>3, <1>5, <1>6, <1>7 DEF TypeInv

LEMMA FaultType ==
    ASSUME TypeInv, NEW w, w \in Writers, WriteFault(w)
    PROVE  TypeInv'
<1>1. PICK n \in 0..(need[w] - Header - ret[w]) :
          buffer' = Store(buffer, w_off, cur[w], Header + ret[w], n)
  BY DEF WriteFault
<1>2. /\ need[w] \in Nat /\ ret[w] \in Nat /\ Header \in Nat /\ orig[w] \in Offsets
  BY WriterTypes
<1>3. n \in Nat /\ n <= need[w] - Header - ret[w] /\ wpc[w] = "payload"
  BY <1>2 DEF WriteFault
<1> DEFINE c == buffer'
<1>4. c = Store(buffer, w_off, cur[w], Header + ret[w], n)
  BY <1>1
<1> HIDE DEF c
<1>5. c \in [Offsets -> Cells] /\ \A o \in Offsets : c[o][1] <= count
  BY <1>3, <1>4, SegmentStored
<1> QED BY <1>2, <1>3, <1>5, EndType DEF WriteFault, c

LEMMA UnlockType ==
    ASSUME TypeInv, NEW w, w \in Writers, WriteUnlock(w)
    PROVE  TypeInv'
<1>1. /\ buffer' = buffer /\ w_off' = w_off /\ head' = head /\ len' = len
  BY DEF WriteUnlock, logVars
<1>2. /\ buffer \in [Offsets -> Cells] /\ w_off \in Offsets
      /\ \A o \in Offsets : buffer[o][1] <= count
  BY DEF TypeInv, TypeOK, Cells
<1> QED BY <1>1, <1>2, EndType DEF WriteUnlock

\* Steps that leave the log and the writers alone, and move readers
LEMMA ReaderType ==
    ASSUME TypeInv, UNCHANGED <<buffer, w_off, len, writerVars>>, head' \in Offsets,
           r_off' \in [Readers -> Offsets \cup {Closed}],
           rpc' \in [Readers -> {"idle", "prepare", "check", "schedule", "read"}],
           task' \in [Readers -> {"running", "interruptible"}],
           last' \in [Readers -> 0..MaxWrites],
           \A r \in Readers : rpc'[r] # "idle" => r_off'[r] # Closed
    PROVE  TypeInv'
<1>1. /\ buffer' = buffer /\ w_off' = w_off /\ len' = len /\ mutex' = mutex /\ wpc' = wpc
      /\ orig' = orig /\ ret' = ret /\ need' = need /\ cur' = cur /\ count' = count
  BY DEF writerVars
<1>2. TypeOK'
  BY <1>1 DEF TypeInv, TypeOK
<1>3. WriterOK'
  BY <1>1 DEF TypeInv, WriterOK
<1>4. ReaderOK'
  BY DEF ReaderOK
<1> QED BY <1>1, <1>2, <1>3, <1>4 DEF TypeInv

LEMMA GoesType ==
    ASSUME TypeInv, NEW r, r \in Readers,
           NEW p, p \in {"idle", "prepare", "check", "schedule", "read"},
           NEW q, q \in {"running", "interruptible"}, ReaderGoes(r, p, q), r_off[r] # Closed
    PROVE  TypeInv'
<1>1. TypeOK
  BY DEF TypeInv
<1>2. /\ buffer' = buffer /\ w_off' = w_off /\ len' = len /\ UNCHANGED writerVars
      /\ head' = head /\ r_off' = r_off /\ last' = last
      /\ rpc' = [rpc EXCEPT ![r] = p] /\ task' = [task EXCEPT ![r] = q]
  BY DEF ReaderGoes, logVars
<1>3. rpc' \in [Readers -> {"idle", "prepare", "check", "schedule", "read"}]
  BY <1>1, <1>2 DEF TypeOK
<1>4. task' \in [Readers -> {"running", "interruptible"}]
  BY <1>1, <1>2 DEF TypeOK
<1>5. /\ head' \in Offsets /\ r_off' \in [Readers -> Offsets \cup {Closed}]
      /\ last' \in [Readers -> 0..MaxWrites]
  BY <1>1, <1>2 DEF TypeOK
<1>6. ASSUME NEW x, x \in Readers, rpc'[x] # "idle" PROVE r_off'[x] # Closed
  <2>1. x # r => rpc'[x] = rpc[x]
    BY <1>1, <1>2, <1>6 DEF TypeOK
  <2> QED BY <1>2, <1>6, <2>1 DEF TypeInv, ReaderOK
<1> QED BY <1>2, <1>3, <1>4, <1>5, <1>6, ReaderType

\* The steps of a reader that leave its offset alone
Waits(r) ==
    \/ ReadStart(r) \/ ReadPrepare(r) \/ ReadCheck(r) \/ ReadGivesUp(r) \/ ReadWoken(r)
    \/ ReadSignal(r) \/ ReadRaced(r) \/ ReadFails(r)

LEMMA WaitsGoes ==
    ASSUME TypeInv, NEW r, r \in Readers, Waits(r)
    PROVE  /\ TypeInv' /\ UNCHANGED <<logVars, writerVars, r_off, last>>
<1>1. task[r] \in {"running", "interruptible"}
  BY DEF TypeInv, TypeOK
<1>2. \E p \in {"idle", "prepare", "check", "schedule", "read"} :
         \E q \in {"running", "interruptible"} : ReaderGoes(r, p, q)
  BY <1>1 DEF Waits, ReadStart, ReadPrepare, ReadCheck, ReadGivesUp, ReadWoken, ReadSignal,
              ReadRaced, ReadFails
<1>3. PICK p \in {"idle", "prepare", "check", "schedule", "read"},
           q \in {"running", "interruptible"} : ReaderGoes(r, p, q)
  BY <1>2
<1>4. UNCHANGED <<logVars, writerVars, r_off, last>>
  BY <1>3 DEF ReaderGoes
<1>6. r_off[r] # Closed
  BY DEF TypeInv, ReaderOK, Waits, ReadStart, ReadPrepare, ReadCheck, ReadGivesUp, ReadWoken,
         ReadSignal, ReadRaced, ReadFails, Open
<1>5. TypeInv'
  BY <1>3, <1>6, GoesType
<1> QED BY <1>4, <1>5

LEMMA OpenType ==
    ASSUME TypeInv, NEW r, r \in Readers, logger_open(r) \/ logger_release(r) \/ ReadEntry(r)
    PROVE  TypeInv'
<1>1. TypeOK /\ MaxWrites \in Nat
  BY LoggerAssumption DEF TypeInv
<1>2. /\ head \in Offsets /\ r_off \in [Readers -> Offsets \cup {Closed}]
      /\ rpc \in [Readers -> {"idle", "prepare", "check", "schedule", "read"}]
      /\ task \in [Readers -> {"running", "interruptible"}]
      /\ last \in [Readers -> 0..MaxWrites]
  BY <1>1 DEF TypeOK
<1>3. 0 \in 0..MaxWrites /\ \A x \in Readers : rpc[x] # "idle" => r_off[x] # Closed
  BY <1>1 DEF TypeInv, ReaderOK
<1>4. CASE logger_open(r)
  <2>1. /\ buffer' = buffer /\ w_off' = w_off /\ len' = len /\ head' = head /\ UNCHANGED writerVars
        /\ rpc' = rpc /\ task' = task /\ r_off' = [r_off EXCEPT ![r] = head]
        /\ last' = [last EXCEPT ![r] = 0]
    BY <1>4 DEF logger_open, logVars
  <2>2. r_off' \in [Readers -> Offsets \cup {Closed}]
    BY <1>2, <2>1
  <2>3. last' \in [Readers -> 0..MaxWrites]
    BY <1>2, <1>3, <2>1
  <2>4. ASSUME NEW x, x \in Readers, rpc'[x] # "idle" PROVE r_off'[x] # Closed
    BY <1>2, <1>3, <2>1, <2>4, NotClosed
  <2> QED BY <1>2, <2>1, <2>2, <2>3, <2>4, ReaderType
<1>5. CASE logger_release(r)
  <2>1. /\ buffer' = buffer /\ w_off' = w_off /\ len' = len /\ head' = head /\ UNCHANGED writerVars
        /\ rpc' = rpc /\ task' = task /\ r_off' = [r_off EXCEPT ![r] = Closed]
        /\ last' = [last EXCEPT ![r] = 0]
    BY <1>5 DEF logger_release, logVars
  <2>2. r_off' \in [Readers -> Offsets \cup {Closed}]
    BY <1>2, <2>1
  <2>3. last' \in [Readers -> 0..MaxWrites]
    BY <1>2, <1>3, <2>1
  <2>4. ASSUME NEW x, x \in Readers, rpc'[x] # "idle" PROVE r_off'[x] # Closed
    BY <1>2, <1>3, <1>5, <2>1, <2>4 DEF logger_release
  <2> QED BY <1>2, <2>1, <2>2, <2>3, <2>4, ReaderType
<1>6. CASE ReadEntry(r)
  <2> DEFINE off == r_off[r]
             to == logger_offset(off + get_entry_len(buffer, off))
             i == buffer[off][1]
  <2>1. /\ buffer' = buffer /\ w_off' = w_off /\ len' = len /\ head' = head /\ UNCHANGED writerVars
        /\ task' = task /\ r_off' = [r_off EXCEPT ![r] = to]
        /\ rpc' = [rpc EXCEPT ![r] = "idle"] /\ last' = [last EXCEPT ![r] = i]
    BY <1>2, <1>6 DEF ReadEntry, logVars
  <2>2. r_off' \in [Readers -> Offsets \cup {Closed}] /\ last' \in [Readers -> 0..MaxWrites]
    <3>0. off \in Offsets
      BY <1>3, <1>6, OpenReader DEF ReadEntry
    <3>1. get_entry_len(buffer, off) \in Nat /\ off \in Int
      BY <3>0, EntryLenType DEF Offsets
    <3>2. to \in Offsets
      BY <3>1, OffsetValue
    <3>3. i \in 0..MaxWrites
      BY <1>1, <3>0 DEF TypeOK
    <3> HIDE DEF to, i
    <3>4. r_off' \in [Readers -> Offsets \cup {Closed}]
      BY <1>2, <2>1, <3>2
    <3>5. last' \in [Readers -> 0..MaxWrites]
      BY <1>2, <2>1, <3>3
    <3> QED BY <3>4, <3>5
  <2>3. rpc' \in [Readers -> {"idle", "prepare", "check", "schedule", "read"}]
    BY <1>2, <2>1
  <2>4. ASSUME NEW x, x \in Readers, rpc'[x] # "idle" PROVE r_off'[x] # Closed
    BY <1>2, <1>3, <2>1, <2>4
  <2> QED BY <1>2, <2>1, <2>2, <2>3, <2>4, ReaderType
<1> QED BY <1>4, <1>5, <1>6

LEMMA FlushType ==
    ASSUME TypeInv, NEW w, w \in Writers, LOGGER_FLUSH_LOG(w)
    PROVE  TypeInv'
<1>1. TypeOK
  BY DEF TypeInv
<1>2. /\ buffer' = buffer /\ w_off' = w_off /\ len' = len /\ head' = w_off /\ UNCHANGED writerVars
      /\ rpc' = rpc /\ task' = task /\ last' = last
      /\ r_off' = [r \in Readers |-> IF r \in Open THEN w_off ELSE Closed]
  BY DEF LOGGER_FLUSH_LOG
<1>3. w_off \in Offsets /\ r_off' \in [Readers -> Offsets \cup {Closed}]
  BY <1>1, <1>2 DEF TypeOK
<1>4. ASSUME NEW x, x \in Readers, rpc'[x] # "idle" PROVE r_off'[x] # Closed
  BY <1>2, <1>3, <1>4, NotClosed DEF TypeInv, ReaderOK, Open
<1>5. /\ head' \in Offsets
      /\ rpc' \in [Readers -> {"idle", "prepare", "check", "schedule", "read"}]
      /\ task' \in [Readers -> {"running", "interruptible"}]
      /\ last' \in [Readers -> 0..MaxWrites]
  BY <1>1, <1>2, <1>3 DEF TypeOK
<1> QED BY <1>2, <1>3, <1>4, <1>5, ReaderType

LEMMA WakeType ==
    ASSUME TypeInv, NEW w, w \in Writers, WriteWake(w)
    PROVE  TypeInv'
<1>1. TypeOK
  BY DEF TypeInv
<1>2. /\ UNCHANGED <<buffer, w_off, head, len>>
      /\ UNCHANGED <<mutex, orig, ret, need, cur, count, r_off, rpc, last>>
      /\ wpc' = [wpc EXCEPT ![w] = "idle"] /\ wpc[w] = "wake"
      /\ task' = [r \in Readers |-> IF Waiting(r) THEN "running" ELSE task[r]]
  BY DEF WriteWake, logVars
<1>3. task' \in [Readers -> {"running", "interruptible"}]
  BY <1>1, <1>2 DEF TypeOK
<1>4. wpc' \in [Writers -> {"idle", "lock", "payload", "wake"}]
  BY <1>1, <1>2 DEF TypeOK
<1>5. TypeOK'
  BY <1>1, <1>2, <1>3, <1>4 DEF TypeOK
<1>6. \A x \in Writers : wpc'[x] = "payload" <=> wpc[x] = "payload"
  BY <1>1, <1>2 DEF TypeOK
<1>7. WriterOK'
  BY <1>2, <1>6 DEF TypeInv, WriterOK
<1>8. ReaderOK'
  BY <1>2 DEF TypeInv, ReaderOK
<1> QED BY <1>2, <1>5, <1>7, <1>8 DEF TypeInv

\* One case per action
LEMMA NextCases ==
    ASSUME Next
    PROVE  \/ \E w \in Writers :
                 \/ WriteStart(w) \/ WriteHeader(w) \/ WriteSegment(w) \/ WriteFault(w)
                 \/ WriteUnlock(w) \/ WriteWake(w) \/ LOGGER_FLUSH_LOG(w)
           \/ \E r \in Readers :
                 Waits(r) \/ logger_open(r) \/ logger_release(r) \/ ReadEntry(r)
BY DEF Next, Write, Read, ReadChoice, Waits

LEMMA NextTypeInv == TypeInv /\ [Next]_vars => TypeInv'
<1> SUFFICES ASSUME TypeInv, [Next]_vars PROVE TypeInv'
  OBVIOUS
<1>1. CASE UNCHANGED vars
  <2>1. /\ UNCHANGED <<buffer, w_off, len, writerVars>> /\ head' = head
        /\ r_off' = r_off /\ rpc' = rpc /\ task' = task /\ last' = last
    BY <1>1 DEF vars, logVars, readerVars
  <2>2. TypeOK /\ ReaderOK
    BY DEF TypeInv
  <2> QED BY <2>1, <2>2, ReaderType DEF TypeOK, ReaderOK
<1>2. ASSUME NEW w, w \in Writers,
             \/ WriteStart(w) \/ WriteHeader(w) \/ WriteSegment(w) \/ WriteFault(w)
             \/ WriteUnlock(w) \/ WriteWake(w) \/ LOGGER_FLUSH_LOG(w)
      PROVE  TypeInv'
  BY <1>2, StartType, HeaderType, SegmentType, FaultType, UnlockType, WakeType, FlushType
<1>3. ASSUME NEW r, r \in Readers,
             Waits(r) \/ logger_open(r) \/ logger_release(r) \/ ReadEntry(r)
      PROVE  TypeInv'
  BY <1>3, WaitsGoes, OpenType
<1> QED BY <1>1, <1>2, <1>3, NextCases

(***************************************************************************)
(* Type correctness of the log, for any writers, readers and sizes, and    *)
(* wherever copying from user space fails: the walk of get_next_entry ends *)
(* and stays in the buffer even over entries that a fault has spoilt.      *)
(***************************************************************************)
THEOREM LoggerTypeOK == Spec => []TypeOK
<1>1. Init => TypeInv
  BY InitTypeInv
<1>2. TypeInv /\ [Next]_vars => TypeInv'
  BY NextTypeInv
<1>3. TypeInv => TypeOK
  BY DEF TypeInv
<1> QED BY <1>1, <1>2, <1>3, PTL DEF Spec

-----------------------------------------------------------------------------
(* What a write does to the entries *)

LEMMA PlacedStored ==
    ASSUME NEW b, NEW l, NEW off, off \in Offsets, NEW s, s \in Offsets, NEW room, room \in Nat,
           NEW lo, NEW hi, Placed(b, l, off, s, room, lo, hi),
           NEW m, m \in Nat, NEW n, n \in Nat, m + n <= room, NEW id, NEW k,
           NEW c, c = Store(b, logger_offset(s + m), id, k, n)
    PROVE  Placed(c, l, off, s, room, lo, hi)
<1>1. Dist(off, s) \in Nat /\ Size \in Nat
  BY DistValue, LengthBounds
<1>2. Dist(off, s) + (m + n) < Size
  BY <1>1 DEF Placed
<1>3. View(c, off, Dist(off, s)) = View(b, off, Dist(off, s))
  BY <1>2, StoreLeaves
<1> QED BY <1>3 DEF Placed

LEMMA PlacedYounger ==
    ASSUME NEW b, NEW l, NEW off, off \in Offsets, NEW s, s \in Offsets, NEW room, room \in Nat,
           NEW lo, lo \in Nat, NEW hi, hi \in Nat, Placed(b, l, off, s, room, lo, hi),
           NEW l2, \A i \in 1..hi : l2[i] = l[i], NEW hi2, hi2 \in Nat, hi <= hi2,
           NEW room2, room2 \in Nat, room2 <= room
    PROVE  Placed(b, l2, off, s, room2, lo, hi2)
<1> DEFINE d == Dist(off, s)
           v == View(b, off, d)
<1>1. d \in Nat /\ Size \in Nat
  BY DistValue, LengthBounds
<1>2. d + room < Size /\ Entries(v, d, l, lo, hi)
  BY DEF Placed
<1> HIDE DEF d, v
<1>3. d + room2 < Size
  BY <1>1, <1>2
<1>4. Entries(v, d, l2, lo, hi2)
  BY <1>1, <1>2, EntriesYounger
<1> QED BY <1>3, <1>4 DEF Placed, d, v

LEMMA PlacedNone ==
    ASSUME NEW b, NEW l, NEW s, s \in Offsets, NEW lo, NEW hi
    PROVE  Placed(b, l, s, s, 0, lo, hi)
<1>1. Dist(s, s) = 0
  BY DistValue, LengthBounds DEF Offsets
<1>2. 0 + 0 < Size
  BY LengthBounds
<1> QED BY <1>1, <1>2, EntriesNone DEF Placed

\* The entry that fills the room is one more.
LEMMA PlacedMore ==
    ASSUME NEW b, b \in [Offsets -> Nat \X Nat], NEW l, NEW off, off \in Offsets,
           NEW s, s \in Offsets, NEW room, room \in Nat,
           NEW lo, lo \in Nat, NEW hi, hi \in Nat, lo <= hi, Sizes(l, hi),
           Placed(b, l, off, s, room, lo, hi),
           NEW id, id = hi + 1, room = l[id], Written(b, s, id, room)
    PROVE  Placed(b, l, off, logger_offset(s + room), 0, lo, id)
<1> DEFINE d == Dist(off, s)
           v == View(b, off, d)
           m == d + room
           t == logger_offset(s + room)
           u == View(b, off, m)
<1>1. d \in Nat /\ d < Size /\ Size \in Nat /\ logger_offset(off + d) = s
  BY DistValue, LengthBounds
<1>2. d + room < Size /\ Entries(v, d, l, lo, hi)
  BY DEF Placed
<1>3. Bytes(v, d)
  BY <1>1, ViewBytes
<1>4. m \in Nat /\ m < Size /\ d + room <= Size
  BY <1>1, <1>2
<1>5. t = logger_offset(off + m)
  BY <1>1, <1>4, OffsetTwice
<1>6. Dist(off, t) = m
  <2> HIDE DEF d, m, t
  <2> QED BY <1>4, <1>5, DistSum
<1> HIDE DEF d
<1>7. ASSUME NEW j, j \in 0..(d - 1) PROVE u[j] = v[j]
  <2>1. j \in 0..(m - 1)
    BY <1>1, <1>7
  <2> HIDE DEF m
  <2> QED BY <1>7, <2>1, ViewByte
<1>8. ASSUME NEW j, j \in 0..(room - 1) PROVE u[d + j] = <<id, j>>
  <2>1. j \in Nat /\ d + j \in 0..(m - 1) /\ d + j <= Size
    BY <1>1, <1>4, <1>8
  <2>2. logger_offset(s + j) = logger_offset(off + (d + j))
    BY <1>1, <2>1, OffsetTwice
  <2> HIDE DEF m
  <2>3. u[d + j] = b[logger_offset(off + (d + j))]
    BY <2>1, ViewByte
  <2>4. b[logger_offset(s + j)] = <<id, j>>
    BY <1>8 DEF Written
  <2> QED BY <2>2, <2>3, <2>4
<1> HIDE DEF u, v, t
<1>9. Longer(u, m, v, d, l, hi, id)
  BY <1>7, <1>8 DEF Longer
<1> HIDE DEF m
<1>10. Entries(u, m, l, lo, id)
  BY <1>1, <1>2, <1>3, <1>9, EntriesMore
<1>11. m + 0 < Size
  BY <1>4
<1> QED BY <1>6, <1>10, <1>11 DEF Placed, u, t

\* m bytes back and forth
LEMMA BackForth ==
    ASSUME NEW t, t \in Offsets, NEW m, m \in Nat, m < Size
    PROVE  /\ logger_offset(t - m + Size) \in Offsets
           /\ logger_offset(logger_offset(t - m + Size) + m) = t
           /\ logger_offset(logger_offset(t + m) - m + Size) = t
<1>1. Size \in Nat /\ t \in 0..(Size - 1) /\ m \in 0..Size
  BY LengthBounds DEF Offsets
<1> DEFINE x == t - m + Size
           s == logger_offset(x)
           u == logger_offset(t + m)
           y == u - m + Size
<1>2. x \in Int /\ (t < m => x \in Offsets) /\ (~ t < m => x \in Size..(2 * Size - 1))
  BY <1>1 DEF Offsets
<1> HIDE DEF x
<1>3. s \in Offsets /\ (t < m => s = x) /\ (~ t < m => s = x - Size)
  BY <1>2, OffsetValue
<1>4. u \in Offsets /\ u = IF t + m < Size THEN t + m ELSE t + m - Size
  BY <1>1, OffsetSum
<1> HIDE DEF s, u
<1>5. logger_offset(s + m) = IF s + m < Size THEN s + m ELSE s + m - Size
  BY <1>1, <1>3, OffsetSum
<1>6. logger_offset(s + m) = t
  BY <1>1, <1>3, <1>5 DEF x, Offsets
<1>7. /\ y \in Int
      /\ t + m < Size => y \in Size..(2 * Size - 1) /\ y - Size = t
      /\ ~ (t + m < Size) => y \in Offsets /\ y = t
  BY <1>1, <1>4 DEF Offsets
<1> HIDE DEF y
<1>8. logger_offset(y) = t
  BY <1>7, OffsetValue
<1> QED BY <1>3, <1>6, <1>8 DEF x, s, u, y

\* Where the entry begins and where the writer is
LEMMA StartValue ==
    ASSUME TypeInv, NEW w, w \in Writers, mutex = w
    PROVE  /\ Start(w) \in Offsets /\ w_off = logger_offset(Start(w) + (Header + ret[w]))
           /\ Header + ret[w] \in Nat /\ Header + ret[w] < Size
<1>1. /\ w_off \in Offsets /\ Header \in Nat /\ ret[w] \in Nat /\ need[w] \in Nat /\ Size \in Nat
      /\ 2 * need[w] <= Size /\ Header + ret[w] <= need[w] /\ need[w] > Header
  BY Types, WriterTypes DEF TypeInv, WriterOK
<1> DEFINE m == Header + ret[w]
<1>2. m \in Nat /\ m < Size /\ w_off - Header - ret[w] + Size = w_off - m + Size
  BY <1>1 DEF Offsets
<1> HIDE DEF m
<1>3. Start(w) = logger_offset(w_off - m + Size)
  BY <1>2 DEF Start
<1>4. Start(w) \in Offsets /\ logger_offset(Start(w) + m) = w_off
  BY <1>1, <1>2, <1>3, BackForth
<1> QED BY <1>2, <1>4 DEF m

-----------------------------------------------------------------------------
(* The steps of writers and readers *)

LEMMA InitLogInv == Init => LogInv
<1> SUFFICES ASSUME Init PROVE LogInv
  OBVIOUS
<1>1. TypeInv
  BY InitTypeInv
<1>2. w_off = 0 /\ head = 0 /\ mutex = Free /\ r_off = [r \in Readers |-> Closed] /\ w_off \in Offsets
  BY <1>1 DEF Init, TypeInv, TypeOK
<1>3. Placed(buffer, len, head, w_off, 0, 0, count)
  BY <1>2, PlacedNone
<1>4. Everywhere(buffer, len, head, r_off, last, w_off, 0, count)
  BY <1>2, <1>3 DEF Everywhere
<1>5. \A w \in Writers : mutex # w
  BY <1>1, <1>2, WriterTypes
<1> QED BY <1>1, <1>4, <1>5 DEF LogInv

\* Steps after which no writer has the mutex
LEMMA FreeInv ==
    ASSUME TypeInv, TypeInv', mutex' = Free,
           Everywhere(buffer', len', head', r_off', last', w_off', 0, count')
    PROVE  LogInv'
<1>1. ASSUME NEW w, w \in Writers PROVE mutex' # w
  BY <1>1, LoggerAssumption
<1> QED BY <1>1 DEF LogInv

\* Steps that leave the log and the offsets alone
LEMMA SameInv ==
    ASSUME LogInv, TypeInv', UNCHANGED <<buffer, len, head, r_off, last, w_off, mutex, count, ret>>,
           \A w \in Writers : mutex = w => need'[w] = need[w]
    PROVE  LogInv'
<1>1. /\ buffer' = buffer /\ len' = len /\ head' = head /\ r_off' = r_off /\ last' = last
      /\ w_off' = w_off /\ mutex' = mutex /\ count' = count /\ ret' = ret
  OBVIOUS
<1>2. \A w \in Writers : Start(w)' = Start(w)
  BY <1>1 DEF Start
<1>3. (mutex = Free => Everywhere(buffer, len, head, r_off, last, w_off, 0, count))'
  BY <1>1 DEF LogInv
<1>4. ASSUME NEW w, w \in Writers, mutex' = w
      PROVE  (/\ Everywhere(buffer, len, head, r_off, last, Start(w), need[w], count - 1)
              /\ Written(buffer, Start(w), count, Header + ret[w]))'
  <2>1. /\ Everywhere(buffer, len, head, r_off, last, Start(w), need[w], count - 1)
        /\ Written(buffer, Start(w), count, Header + ret[w])
    BY <1>1, <1>4 DEF LogInv
  <2>2. need'[w] = need[w] /\ Start(w)' = Start(w)
    BY <1>1, <1>2, <1>4
  <2> QED BY <1>1, <2>1, <2>2
<1> QED BY <1>3, <1>4 DEF LogInv

\* mutex_lock, fix_up_readers and the header: the entry's place is free, and
\* nobody reads there.
LEMMA HeaderInv ==
    ASSUME LogInv, TypeInv', NEW w, w \in Writers, WriteHeader(w)
    PROVE  LogInv'
<1> DEFINE n == need[w]
           id == count + 1
           b == buffer'
           l == len'
<1>0. TypeInv
  BY DEF LogInv
<1>1. /\ n \in Lengths /\ n \in Nat /\ n > Header /\ 2 * n <= Size /\ Header \in Nat /\ Size \in Nat
      /\ count \in Nat /\ w # Free
  BY <1>0, WriterTypes
<1>2. /\ buffer \in [Offsets -> Nat \X Nat] /\ w_off \in Offsets /\ len \in Seq(Lengths)
      /\ Len(len) = count /\ head \in Offsets
  BY <1>0, Types DEF TypeInv, TypeOK
<1>3. Everywhere(buffer, len, head, r_off, last, w_off, 0, count)
  BY DEF LogInv, WriteHeader
<1>4. /\ mutex' = w /\ head' = FixUp(head, n) /\ count' = id /\ need' = need /\ last' = last
      /\ r_off' = [r \in Readers |-> IF r \in Open THEN FixUp(r_off[r], n) ELSE Closed]
      /\ l = Append(len, n) /\ b = Store(buffer, w_off, id, 0, Header)
      /\ w_off' = logger_offset(w_off + Header) /\ ret' = [ret EXCEPT ![w] = 0]
  BY DEF WriteHeader
<1>5. ret'[w] = 0
  BY <1>0, <1>4 DEF TypeInv, TypeOK
<1>6. \A i \in 1..count : l[i] = len[i]
  BY <1>1, <1>2, <1>4
<1>7. /\ b = Store(buffer, logger_offset(w_off + 0), id, 0, Header)
      /\ logger_offset(w_off + 0) = w_off
  <2>1. w_off + 0 = w_off /\ w_off \in Int
    BY <1>2 DEF Offsets
  <2>2. logger_offset(w_off) = w_off
    BY <1>2, <2>1, OffsetValue
  <2> QED BY <1>4, <2>1, <2>2
<1>8. Start(w)' = w_off
  <2>1. Header < Size
    BY <1>1
  <2>2. logger_offset(logger_offset(w_off + Header) - Header + Size) = w_off
    BY <1>1, <1>2, <2>1, BackForth
  <2>3. logger_offset(w_off + Header) \in Int
    <3>1. w_off + Header \in Int
      BY <1>1, <1>2 DEF Offsets
    <3>2. logger_offset(w_off + Header) \in Offsets
      BY <3>1, OffsetValue
    <3> QED BY <3>2 DEF Offsets
  <2> DEFINE y == logger_offset(w_off + Header)
  <2>4. Start(w)' = logger_offset(y - Header - 0 + Size)
    BY <1>4, <1>5 DEF Start
  <2> HIDE DEF y
  <2>5. y - Header - 0 + Size = y - Header + Size
    BY <1>1, <2>3 DEF y
  <2> QED BY <2>2, <2>4, <2>5 DEF y
<1> HIDE DEF n, id, b, l
<1>9. ASSUME NEW off, off \in Offsets, NEW lo, lo \in Nat,
             Placed(buffer, len, off, w_off, 0, lo, count)
      PROVE  Placed(b, l, FixUp(off, n), w_off, n, lo, count)
  <2>1. count \in 0..count
    BY <1>1
  <2>2. Placed(buffer, len, FixUp(off, n), w_off, n, lo, count) /\ FixUp(off, n) \in Offsets
    BY <1>0, <1>1, <1>9, <2>1, FixUpPlaced, FixUpType
  <2>3. 0 \in Nat /\ 0 + Header <= n
    BY <1>1
  <2> DEFINE to == FixUp(off, n)
  <2> HIDE DEF to
  <2>4. Placed(b, len, to, w_off, n, lo, count)
    BY <1>1, <1>2, <1>7, <2>2, <2>3, PlacedStored DEF to
  <2>5. Placed(b, l, to, w_off, n, lo, count)
    <3>1. to \in Offsets /\ count <= count /\ n <= n /\ n \in Nat /\ count \in Nat /\ lo \in Nat
      BY <1>1, <1>9, <2>2 DEF to
    <3> QED BY ONLY <1>2, <1>6, <2>4, <3>1, PlacedYounger
  <2> QED BY <2>5 DEF to
<1>10. Everywhere(b, l, head', r_off', last', w_off, n, count)
  <2>1. Placed(b, l, head', w_off, n, 0, count)
    BY <1>2, <1>3, <1>4, <1>9 DEF Everywhere
  <2>2. ASSUME NEW r, r \in Readers, r_off'[r] # Closed
        PROVE  last'[r] <= count /\ Placed(b, l, r_off'[r], w_off, n, last'[r], count)
    <3>1. r \in Open /\ r_off'[r] = FixUp(r_off[r], n)
      BY <1>4, <2>2
    <3>2. r_off[r] # Closed
      BY <3>1 DEF Open
    <3>3. r_off[r] \in Offsets /\ last[r] \in Nat
      BY <1>0, <2>2, <3>2, OpenReader
    <3>4. last[r] <= count /\ Placed(buffer, len, r_off[r], w_off, 0, last[r], count)
      BY <1>3, <2>2, <3>2 DEF Everywhere
    <3>5. Placed(b, l, FixUp(r_off[r], n), w_off, n, last[r], count)
      BY <1>9, <3>3, <3>4
    <3> QED BY <1>4, <3>1, <3>4, <3>5
  <2> QED BY <2>1, <2>2 DEF Everywhere
<1>11. Written(b, w_off, id, Header)
  <2> DEFINE z == 0
  <2>1. /\ z \in Nat /\ z < Size /\ z + Header <= Size /\ z + Header = Header
        /\ b = Store(buffer, logger_offset(w_off + z), id, z, Header)
        /\ Header \in Nat /\ w_off \in Offsets
    BY <1>1, <1>2, <1>7
  <2>2. Written(buffer, w_off, id, z)
    BY DEF Written
  <2> HIDE DEF z
  <2>3. Written(b, w_off, id, z + Header)
    BY <2>1, <2>2, WrittenMore
  <2> QED BY <2>1, <2>3
<1>12. ASSUME NEW x, x \in Writers, mutex' = x
       PROVE  (/\ Everywhere(buffer, len, head, r_off, last, Start(x), need[x], count - 1)
               /\ Written(buffer, Start(x), count, Header + ret[x]))'
  <2>1. x = w /\ count' - 1 = count /\ need'[x] = n /\ Header + ret'[x] = Header /\ Start(x)' = w_off
    BY <1>1, <1>4, <1>5, <1>8, <1>12 DEF n, id
  <2> QED BY <1>4, <1>10, <1>11, <2>1 DEF b, l
<1>13. mutex' # Free
  BY <1>1, <1>4
<1> QED BY <1>12, <1>13 DEF LogInv

\* Storing into the room leaves the entries alone.
LEMMA EverywhereStored ==
    ASSUME NEW b, NEW l, NEW h, h \in Offsets, NEW ro, \A r \in Readers : ro[r] \in Offsets \cup {Closed},
           NEW la, NEW s, s \in Offsets, NEW room, room \in Nat, NEW hi,
           Everywhere(b, l, h, ro, la, s, room, hi),
           NEW m, m \in Nat, NEW n, n \in Nat, m + n <= room, NEW id, NEW k
    PROVE  Everywhere(Store(b, logger_offset(s + m), id, k, n), l, h, ro, la, s, room, hi)
<1> DEFINE c == Store(b, logger_offset(s + m), id, k, n)
<1>1. Placed(c, l, h, s, room, 0, hi)
  <2>1. Placed(b, l, h, s, room, 0, hi)
    BY DEF Everywhere
  <2> QED BY <2>1, PlacedStored
<1>2. ASSUME NEW r, r \in Readers, ro[r] # Closed
      PROVE  la[r] <= hi /\ Placed(c, l, ro[r], s, room, la[r], hi)
  <2>1. la[r] <= hi /\ Placed(b, l, ro[r], s, room, la[r], hi) /\ ro[r] \in Offsets
    BY <1>2 DEF Everywhere
  <2> DEFINE o == ro[r]
             lo == la[r]
  <2> HIDE DEF o, lo
  <2>2. o \in Offsets /\ Placed(b, l, o, s, room, lo, hi)
    BY <2>1 DEF o, lo
  <2>3. Placed(c, l, o, s, room, lo, hi)
    BY <2>2, PlacedStored
  <2> QED BY <2>1, <2>3 DEF o, lo
<1> QED BY <1>1, <1>2 DEF Everywhere

\* do_write_log_from_user stores n bytes where the entry goes on.
LEMMA SegmentEffect ==
    ASSUME LogInv, NEW w, w \in Writers, wpc[w] = "payload", NEW n, n \in Nat,
           n <= need[w] - Header - ret[w], NEW c, c = Store(buffer, w_off, cur[w], Header + ret[w], n)
    PROVE  /\ Everywhere(c, len, head, r_off, last, Start(w), need[w], count - 1)
           /\ Written(c, Start(w), count, Header + ret[w] + n)
           /\ mutex = w
<1>0. TypeInv
  BY DEF LogInv
<1>1. mutex = w /\ cur[w] = count
  BY <1>0 DEF TypeInv, WriterOK
<1>2. /\ Everywhere(buffer, len, head, r_off, last, Start(w), need[w], count - 1)
      /\ Written(buffer, Start(w), count, Header + ret[w])
  BY <1>1 DEF LogInv
<1> DEFINE m == Header + ret[w]
           s == Start(w)
           q == need[w]
           hi == count - 1
           id == count
<1>3. s \in Offsets /\ w_off = logger_offset(s + m) /\ m \in Nat /\ m < Size
  BY <1>0, <1>1, StartValue
<1>4. q \in Nat /\ 2 * q <= Size /\ Size \in Nat /\ Header \in Nat /\ ret[w] \in Nat
  BY <1>0, WriterTypes
<1>5. m + n <= q /\ m + n <= Size
  BY <1>3, <1>4
<1>6. head \in Offsets /\ \A r \in Readers : r_off[r] \in Offsets \cup {Closed}
  BY <1>0 DEF TypeInv, TypeOK
<1>7. c = Store(buffer, logger_offset(s + m), id, m, n)
  BY <1>1, <1>3
<1>8. Everywhere(buffer, len, head, r_off, last, s, q, hi) /\ Written(buffer, s, id, m)
  BY <1>2
<1> HIDE DEF m, s, q, hi, id
<1>9. Everywhere(c, len, head, r_off, last, s, q, hi)
  BY ONLY <1>3, <1>4, <1>5, <1>6, <1>7, <1>8, n \in Nat, EverywhereStored
<1>10. Written(c, s, id, m + n)
  BY ONLY <1>3, <1>4, <1>5, <1>7, <1>8, n \in Nat, WrittenMore
<1> QED BY <1>1, <1>9, <1>10 DEF m, s, q, hi, id

LEMMA SegmentInv ==
    ASSUME LogInv, TypeInv', NEW w, w \in Writers, WriteSegment(w)
    PROVE  LogInv'
<1>0. TypeInv
  BY DEF LogInv
<1>1. PICK n \in 1..(need[w] - Header - ret[w]) :
          /\ buffer' = Store(buffer, w_off, cur[w], Header + ret[w], n)
          /\ w_off' = logger_offset(w_off + n)
          /\ ret' = [ret EXCEPT ![w] = @ + n]
  BY DEF WriteSegment
<1>2. /\ wpc[w] = "payload" /\ head' = head /\ len' = len /\ mutex' = mutex
      /\ need' = need /\ count' = count /\ r_off' = r_off /\ last' = last
  BY DEF WriteSegment, readerVars
<1>3. /\ need[w] \in Nat /\ 2 * need[w] <= Size /\ ret[w] \in Nat /\ Header \in Nat /\ Size \in Nat
      /\ w # Free
  BY <1>0, WriterTypes
<1>4. n \in Nat /\ n <= need[w] - Header - ret[w] /\ n >= 1
  BY <1>3
<1> DEFINE c == buffer'
           s == Start(w)
           m == Header + ret[w]
           k == m + n
<1>5. c = Store(buffer, w_off, cur[w], Header + ret[w], n)
  BY <1>1
<1> HIDE DEF c
<1>6. /\ Everywhere(c, len, head, r_off, last, s, need[w], count - 1)
      /\ Written(c, s, count, k) /\ mutex = w
  BY <1>2, <1>4, <1>5, SegmentEffect
<1>7. ret'[w] = ret[w] + n /\ Header + ret'[w] = k
  <2>1. ret'[w] = ret[w] + n
    BY <1>0, <1>1 DEF TypeInv, TypeOK
  <2> QED BY <1>3, <1>4, <2>1
<1>8. s \in Offsets /\ w_off = logger_offset(s + m) /\ m \in Nat /\ m < Size
  BY <1>0, <1>6, StartValue
<1>9. Start(w)' = s
  <2>1. k \in Nat /\ k < Size /\ m + n <= Size
    BY <1>3, <1>4, <1>8
  <2> HIDE DEF s
  <2> HIDE DEF m
  <2>2. w_off' = logger_offset(s + k)
    <3>1. logger_offset(logger_offset(s + m) + n) = logger_offset(s + (m + n))
      BY ONLY <1>4, <1>8, <2>1, OffsetTwice
    <3> QED BY <1>1, <1>8, <3>1
  <2> HIDE DEF k
  <2>3. logger_offset(logger_offset(s + k) - k + Size) = s
    BY <1>8, <2>1, BackForth
  <2> DEFINE y == logger_offset(s + k)
  <2>4. Start(w)' = logger_offset(y - Header - ret'[w] + Size)
    BY <2>2 DEF Start
  <2>5. y \in Int
    <3>1. s + k \in Int
      BY <1>8, <2>1 DEF Offsets
    <3>2. y \in Offsets
      BY <3>1, OffsetValue
    <3> QED BY <3>2 DEF Offsets
  <2> HIDE DEF y
  <2>6. y - Header - ret'[w] + Size = y - k + Size
    BY <1>3, <1>4, <1>7, <2>1, <2>5
  <2> QED BY <2>3, <2>4, <2>6 DEF y
<1> HIDE DEF s, k
<1>10. ASSUME NEW x, x \in Writers, mutex' = x
       PROVE  (/\ Everywhere(buffer, len, head, r_off, last, Start(x), need[x], count - 1)
               /\ Written(buffer, Start(x), count, Header + ret[x]))'
  <2>1. x = w
    BY <1>2, <1>6, <1>10
  <2> QED BY <1>2, <1>6, <1>7, <1>9, <2>1 DEF c
<1>11. mutex' # Free
  BY <1>2, <1>3, <1>6
<1> QED BY <1>10, <1>11 DEF LogInv

\* Entries end where the current one begins; the room is given up.
LEMMA EverywhereGivenUp ==
    ASSUME TypeInv, NEW b, NEW s, s \in Offsets, NEW room, room \in Nat, NEW hi, hi \in Nat,
           hi <= count, Everywhere(b, len, head, r_off, last, s, room, hi)
    PROVE  Everywhere(b, len, head, r_off, last, s, 0, count)
<1> DEFINE z == 0
<1>1. count \in Nat /\ z \in Nat /\ z <= room /\ head \in Offsets /\ \A i \in 1..hi : len[i] = len[i]
  BY Types DEF TypeInv, TypeOK
<1> HIDE DEF z
<1>2. Placed(b, len, head, s, z, z, count)
  <2>1. Placed(b, len, head, s, room, z, hi)
    BY DEF Everywhere, z
  <2> QED BY ONLY s \in Offsets, room \in Nat, hi \in Nat, hi <= count, <1>1, <2>1, PlacedYounger
<1>3. ASSUME NEW r, r \in Readers, r_off[r] # Closed
      PROVE  last[r] <= count /\ Placed(b, len, r_off[r], s, z, last[r], count)
  <2> DEFINE o == r_off[r]
             lo == last[r]
  <2>1. lo <= hi /\ Placed(b, len, o, s, room, lo, hi)
    BY <1>3 DEF Everywhere
  <2>2. o \in Offsets /\ lo \in Nat
    BY <1>3, OpenReader
  <2> HIDE DEF o, lo
  <2>3. lo <= count
    BY <1>1, <2>1, <2>2
  <2>4. Placed(b, len, o, s, z, lo, count)
    BY ONLY s \in Offsets, room \in Nat, hi \in Nat, hi <= count, <1>1, <2>1, <2>2, PlacedYounger
  <2> QED BY <2>3, <2>4 DEF o, lo
<1> QED BY <1>2, <1>3 DEF Everywhere, z

\* A fault goes back to orig: with orig fresh, to where the entry begins.
LEMMA FaultInv ==
    ASSUME LogInv, TypeInv', NEW w, w \in Writers, WriteFault(w), Faults # "any"
    PROVE  LogInv'
<1>0. TypeInv
  BY DEF LogInv
<1>1. PICK n \in 0..(need[w] - Header - ret[w]) :
          buffer' = Store(buffer, w_off, cur[w], Header + ret[w], n)
  BY DEF WriteFault
<1>2. /\ wpc[w] = "payload" /\ head' = head /\ len' = len /\ mutex' = Free
      /\ count' = count /\ r_off' = r_off /\ last' = last /\ w_off' = orig[w]
  BY DEF WriteFault, readerVars
<1>3. orig[w] = Start(w)
  BY DEF WriteFault, MayFault, Start
<1>4. /\ need[w] \in Nat /\ ret[w] \in Nat /\ Header \in Nat /\ count \in Nat
  BY <1>0, WriterTypes
<1>5. n \in Nat /\ n <= need[w] - Header - ret[w]
  BY <1>4
<1> DEFINE c == buffer'
           hi == count - 1
           s == Start(w)
           q == need[w]
<1>6. c = Store(buffer, w_off, cur[w], Header + ret[w], n)
  BY <1>1
<1> HIDE DEF c
<1>7. Everywhere(c, len, head, r_off, last, s, q, hi) /\ mutex = w
  BY <1>2, <1>5, <1>6, SegmentEffect
<1>8. hi \in Nat /\ hi <= count /\ s \in Offsets /\ q \in Nat
  <2>1. count > 0
    BY <1>0, <1>7 DEF TypeInv, WriterOK
  <2>2. s \in Offsets
    BY <1>0, <1>7, StartValue
  <2> QED BY <1>4, <2>1, <2>2
<1> HIDE DEF s, q, hi
<1>9. Everywhere(c, len, head, r_off, last, s, 0, count)
  BY ONLY <1>0, <1>7, <1>8, EverywhereGivenUp
<1>10. Everywhere(buffer', len', head', r_off', last', w_off', 0, count')
  BY <1>2, <1>3, <1>9 DEF c, s
<1> QED BY <1>0, <1>2, <1>10, FreeInv

\* The whole entry is written, and becomes one of the entries to read.
LEMMA UnlockInv ==
    ASSUME LogInv, TypeInv', NEW w, w \in Writers, WriteUnlock(w)
    PROVE  LogInv'
<1>0. TypeInv
  BY DEF LogInv
<1>1. /\ wpc[w] = "payload" /\ head' = head /\ len' = len /\ mutex' = Free /\ buffer' = buffer
      /\ count' = count /\ r_off' = r_off /\ last' = last /\ w_off' = w_off
      /\ Header + ret[w] = need[w]
  BY DEF WriteUnlock, logVars, readerVars
<1>2. mutex = w /\ count > 0 /\ len[count] = need[w]
  BY <1>0, <1>1 DEF TypeInv, WriterOK
<1> DEFINE s == Start(w)
           q == need[w]
           hi == count - 1
<1>3. /\ Everywhere(buffer, len, head, r_off, last, s, q, hi)
      /\ Written(buffer, s, count, q)
  BY <1>1, <1>2 DEF LogInv
<1>4. s \in Offsets /\ w_off = logger_offset(s + q)
  BY <1>0, <1>1, <1>2, StartValue
<1>5. /\ q \in Nat /\ count \in Nat
  BY <1>0, WriterTypes
<1>6. hi \in Nat /\ hi \in 0..count /\ count = hi + 1
  BY <1>2, <1>5
<1>7. buffer \in [Offsets -> Nat \X Nat] /\ Sizes(len, hi)
  BY <1>0, <1>6, Types
<1>8. q = len[count]
  BY <1>2
<1> HIDE DEF s, q, hi
<1>9. ASSUME NEW o, o \in Offsets, NEW lo, lo \in Nat, lo <= hi, Placed(buffer, len, o, s, q, lo, hi)
      PROVE  Placed(buffer, len, o, w_off, 0, lo, count)
  <2> DEFINE id == count
             b == buffer
             t == logger_offset(s + q)
  <2>1. /\ id = hi + 1 /\ q = len[id] /\ b \in [Offsets -> Nat \X Nat] /\ Written(b, s, id, q)
        /\ Placed(b, len, o, s, q, lo, hi)
    BY <1>3, <1>6, <1>7, <1>8, <1>9
  <2> HIDE DEF id, b
  <2>2. Placed(b, len, o, t, 0, lo, id)
    BY ONLY <1>4, <1>5, <1>6, <1>7, <1>9, <2>1, PlacedMore
  <2> QED BY <1>4, <2>2 DEF id, b
<1>10. Placed(buffer, len, head, w_off, 0, 0, count)
  <2> DEFINE z == 0
  <2>1. Placed(buffer, len, head, s, q, z, hi) /\ z \in Nat /\ z <= hi /\ head \in Offsets
    BY <1>0, <1>3, <1>6 DEF Everywhere, TypeInv, TypeOK
  <2> HIDE DEF z
  <2>2. Placed(buffer, len, head, w_off, 0, z, count)
    BY <1>9, <2>1
  <2> QED BY <2>2 DEF z
<1>11. ASSUME NEW r, r \in Readers, r_off[r] # Closed
       PROVE  last[r] <= count /\ Placed(buffer, len, r_off[r], w_off, 0, last[r], count)
  <2>1. last[r] <= hi /\ Placed(buffer, len, r_off[r], s, q, last[r], hi)
    BY <1>3, <1>11 DEF Everywhere
  <2>2. r_off[r] \in Offsets /\ last[r] \in Nat
    BY <1>0, <1>11, OpenReader
  <2>3. last[r] <= count
    BY <1>5, <1>6, <2>1, <2>2
  <2> QED BY <1>9, <2>1, <2>2, <2>3
<1>12. Everywhere(buffer', len', head', r_off', last', w_off', 0, count')
  BY <1>1, <1>10, <1>11 DEF Everywhere
<1> QED BY <1>0, <1>1, <1>12, FreeInv

\* Everything written so far is given up, and no reader is left behind.
LEMMA FlushInv ==
    ASSUME LogInv, TypeInv', NEW w, w \in Writers, LOGGER_FLUSH_LOG(w)
    PROVE  LogInv'
<1>0. TypeInv
  BY DEF LogInv
<1>1. /\ buffer' = buffer /\ w_off' = w_off /\ len' = len /\ head' = w_off
      /\ mutex = Free /\ mutex' = mutex /\ count' = count /\ last' = last
      /\ r_off' = [r \in Readers |-> IF r \in Open THEN w_off ELSE Closed]
  BY DEF LOGGER_FLUSH_LOG, writerVars
<1>2. w_off \in Offsets
  BY <1>0, Types
<1>3. Everywhere(buffer, len, head, r_off, last, w_off, 0, count)
  BY <1>1 DEF LogInv
<1>4. Placed(buffer, len, head', w_off, 0, 0, count)
  BY <1>1, <1>2, PlacedNone
<1>5. ASSUME NEW r, r \in Readers, r_off'[r] # Closed
      PROVE  last[r] <= count /\ Placed(buffer, len, r_off'[r], w_off, 0, last[r], count)
  <2>1. r \in Open /\ r_off'[r] = w_off
    BY <1>1, <1>5
  <2>2. last[r] <= count
    BY <1>3, <1>5, <2>1 DEF Everywhere, Open
  <2>3. Placed(buffer, len, w_off, w_off, 0, last[r], count)
    BY <1>2, PlacedNone
  <2> QED BY <2>1, <2>2, <2>3
<1>6. Everywhere(buffer', len', head', r_off', last', w_off', 0, count')
  BY <1>1, <1>4, <1>5 DEF Everywhere
<1> QED BY <1>0, <1>1, <1>6, FreeInv

\* The entry that is read is younger than lo, and what is left is younger still.
LEMMA PlacedRead ==
    ASSUME TypeInv, NEW off, off \in Offsets, off # w_off, NEW lo, lo \in Nat,
           Placed(buffer, len, off, w_off, 0, lo, count),
           NEW i, i = buffer[off][1]
    PROVE  /\ i \in Nat /\ i > lo /\ i <= count
           /\ Placed(buffer, len, logger_offset(off + get_entry_len(buffer, off)), w_off, 0, i, count)
<1> DEFINE d == Dist(off, w_off)
           v == View(buffer, off, d)
           z == 0
           e == z + len[i]
<1>1. /\ Size \in Nat /\ buffer \in [Offsets -> Nat \X Nat] /\ w_off \in Offsets /\ count \in Nat
      /\ off \in Int
  BY LengthBounds, Types DEF Offsets
<1>2. Sizes(len, count)
  <2>1. count \in 0..count
    BY <1>1
  <2> QED BY <2>1, Types
<1>3. d \in Nat /\ d < Size /\ d > 0 /\ Entries(v, d, len, lo, count)
  BY <1>1, DistValue DEF Placed, Offsets
<1>4. Bytes(v, d)
  BY <1>1, <1>3, ViewBytes
<1>5. off + z = off /\ logger_offset(off + z) = off /\ z \in 0..(d - 1) /\ z \in Nat /\ z < d
  BY <1>1, <1>3, OffsetValue
<1> HIDE DEF d
<1>6. v[z] = buffer[off]
  <2>1. v[z] = buffer[logger_offset(off + z)]
    <3> HIDE DEF z
    <3> QED BY <1>5, ViewByte
  <2> QED BY <1>5, <2>1
<1> HIDE DEF v
<1>7. v[z][2] = 0 /\ v[z][1] = i
  <2>1. v[z][2] <= z /\ v[z][2] \in Nat
    BY <1>3, <1>4, <1>5 DEF Entries, Bytes
  <2> QED BY <1>6, <2>1
<1>8. Begins(v, len, z, i, e)
  BY <1>7 DEF Begins
<1> HIDE DEF z, e
<1>9. /\ i \in (lo + 1)..count /\ len[i] \in Nat /\ len[i] >= 2
      /\ Is(v, z, i, 0) /\ Is(v, z + 1, i, 1)
      /\ e \in Nat /\ e <= d /\ Edge(v, e, d)
  BY ONLY lo \in Nat, <1>1, <1>2, <1>3, <1>4, <1>5, <1>8, EntriesFirst
<1>10. i \in Nat /\ i > 0 /\ i > lo /\ i <= count /\ z + 1 < d /\ e = len[i]
  BY <1>1, <1>3, <1>9 DEF e, z
<1>11. get_entry_len(buffer, off) = e
  <2>1. get_entry_len(buffer, logger_offset(off + z)) = len[i]
    BY <1>3, <1>5, <1>9, <1>10, EntryLen DEF v
  <2> QED BY <1>5, <1>10, <2>1
<1>12. ASSUME NEW j, j \in e..(d - 1) PROVE v[j][1] > i
  <2>1. j \in 0..(d - 1) /\ z < j
    BY <1>3, <1>9, <1>10, <1>12 DEF z
  <2>2. \/ v[z][1] < v[j][1]
        \/ v[z][1] = v[j][1] /\ j - v[j][2] = z - v[z][2]
    BY <1>3, <1>5, <2>1 DEF Entries
  <2>3. v[j] \in Nat \X Nat /\ v[j][2] < len[v[j][1]]
    BY <1>3, <1>4, <2>1 DEF Entries, Bytes
  <2>4. CASE v[z][1] < v[j][1]
    BY <1>7, <1>10, <2>3, <2>4
  <2>5. CASE v[z][1] = v[j][1] /\ j - v[j][2] = z - v[z][2]
    <3>1. v[j][2] < e /\ v[j][2] \in Nat
      BY <1>7, <1>10, <2>3, <2>5
    <3>2. j - v[j][2] = 0
      BY <1>7, <2>5 DEF z
    <3> QED BY <1>9, <1>12, <3>1, <3>2
  <2> QED BY <2>2, <2>4, <2>5
<1>13. e < d => v[e][2] = 0
  BY <1>9 DEF Edge
<1>14. 0 \in Nat /\ d - e + 0 < Size
  BY <1>1, <1>3, <1>9
<1>15. Placed(buffer, len, logger_offset(off + e), w_off, 0, i, count)
  <2>1. \A j \in e..(d - 1) : v[j][1] > i
    BY <1>12
  <2> QED BY <1>1, <1>2, <1>9, <1>10, <1>13, <1>14, <2>1, PlacedRest DEF v, d
<1> QED BY <1>10, <1>11, <1>15

\* A reader moves to o, having read up to i, or closes its file.
LEMMA ReaderInv ==
    ASSUME LogInv, TypeInv', NEW r, r \in Readers, mutex = Free, UNCHANGED <<logVars, writerVars>>,
           NEW o, NEW i, r_off' = [r_off EXCEPT ![r] = o], last' = [last EXCEPT ![r] = i],
           o # Closed => i <= count /\ Placed(buffer, len, o, w_off, 0, i, count)
    PROVE  LogInv'
<1>0. TypeInv
  BY DEF LogInv
<1>1. /\ buffer' = buffer /\ w_off' = w_off /\ len' = len /\ head' = head
      /\ mutex' = mutex /\ count' = count
  BY DEF logVars, writerVars
<1>2. Everywhere(buffer, len, head, r_off, last, w_off, 0, count)
  BY DEF LogInv
<1>3. /\ r_off'[r] = o /\ last'[r] = i
      /\ \A x \in Readers : x # r => r_off'[x] = r_off[x] /\ last'[x] = last[x]
  BY <1>0 DEF TypeInv, TypeOK
<1>4. ASSUME NEW x, x \in Readers, r_off'[x] # Closed
      PROVE  last'[x] <= count /\ Placed(buffer, len, r_off'[x], w_off, 0, last'[x], count)
  <2>1. CASE x = r
    BY <1>3, <1>4, <2>1
  <2>2. CASE x # r
    BY <1>2, <1>3, <1>4, <2>2 DEF Everywhere
  <2> QED BY <2>1, <2>2
<1>5. Everywhere(buffer', len', head', r_off', last', w_off', 0, count')
  BY <1>1, <1>2, <1>4 DEF Everywhere
<1> QED BY <1>0, <1>1, <1>5, FreeInv

LEMMA OpenInv ==
    ASSUME LogInv, TypeInv', NEW r, r \in Readers,
           logger_open(r) \/ logger_release(r) \/ ReadEntry(r)
    PROVE  LogInv'
<1>0. TypeInv
  BY DEF LogInv
<1>1. mutex = Free /\ UNCHANGED <<logVars, writerVars>>
  BY DEF logger_open, logger_release, ReadEntry
<1>2. Everywhere(buffer, len, head, r_off, last, w_off, 0, count)
  BY <1>1 DEF LogInv
<1> DEFINE z == 0
<1>3. CASE logger_open(r)
  <2>1. r_off' = [r_off EXCEPT ![r] = head] /\ last' = [last EXCEPT ![r] = z]
    BY <1>3 DEF logger_open
  <2>2. z <= count /\ Placed(buffer, len, head, w_off, 0, z, count)
    BY <1>0, <1>2, Types DEF Everywhere
  <2> HIDE DEF z
  <2> QED BY <1>1, <2>1, <2>2, ReaderInv
<1>4. CASE logger_release(r)
  <2>1. r_off' = [r_off EXCEPT ![r] = Closed] /\ last' = [last EXCEPT ![r] = z]
    BY <1>4 DEF logger_release
  <2> HIDE DEF z
  <2> QED BY <1>1, <2>1, ReaderInv
<1>5. CASE ReadEntry(r)
  <2> DEFINE off == r_off[r]
             to == logger_offset(off + get_entry_len(buffer, off))
             i == buffer[off][1]
  <2>1. /\ r_off' = [r_off EXCEPT ![r] = to] /\ last' = [last EXCEPT ![r] = i]
        /\ off # w_off /\ rpc[r] = "read"
    <3>1. r_off \in [Readers -> Offsets \cup {Closed}]
      BY <1>0 DEF TypeInv, TypeOK
    <3> QED BY <1>5, <3>1 DEF ReadEntry
  <2>2. off # Closed
    BY <1>0, <2>1 DEF TypeInv, ReaderOK
  <2>3. off \in Offsets /\ last[r] \in Nat
    BY <1>0, <2>2, OpenReader
  <2>4. Placed(buffer, len, off, w_off, 0, last[r], count)
    BY <1>2, <2>2 DEF Everywhere
  <2>5. i <= count /\ Placed(buffer, len, to, w_off, 0, i, count)
    BY <1>0, <2>1, <2>3, <2>4, PlacedRead
  <2> HIDE DEF to, i, off
  <2> QED BY <1>1, <2>1, <2>5, ReaderInv
<1> QED BY <1>3, <1>4, <1>5

LEMMA NextLogInv == Faults # "any" /\ LogInv /\ [Next]_vars => LogInv'
<1> SUFFICES ASSUME Faults # "any", LogInv, [Next]_vars PROVE LogInv'
  OBVIOUS
<1>0. TypeInv
  BY DEF LogInv
<1>1. TypeInv'
  BY <1>0, NextTypeInv
<1>2. CASE UNCHANGED vars
  <2>1. /\ UNCHANGED <<buffer, len, head, r_off, last, w_off, mutex, count, ret>> /\ need' = need
    BY <1>2 DEF vars, logVars, writerVars, readerVars
  <2> QED BY <1>1, <2>1, SameInv
<1>3. ASSUME NEW w, w \in Writers,
             \/ WriteStart(w) \/ WriteHeader(w) \/ WriteSegment(w) \/ WriteFault(w)
             \/ WriteUnlock(w) \/ WriteWake(w) \/ LOGGER_FLUSH_LOG(w)
      PROVE  LogInv'
  <2>1. CASE WriteStart(w)
    <3>1. /\ UNCHANGED <<buffer, len, head, r_off, last, w_off, mutex, count, ret>>
          /\ wpc[w] = "idle" /\ \E n \in Lengths : need' = [need EXCEPT ![w] = n]
      BY <2>1 DEF WriteStart, logVars, readerVars
    <3>2. \A x \in Writers : mutex = x => need'[x] = need[x]
      BY <1>0, <1>3, <3>1 DEF TypeInv, WriterOK, TypeOK
    <3> QED BY <1>1, <3>1, <3>2, SameInv
  <2>2. CASE WriteWake(w)
    <3>1. UNCHANGED <<buffer, len, head, r_off, last, w_off, mutex, count, ret>> /\ need' = need
      BY <2>2 DEF WriteWake, logVars
    <3> QED BY <1>1, <3>1, SameInv
  <2> QED BY <1>1, <1>3, <2>1, <2>2, HeaderInv, SegmentInv, FaultInv, UnlockInv, FlushInv
<1>4. ASSUME NEW r, r \in Readers,
             Waits(r) \/ logger_open(r) \/ logger_release(r) \/ ReadEntry(r)
      PROVE  LogInv'
  <2>1. CASE Waits(r)
    <3>1. UNCHANGED <<logVars, writerVars, r_off, last>>
      BY <1>0, <1>4, <2>1, WaitsGoes
    <3>2. UNCHANGED <<buffer, len, head, r_off, last, w_off, mutex, count, ret>> /\ need' = need
      BY <3>1 DEF logVars, writerVars
    <3> QED BY <1>1, <3>2, SameInv
  <2> QED BY <1>1, <1>4, <2>1, OpenInv
<1> QED BY <1>2, <1>3, <1>4, NextCases

-----------------------------------------------------------------------------
(* What readers are given *)

LEMMA PlacedEndToEnd ==
    ASSUME TypeInv, NEW off, off \in Offsets, NEW lo, lo \in Nat,
           Placed(buffer, len, off, w_off, 0, lo, count)
    PROVE  EndToEnd(off, Unread(off))
<1> DEFINE d == Dist(off, w_off)
           v == View(buffer, off, d)
<1>1. /\ Size \in Nat /\ buffer \in [Offsets -> Nat \X Nat] /\ w_off \in Offsets /\ count \in Nat
  BY LengthBounds, Types
<1>2. d \in Nat /\ d < Size /\ Entries(v, d, len, lo, count) /\ Unread(off) = d
  BY <1>1, DistValue DEF Placed, Unread, Dist
<1>3. Bytes(v, d)
  BY <1>1, <1>2, ViewBytes
<1>4. Sizes(len, count)
  <2>1. count \in 0..count
    BY <1>1
  <2> QED BY <2>1, Types
<1> HIDE DEF d
<1>5. \A j \in 0..(d - 1) : Byte(off, j) = v[j]
  BY ViewByte DEF Byte
<1> HIDE DEF v
<1>6. ASSUME NEW j, j \in 0..(d - 1)
      PROVE  LET i == Byte(off, j)[1]
                 start == j - Byte(off, j)[2]
             IN  /\ i > 0 /\ start >= 0 /\ start + len[i] <= d
                 /\ \A k \in 0..(len[i] - 1) : Byte(off, start + k) = <<i, k>>
                 /\ start > 0 => Byte(off, start - 1)[1] < i
  <2> DEFINE i == v[j][1]
             p == v[j][2]
             start == j - p
  <2>1. Byte(off, j) = v[j]
    BY <1>5, <1>6
  <2>2. i \in Nat /\ p \in Nat
    BY <1>3, <1>6 DEF Bytes
  <2>3. /\ i \in (lo + 1)..count /\ p <= j /\ p < len[i] /\ j - p + len[i] <= d
        /\ \A k \in 0..(len[i] - 1) : v[j - p + k] = <<i, k>>
    BY <1>2, <1>6 DEF Entries
  <2>4. len[i] \in Nat
    BY <1>1, <1>4, <2>3 DEF Sizes
  <2> HIDE DEF i, p
  <2>5. i > 0 /\ start \in Nat /\ start >= 0 /\ start + len[i] <= d /\ j \in Nat
    BY <1>1, <1>2, <1>6, <2>2, <2>3, <2>4
  <2>6. ASSUME NEW k, k \in 0..(len[i] - 1) PROVE Byte(off, start + k) = <<i, k>>
    <3>1. start + k \in 0..(d - 1) /\ v[start + k] = <<i, k>>
      BY <1>2, <2>3, <2>4, <2>5, <2>6
    <3> QED BY <1>5, <3>1
  <2>7. ASSUME start > 0 PROVE Byte(off, start - 1)[1] < i
    <3> DEFINE x == start - 1
    <3>1. x \in 0..(d - 1) /\ x < j /\ x \in Nat /\ start = x + 1
      BY <1>2, <1>6, <2>2, <2>5, <2>7
    <3>2. start = j - p
      OBVIOUS
    <3> HIDE DEF x, start
    <3>3. \/ v[x][1] < v[j][1]
          \/ v[x][1] = v[j][1] /\ j - v[j][2] = x - v[x][2]
      BY <1>2, <1>6, <3>1 DEF Entries
    <3>4. v[x][2] \in Nat /\ v[x][1] \in Nat
      BY <1>3, <3>1 DEF Bytes
    <3>5. j - v[j][2] # x - v[x][2]
      BY <2>2, <2>5, <3>1, <3>2, <3>4 DEF p
    <3>6. v[x][1] < i
      BY <3>3, <3>5 DEF i
    <3>7. Byte(off, x) = v[x]
      BY <1>5, <3>1
    <3> QED BY <3>6, <3>7 DEF x
  <2> QED BY <2>1, <2>5, <2>6, <2>7 DEF i, p
<1>7. EndToEnd(off, d)
  BY <1>6 DEF EndToEnd
<1> QED BY <1>2, <1>7

LEMMA LogInvIntact == LogInv => LogIntact
<1> SUFFICES ASSUME LogInv, mutex = Free, NEW off, off \in {head} \cup {r_off[r] : r \in Open}
             PROVE  EndToEnd(off, Unread(off))
  BY DEF LogIntact
<1>0. TypeInv
  BY DEF LogInv
<1>1. Everywhere(buffer, len, head, r_off, last, w_off, 0, count)
  BY DEF LogInv
<1>2. CASE off = head
  <2> DEFINE z == 0
  <2>1. z \in Nat /\ off \in Offsets /\ Placed(buffer, len, off, w_off, 0, z, count)
    BY <1>0, <1>1, <1>2 DEF Everywhere, TypeInv, TypeOK
  <2> HIDE DEF z
  <2> QED BY <1>0, <2>1, PlacedEndToEnd
<1>3. CASE off # head
  <2>1. PICK r \in Open : off = r_off[r]
    BY <1>3
  <2>2. r \in Readers /\ r_off[r] # Closed
    BY DEF Open
  <2>3. off \in Offsets /\ last[r] \in Nat
    BY <1>0, <2>1, <2>2, OpenReader
  <2>4. Placed(buffer, len, off, w_off, 0, last[r], count)
    BY <1>1, <2>1, <2>2 DEF Everywhere
  <2> QED BY <1>0, <2>3, <2>4, PlacedEndToEnd
<1> QED BY <1>2, <1>3

LEMMA LogInvInOrder == LogInv => ReadsInOrder
<1> SUFFICES ASSUME LogInv, mutex = Free, NEW r, r \in Open, w_off # r_off[r]
             PROVE  last[r] < buffer[r_off[r]][1]
  BY DEF ReadsInOrder
<1>0. TypeInv
  BY DEF LogInv
<1>1. r \in Readers /\ r_off[r] # Closed
  BY DEF Open
<1> DEFINE off == r_off[r]
           lo == last[r]
           i == buffer[off][1]
<1>2. off \in Offsets /\ lo \in Nat /\ off # w_off
  BY <1>0, <1>1, OpenReader
<1>3. Placed(buffer, len, off, w_off, 0, lo, count)
  BY <1>1 DEF LogInv, Everywhere
<1>4. i > lo /\ i \in Nat
  <2> HIDE DEF lo
  <2> QED BY <1>0, <1>2, <1>3, PlacedRead
<1> QED BY <1>2, <1>4

(***************************************************************************)
(* What a reader will be given is intact: from its offset, and from the    *)
(* place where new readers start, up to the write offset lie whole entries *)
(* in the order written, for any number of writers and readers and any     *)
(* sizes with two entries' room in the log, however often fix_up_readers   *)
(* pulls readers forward.  Where copying from user space fails, orig must  *)
(* be fresh; run logger_race shows what happens where it is not.           *)
(***************************************************************************)
THEOREM LoggerLogIntact == Faults # "any" => (Spec => []LogIntact)
<1> SUFFICES ASSUME Faults # "any" PROVE Spec => []LogIntact
  OBVIOUS
<1>1. Init => LogInv
  BY InitLogInv
<1>2. LogInv /\ [Next]_vars => LogInv'
  BY NextLogInv
<1>3. LogInv => LogIntact
  BY LogInvIntact
<1> QED BY <1>1, <1>2, <1>3, PTL DEF Spec

(***************************************************************************)
(* logger_read gives a reader each entry at most once and in the order     *)
(* written, although writers may pull it forward between any two of its    *)
(* steps: the entry at its offset is younger than all it has read.         *)
(***************************************************************************)
THEOREM LoggerReadsInOrder == Faults # "any" => (Spec => []ReadsInOrder)
<1> SUFFICES ASSUME Faults # "any" PROVE Spec => []ReadsInOrder
  OBVIOUS
<1>1. Init => LogInv
  BY InitLogInv
<1>2. LogInv /\ [Next]_vars => LogInv'
  BY NextLogInv
<1>3. LogInv => ReadsInOrder
  BY LogInvInOrder
<1> QED BY <1>1, <1>2, <1>3, PTL DEF Spec
=============================================================================
