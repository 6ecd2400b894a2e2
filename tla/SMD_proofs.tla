----------------------------- MODULE SMD_proofs -----------------------------
(***************************************************************************)
(* Proofs about SMD, for FIFOs, headers and packets of any size and any    *)
(* number of packets: the words that a call copies, and the room that it   *)
(* fills, are still there when it moves the index; both FIFOs hold the     *)
(* words that are due, in order; and a packet is written whole.            *)
(***************************************************************************)
EXTENDS SMD, TLAPS, WellFoundedInduction

\* A non-empty set of naturals has a minimum, and Min is it.
LEMMA NatMin ==
    ASSUME NEW S, S \subseteq Nat, S # {}
    PROVE  /\ Min(S) \in S
           /\ \A y \in S : Min(S) <= y
<1>1. PICK t \in S : \A u \in S : ~ (<<u, t>> \in OpToRel(<, Nat))
  BY WFMin, NatLessThanWellFounded, Zenon
<1>2. \A u \in S : ~ (u < t)
  BY <1>1 DEF OpToRel
<1>3. \A u \in S : t <= u
  BY <1>2
<1> QED BY <1>3 DEF Min

Offsets == 0..(Size - 1)

-----------------------------------------------------------------------------
(* Indices that go round the end of a FIFO *)

\* Words from t up to h
Between(t, h) == IF t <= h THEN h - t ELSE h - t + Size

\* A word at o is one of them.
Inside(t, h, o) == IF t <= h THEN t <= o /\ o < h ELSE t <= o \/ o < h

\* The mask, without the modulus
LEMMA MaskValue ==
    ASSUME NEW x \in Int
    PROVE  /\ mask(x) \in Offsets
           /\ x \in Offsets => mask(x) = x
           /\ x \in Size..(2 * Size - 1) => mask(x) = x - Size
<1>1. Size \in Nat /\ Size > 0
  BY SmdAssumption
<1>2. x % Size \in 0..(Size - 1)
  BY <1>1
<1>3. x \in 0..(Size - 1) => x % Size = x
  BY <1>1
<1>4. x \in Size..(2 * Size - 1) => x % Size = x - Size
  BY <1>1
<1> QED BY <1>2, <1>3, <1>4 DEF mask, Offsets

\* The number of words, as the code computes it
LEMMA MaskDifference ==
    ASSUME NEW t \in Offsets, NEW h \in Offsets
    PROVE  mask(h - t + Size) = Between(t, h) /\ Between(t, h) \in Offsets
<1>1. Size \in Nat /\ Size > 0 /\ t \in 0..(Size - 1) /\ h \in 0..(Size - 1)
  BY SmdAssumption DEF Offsets
<1> DEFINE x == h - t + Size
<1>2. x \in Int /\ (t <= h => x \in Size..(2 * Size - 1)) /\ (~ t <= h => x \in Offsets)
  BY <1>1 DEF Offsets
<1> HIDE DEF x
<1>3. mask(x) \in Offsets /\ (t <= h => mask(x) = x - Size) /\ (~ t <= h => mask(x) = x)
  BY <1>2, MaskValue
<1> QED BY <1>1, <1>3 DEF Between, x, Offsets

\* An index moves on by n.
LEMMA MaskSum ==
    ASSUME NEW t \in Offsets, NEW n \in 0..Size
    PROVE  /\ mask(t + n) \in Offsets
           /\ mask(t + n) = IF t + n < Size THEN t + n ELSE t + n - Size
<1>1. Size \in Nat /\ Size > 0 /\ t \in 0..(Size - 1)
  BY SmdAssumption DEF Offsets
<1> DEFINE x == t + n
<1>2. x \in Int /\ (x < Size => x \in Offsets) /\ (~ x < Size => x \in Size..(2 * Size - 1))
  BY <1>1 DEF Offsets
<1> HIDE DEF x
<1>3. mask(x) \in Offsets /\ (x < Size => mask(x) = x) /\ (~ x < Size => mask(x) = x - Size)
  BY <1>2, MaskValue
<1> QED BY <1>1, <1>3 DEF x

\* The reader takes n words: no word is added, and n words less are left.
LEMMA TailMoves ==
    ASSUME NEW t \in Offsets, NEW h \in Offsets, NEW n \in Nat, n <= Between(t, h)
    PROVE  /\ mask(t + n) \in Offsets
           /\ Between(mask(t + n), h) = Between(t, h) - n
           /\ \A o \in Offsets : Inside(mask(t + n), h, o) => Inside(t, h, o)
<1>1. /\ Size \in Nat /\ Size > 0 /\ t \in 0..(Size - 1) /\ h \in 0..(Size - 1)
      /\ Between(t, h) \in 0..(Size - 1)
  BY SmdAssumption, MaskDifference DEF Offsets
<1>2. n \in 0..Size
  BY <1>1
<1> DEFINE u == mask(t + n)
<1>3. u \in Offsets /\ u = IF t + n < Size THEN t + n ELSE t + n - Size
  BY <1>2, MaskSum
<1> HIDE DEF u
<1>4. Between(u, h) = Between(t, h) - n
  BY <1>1, <1>3 DEF Between, Offsets
<1>5. ASSUME NEW o \in Offsets, Inside(u, h, o)
      PROVE  Inside(t, h, o)
  BY <1>1, <1>3, <1>5 DEF Between, Inside, Offsets
<1> QED BY <1>3, <1>4, <1>5 DEF u

\* The writer adds one, unless the FIFO is full.
LEMMA HeadMoves ==
    ASSUME NEW t \in Offsets, NEW h \in Offsets, mask(h + 1) # t
    PROVE  /\ mask(h + 1) \in Offsets
           /\ Between(t, mask(h + 1)) = Between(t, h) + 1
           /\ \A o \in Offsets : Inside(t, mask(h + 1), o) => Inside(t, h, o) \/ o = h
<1>1. Size \in Nat /\ Size > 1 /\ t \in 0..(Size - 1) /\ h \in 0..(Size - 1) /\ 1 \in 0..Size
  BY SmdAssumption DEF Offsets
<1> DEFINE u == mask(h + 1)
<1>2. u \in Offsets /\ u = IF h + 1 < Size THEN h + 1 ELSE h + 1 - Size
  BY <1>1, MaskSum
<1>3. u # t
  OBVIOUS
<1> HIDE DEF u
<1>4. Between(t, u) = Between(t, h) + 1
  BY <1>1, <1>2, <1>3 DEF Between, Offsets
<1>5. ASSUME NEW o \in Offsets, Inside(t, u, o)
      PROVE  Inside(t, h, o) \/ o = h
  BY <1>1, <1>2, <1>3, <1>5 DEF Inside, Offsets
<1> QED BY <1>2, <1>4, <1>5 DEF u

\* The smaller of two numbers
LEMMA MinTwo ==
    ASSUME NEW a \in Nat, NEW b \in Nat
    PROVE  /\ Min({a, b}) \in Nat /\ Min({a, b}) <= a /\ Min({a, b}) <= b
           /\ Min({a, b}) = a \/ Min({a, b}) = b
<1>1. \E x \in {a, b} : \A y \in {a, b} : x =< y
  OBVIOUS
<1>2. Min({a, b}) \in {a, b} /\ \A y \in {a, b} : Min({a, b}) =< y
  BY <1>1 DEF Min
<1> QED BY <1>2

-----------------------------------------------------------------------------
(* The invariant *)

ListNames == {"closed", "open", "none", "closing", "to_close"}
Ops == {"none", "close", "read", "copied", "write", "stored"}

ChannelTypes ==
    [list : ListNames, last : States, state : States, current : Nat, pending : Int,
     tail : Offsets, head : Offsets]

CallFields == {"op", "kind", "rest", "n", "r", "len", "word"}

Types ==
    /\ ch \in ChannelTypes
    /\ DOMAIN md = {"state", "head", "tail", "flag", "word"} /\ md.state \in States
    /\ md.head \in Offsets /\ md.tail \in Offsets /\ md.flag \in BOOLEAN /\ irq \in BOOLEAN
    /\ DOMAIN rbuf = Offsets /\ inLen \in Seq(Nat \ {0})
    /\ DOMAIN call = CallFields /\ call.op \in Ops
    /\ call.rest \in Nat /\ call.n \in Nat /\ call.r \in Nat /\ call.len \in Nat

\* How far the two sides of an orderly handshake can be apart
Handshake ==
    /\ ch.list = "open" <=> ch.state # SMD_SS_CLOSED
    /\ ch.list = "closing" => md.state \in {SMD_SS_OPENED, SMD_SS_CLOSING}
    /\ ch.list \in {"closed", "to_close"} => md.state # SMD_SS_OPENED
    /\ ch.state = SMD_SS_OPENED =>
          /\ ch.last = SMD_SS_OPENED
          /\ md.state = SMD_SS_OPENED \/ (md.state = SMD_SS_CLOSED /\ irq)

\* A session begins with empty FIFOs.
Fresh ==
    /\ ch.state = SMD_SS_OPENING => ch.tail = 0 /\ ch.head = 0
    /\ md.state = SMD_SS_OPENING \/ (md.state = SMD_SS_OPENED /\ ch.state = SMD_SS_OPENING) =>
          md.head = 0 /\ md.tail = 0

\* What the call under way has found out is still so.
CallOK ==
    /\ call.op \in {"read", "copied", "stored"} => ch_is_open(md, ch)
    /\ call.op \in {"read", "copied"} => ch.current > 0
    /\ ch.current > 0 /\ ch.list = "open" => ch.state = SMD_SS_OPENED
    /\ call.op \in {"copied", "stored"} => call.n <= call.rest
    /\ call.op = "close" => ch.list = "none"
    /\ call.op = "copied" => call.n <= Between(ch.tail, md.head)
    /\ call.op = "stored" => call.n <= Size - 1 - Between(md.tail, ch.head)

\* The words to be read are words of packets that the modem has begun.
WordsOK ==
    /\ DOMAIN md.word = 1..2 /\ md.word[1] \in Nat /\ md.word[2] \in Nat
    /\ md.word[1] = IF md.word[2] = 0 THEN Len(inLen) + 1 ELSE Len(inLen)
    /\ md.word[1] > 0
    /\ ch_is_open(md, ch) =>
          \A o \in Offsets : Inside(ch.tail, md.head, o) => rbuf[o][1] \in DOMAIN inLen

SInv == Types /\ Handshake /\ Fresh /\ CallOK /\ WordsOK

\* The lines that a change of the modem's state takes
LEMMA StateChange ==
    ASSUME NEW c \in ChannelTypes, NEW new \in States, NEW d, d = smd_state_change(c, new)
    PROVE  /\ d \in ChannelTypes /\ d.last = new /\ d.pending = c.pending
           /\ new = SMD_SS_OPENING /\ c.state \in {SMD_SS_CLOSING, SMD_SS_CLOSED} =>
                 /\ d.tail = 0 /\ d.head = 0 /\ d.state = SMD_SS_OPENING
                 /\ d.list = c.list /\ d.current = c.current
           /\ new = SMD_SS_OPENED /\ c.state = SMD_SS_OPENING =>
                 /\ d.state = SMD_SS_OPENED /\ d.tail = c.tail /\ d.head = c.head
                 /\ d.list = c.list /\ d.current = c.current
           /\ new = SMD_SS_CLOSED /\ c.state = SMD_SS_OPENED =>
                 /\ d.state = SMD_SS_CLOSING /\ d.current = 0 /\ d.list = c.list
                 /\ d.tail = c.tail /\ d.head = c.head
           /\ new = SMD_SS_CLOSING /\ c.state = SMD_SS_CLOSED =>
                 /\ d.list = "to_close" /\ d.state = c.state /\ d.current = c.current
                 /\ d.tail = c.tail /\ d.head = c.head
           /\ ~ (new = SMD_SS_OPENING /\ c.state \in {SMD_SS_CLOSING, SMD_SS_CLOSED})
              /\ ~ (new = SMD_SS_OPENED /\ c.state = SMD_SS_OPENING)
              /\ ~ (new = SMD_SS_CLOSED /\ c.state = SMD_SS_OPENED)
              /\ ~ (new = SMD_SS_CLOSING /\ c.state = SMD_SS_CLOSED) =>
                 /\ d.list = c.list /\ d.state = c.state /\ d.current = c.current
                 /\ d.tail = c.tail /\ d.head = c.head
<1> USE DEF States, SMD_SS_CLOSED, SMD_SS_OPENING, SMD_SS_OPENED, SMD_SS_CLOSING, ChannelTypes
<1>0. 0 \in Offsets
  BY SmdAssumption DEF Offsets
<1>1. CASE new = SMD_SS_OPENING /\ c.state \in {SMD_SS_CLOSING, SMD_SS_CLOSED}
  <2>1. d = [[c EXCEPT !.last = new] EXCEPT !.tail = 0, !.head = 0, !.state = SMD_SS_OPENING]
    BY <1>1 DEF smd_state_change
  <2> QED BY <1>0, <1>1, <2>1
<1>2. CASE new = SMD_SS_OPENED /\ c.state = SMD_SS_OPENING
  <2>1. d = [[c EXCEPT !.last = new] EXCEPT !.state = SMD_SS_OPENED]
    BY <1>2 DEF smd_state_change
  <2> QED BY <1>2, <2>1
<1>3. CASE new = SMD_SS_CLOSED /\ c.state = SMD_SS_OPENED
  <2>1. d = [[c EXCEPT !.last = new] EXCEPT !.state = SMD_SS_CLOSING, !.current = 0]
    BY <1>3 DEF smd_state_change
  <2> DEFINE e == [c EXCEPT !.last = new]
  <2>2. /\ e \in ChannelTypes /\ e.last = new /\ e.pending = c.pending /\ e.list = c.list
        /\ e.tail = c.tail /\ e.head = c.head
    OBVIOUS
  <2> DEFINE z == 0
  <2>3. d = [e EXCEPT !.state = SMD_SS_CLOSING, !.current = z] /\ z \in Nat /\ z = 0
    BY <2>1
  <2> HIDE DEF e, z
  <2>4. d \in ChannelTypes
    BY <2>2, <2>3
  <2> QED BY <1>3, <2>2, <2>3, <2>4
<1>4. CASE new = SMD_SS_CLOSING /\ c.state = SMD_SS_CLOSED
  <2>1. d = [[c EXCEPT !.last = new] EXCEPT !.list = "to_close"]
    BY <1>4 DEF smd_state_change
  <2> QED BY <1>4, <2>1 DEF ListNames
<1>5. CASE /\ ~ (new = SMD_SS_OPENING /\ c.state \in {SMD_SS_CLOSING, SMD_SS_CLOSED})
           /\ ~ (new = SMD_SS_OPENED /\ c.state = SMD_SS_OPENING)
           /\ ~ (new = SMD_SS_CLOSED /\ c.state = SMD_SS_OPENED)
           /\ ~ (new = SMD_SS_CLOSING /\ c.state = SMD_SS_CLOSED)
  <2>1. d = [c EXCEPT !.last = new]
    BY <1>5 DEF smd_state_change
  <2> QED BY <1>5, <2>1
<1> QED BY <1>1, <1>2, <1>3, <1>4, <1>5

\* The header of the next packet is taken only when there is one.
LEMMA HeaderTaken ==
    ASSUME Types, NEW c \in ChannelTypes, NEW d, d = update_packet_state(c),
           \A o \in Offsets : Inside(c.tail, md.head, o) => rbuf[o][1] \in DOMAIN inLen
    PROVE  /\ d \in ChannelTypes /\ d.list = c.list /\ d.last = c.last /\ d.state = c.state
           /\ d.head = c.head /\ d.pending = c.pending
           /\ c.current > 0 => d = c
           /\ \A o \in Offsets : Inside(d.tail, md.head, o) => Inside(c.tail, md.head, o)
<1>0. c.tail \in Offsets /\ md.head \in Offsets /\ c.current \in Nat /\ Header \in Nat \ {0}
  BY SmdAssumption DEF Types, ChannelTypes
<1>1. CASE d = c
  BY <1>1
<1>2. CASE ~ (c.current > 0) /\ ~ (mask(md.head - c.tail + Size) < Header)
  <2> DEFINE t == mask(c.tail + Header)
             p == rbuf[c.tail][1]
             x == inLen[p]
  <2>1. d = [c EXCEPT !.tail = t, !.current = x]
    BY <1>2 DEF update_packet_state
  <2>2. Header <= Between(c.tail, md.head)
    <3>1. mask(md.head - c.tail + Size) = Between(c.tail, md.head) /\ Between(c.tail, md.head) \in Offsets
      BY <1>0, MaskDifference
    <3> QED BY <1>0, <1>2, <3>1 DEF Offsets
  <2>3. t \in Offsets /\ \A o \in Offsets : Inside(t, md.head, o) => Inside(c.tail, md.head, o)
    BY <1>0, <2>2, TailMoves
  <2>4. Inside(c.tail, md.head, c.tail)
    BY <1>0, <2>2, SmdAssumption DEF Between, Inside, Offsets
  <2>5. x \in Nat
    BY <1>0, <2>4 DEF Types
  <2> HIDE DEF t, x
  <2> QED BY <1>2, <2>1, <2>3, <2>5 DEF ChannelTypes
<1> QED BY <1>1, <1>2 DEF update_packet_state

-----------------------------------------------------------------------------
(* The parts of the invariant that a step cannot disturb *)

\* A step of the client that leaves the FIFOs and the handshake alone
LEMMA CallOnly ==
    ASSUME SInv, UNCHANGED <<ch, md, irq, rbuf, inLen>>, Types', CallOK'
    PROVE  SInv'
<1>1. Handshake' /\ Fresh'
  BY DEF SInv, Handshake, Fresh
<1>2. WordsOK'
  BY DEF SInv, WordsOK, ch_is_open
<1> QED BY <1>1, <1>2 DEF SInv

\* A step that moves indices or counts of this side of an open channel
LEMMA IndexOnly ==
    ASSUME SInv, ch_is_open(md, ch), UNCHANGED <<md, irq, rbuf, inLen>>,
           ch'.list = ch.list, ch'.state = ch.state, ch'.last = ch.last,
           \A o \in Offsets : Inside(ch'.tail, md.head, o) => Inside(ch.tail, md.head, o),
           Types', CallOK'
    PROVE  SInv'
<1> USE DEF SMD_SS_CLOSED, SMD_SS_OPENING, SMD_SS_OPENED, SMD_SS_CLOSING
<1>1. Handshake' /\ Fresh'
  BY DEF SInv, Handshake, Fresh, ch_is_open
<1>2. WordsOK'
  BY DEF SInv, WordsOK, ch_is_open
<1> QED BY <1>1, <1>2 DEF SInv

\* A channel that is not open has no word of interest.
LEMMA NotOpen ==
    ASSUME SInv, UNCHANGED inLen, md'.word = md.word,
           ~ (md'.state = SMD_SS_OPENED /\ ch'.state = SMD_SS_OPENED)
    PROVE  WordsOK'
BY DEF SInv, WordsOK, ch_is_open

-----------------------------------------------------------------------------
(* The interrupt and the handshake *)

LEMMA IrqStep ==
    ASSUME Orderly, SInv, handle_smd_irq
    PROVE  SInv'
<1> USE DEF SMD_SS_CLOSED, SMD_SS_OPENING, SMD_SS_OPENED, SMD_SS_CLOSING
<1> DEFINE seen == StateSeen(ch)
           data == ch_is_open(md, ch) /\ md.flag
           c    == IF data THEN update_packet_state(seen) ELSE seen
           f    == md.flag /\ ~ data
<1>0. Types /\ Handshake /\ Fresh /\ CallOK /\ WordsOK
  BY DEF SInv
<1>1. /\ ch.list = "open" /\ call.op # "close" /\ ch' = c /\ irq' = FALSE
      /\ md' = [md EXCEPT !.flag = f]
      /\ UNCHANGED <<rbuf, call, inLen>>
  BY DEF handle_smd_irq, Locked
<1>2. ch \in ChannelTypes /\ md.state \in States /\ f \in BOOLEAN
  BY <1>0 DEF Types, ch_is_open
<1>3. /\ DOMAIN md' = DOMAIN md /\ md'.flag \in BOOLEAN
      /\ md'.state = md.state /\ md'.head = md.head /\ md'.tail = md.tail /\ md'.word = md.word
  <2> HIDE DEF f
  <2> QED BY <1>0, <1>1, <1>2 DEF Types
<1>4. ASSUME ch' \in ChannelTypes PROVE Types'
  BY <1>0, <1>1, <1>3, <1>4 DEF Types
<1>5. CASE ch_is_open(md, ch)
  <2>1. seen = ch /\ md.state = "OPENED" /\ ch.state = "OPENED" /\ ch.last = "OPENED"
    BY <1>0, <1>5 DEF StateSeen, Handshake, ch_is_open
  <2>2. /\ c \in ChannelTypes /\ c.list = ch.list /\ c.last = ch.last /\ c.state = ch.state
        /\ c.head = ch.head /\ (ch.current > 0 => c = ch)
        /\ \A o \in Offsets : Inside(c.tail, md.head, o) => Inside(ch.tail, md.head, o)
    <3>1. \A o \in Offsets : Inside(ch.tail, md.head, o) => rbuf[o][1] \in DOMAIN inLen
      BY <1>0, <1>5 DEF WordsOK
    <3> DEFINE u == update_packet_state(ch)
    <3>2. /\ u \in ChannelTypes /\ u.list = ch.list /\ u.last = ch.last /\ u.state = ch.state
          /\ u.head = ch.head /\ (ch.current > 0 => u = ch)
          /\ \A o \in Offsets : Inside(u.tail, md.head, o) => Inside(ch.tail, md.head, o)
      BY <1>0, <1>2, <3>1, HeaderTaken
    <3>3. c = u \/ c = ch
      BY <2>1
    <3> HIDE DEF u, c
    <3> QED BY <1>2, <3>2, <3>3
  <2> HIDE DEF c, f, data, seen
  <2>3. Types'
    BY <1>1, <1>4, <2>2
  <2>4. Handshake' /\ Fresh'
    BY <1>0, <1>1, <1>3, <2>1, <2>2 DEF Handshake, Fresh
  <2>5. CallOK'
    <3>1. ch' = c /\ call' = call /\ ch.current \in Nat
      BY <1>1, <1>2 DEF ChannelTypes
    <3>2. call.op \in {"read", "copied"} => c = ch
      BY <1>0, <2>2 DEF CallOK
    <3>3. call.op = "copied" => call.n <= Between(ch.tail, md.head)
      BY <1>0 DEF CallOK
    <3>4. call.op = "stored" => call.n <= Size - 1 - Between(md.tail, ch.head)
      BY <1>0 DEF CallOK
    <3>5. call'.op = "copied" => call'.n <= Between(ch'.tail, md'.head)
      BY <1>3, <3>1, <3>2, <3>3
    <3>6. call'.op = "stored" => call'.n <= Size - 1 - Between(md'.tail, ch'.head)
      BY <1>3, <2>2, <3>1, <3>4
    <3> QED BY <1>0, <1>3, <2>1, <2>2, <3>1, <3>2, <3>5, <3>6 DEF CallOK, ch_is_open
  <2>6. WordsOK'
    BY <1>0, <1>1, <1>3, <1>5, <2>1, <2>2 DEF WordsOK, ch_is_open
  <2> QED BY <2>3, <2>4, <2>5, <2>6 DEF SInv
<1>6. CASE ~ ch_is_open(md, ch)
  <2>1. ch' = seen /\ call.op \notin {"read", "copied", "stored"}
    BY <1>0, <1>1, <1>6 DEF CallOK
  <2>2. CASE md.state = ch.last
    <3>1. ch' = ch /\ ch.state # "OPENED"
      BY <1>0, <1>6, <2>1, <2>2 DEF StateSeen, Handshake, ch_is_open
    <3>2. Types'
      BY <1>2, <1>4, <3>1
    <3>3. Handshake' /\ Fresh'
      BY <1>0, <1>1, <1>3, <3>1 DEF Handshake, Fresh
    <3>4. CallOK'
      BY <1>0, <1>1, <1>3, <2>1, <3>1 DEF CallOK, ch_is_open
    <3>5. WordsOK'
      BY <1>1, <1>3, <3>1, NotOpen
    <3> QED BY <3>2, <3>3, <3>4, <3>5 DEF SInv
  <2>3. CASE md.state # ch.last
    <3> DEFINE d == smd_state_change(ch, md.state)
    <3>1. ch' = d
      BY <2>1, <2>3 DEF StateSeen
    <3>2. /\ d \in ChannelTypes /\ d.last = md.state
          /\ md.state = "OPENING" /\ ch.state \in {"CLOSING", "CLOSED"} =>
                /\ d.tail = 0 /\ d.head = 0 /\ d.state = "OPENING"
                /\ d.list = ch.list /\ d.current = ch.current
          /\ md.state = "OPENED" /\ ch.state = "OPENING" =>
                /\ d.state = "OPENED" /\ d.tail = ch.tail /\ d.head = ch.head
                /\ d.list = ch.list /\ d.current = ch.current
          /\ md.state = "CLOSED" /\ ch.state = "OPENED" =>
                /\ d.state = "CLOSING" /\ d.current = 0 /\ d.list = ch.list
                /\ d.tail = ch.tail /\ d.head = ch.head
          /\ ~ (md.state = "OPENING" /\ ch.state \in {"CLOSING", "CLOSED"})
             /\ ~ (md.state = "OPENED" /\ ch.state = "OPENING")
             /\ ~ (md.state = "CLOSED" /\ ch.state = "OPENED")
             /\ ~ (md.state = "CLOSING" /\ ch.state = "CLOSED") =>
                /\ d.list = ch.list /\ d.state = ch.state /\ d.current = ch.current
                /\ d.tail = ch.tail /\ d.head = ch.head
      BY <1>2, StateChange
    <3> HIDE DEF d, c, seen
    <3>3. ch.state # "CLOSED" /\ ch.current \in Nat
      BY <1>0, <1>1, <1>2 DEF Handshake, ChannelTypes
    <3>4. Types'
      BY <1>4, <3>1, <3>2
    <3>5. Handshake' /\ Fresh'
      BY <1>0, <1>1, <1>2, <1>3, <3>1, <3>2, <3>3 DEF Handshake, Fresh, States
    <3>6. CallOK'
      BY <1>0, <1>1, <1>2, <1>3, <2>1, <3>1, <3>2, <3>3 DEF CallOK, ch_is_open, Handshake, States
    <3>7. WordsOK'
      <4>1. CASE md.state = "OPENED" /\ ch.state = "OPENING"
        <5>1. ch'.tail = 0 /\ md'.head = 0
          BY <1>0, <1>3, <3>1, <3>2, <4>1 DEF Fresh
        <5>2. \A o \in Offsets : ~ Inside(ch'.tail, md'.head, o)
          BY <5>1 DEF Inside, Offsets
        <5> QED BY <1>0, <1>1, <1>3, <5>2 DEF WordsOK
      <4>2. CASE ~ (md.state = "OPENED" /\ ch.state = "OPENING")
        <5>1. ~ (md'.state = "OPENED" /\ ch'.state = "OPENED")
          BY <1>0, <1>1, <1>2, <1>3, <1>6, <3>1, <3>2, <3>3, <4>2 DEF Handshake, ch_is_open, States
        <5> QED BY <1>1, <1>3, <5>1, NotOpen
      <4> QED BY <4>1, <4>2
    <3> QED BY <3>4, <3>5, <3>6, <3>7 DEF SInv
  <2> QED BY <2>2, <2>3
<1> QED BY <1>5, <1>6

LEMMA ClosingIrqStep ==
    ASSUME Orderly, SInv, handle_smd_irq_closing_list
    PROVE  SInv'
<1> USE DEF SMD_SS_CLOSED, SMD_SS_OPENING, SMD_SS_OPENED, SMD_SS_CLOSING
<1>0. Types /\ Handshake /\ Fresh /\ CallOK /\ WordsOK
  BY DEF SInv
<1>1. /\ ch.list # "open" /\ call.op # "close" /\ irq' = FALSE
      /\ ch' = IF ch.list = "closing" THEN StateSeen(ch) ELSE ch
      /\ UNCHANGED <<md, rbuf, call, inLen>>
  BY DEF handle_smd_irq_closing_list, Locked
<1>2. ch \in ChannelTypes /\ md.state \in States
  BY <1>0 DEF Types
<1>3. ch.state = "CLOSED" /\ call.op \notin {"read", "copied", "stored"}
  BY <1>0, <1>1 DEF Handshake, CallOK, ch_is_open
<1>4. /\ ch' \in ChannelTypes /\ ch'.state = "CLOSED" /\ ch'.list # "open"
      /\ ch'.list = ch.list \/ (ch'.list = "to_close" /\ md.state = "CLOSING")
  <2>1. CASE ch' = ch
    BY <1>1, <1>2, <1>3, <2>1
  <2>2. CASE ch' # ch
    <3> DEFINE d == smd_state_change(ch, md.state)
    <3>1. ch' = d /\ md.state \in {"OPENED", "CLOSING"}
      BY <1>0, <1>1, <2>2 DEF StateSeen, Handshake
    <3>2. /\ d \in ChannelTypes
          /\ md.state = "CLOSING" /\ ch.state = "CLOSED" =>
                d.list = "to_close" /\ d.state = ch.state
          /\ md.state = "OPENED" /\ ch.state = "CLOSED" =>
                d.list = ch.list /\ d.state = ch.state
      BY <1>2, StateChange
    <3> HIDE DEF d
    <3> QED BY <1>1, <1>3, <3>1, <3>2
  <2> QED BY <2>1, <2>2
<1>5. Types'
  BY <1>0, <1>1, <1>4 DEF Types
<1>6. Handshake' /\ Fresh'
  BY <1>0, <1>1, <1>3, <1>4 DEF Handshake, Fresh
<1>7. CallOK'
  BY <1>1, <1>3, <1>4 DEF CallOK, ch_is_open
<1>8. WordsOK'
  BY <1>1, <1>4, NotOpen
<1> QED BY <1>5, <1>6, <1>7, <1>8 DEF SInv

LEMMA FinalizeStep ==
    ASSUME SInv, finalize_channel_close_fn
    PROVE  SInv'
<1> USE DEF SMD_SS_CLOSED, SMD_SS_OPENING, SMD_SS_OPENED, SMD_SS_CLOSING
<1>0. Types /\ Handshake /\ Fresh /\ CallOK /\ WordsOK
  BY DEF SInv
<1>1. /\ ch.list = "to_close" /\ ch' = [ch EXCEPT !.list = "closed"]
      /\ UNCHANGED <<md, rbuf, irq, call, inLen>>
  BY DEF finalize_channel_close_fn
<1>2. ch'.list = "closed" /\ ch'.state = "CLOSED" /\ ch.state = "CLOSED" /\ ch' \in ChannelTypes
  BY <1>0, <1>1 DEF Types, ChannelTypes, ListNames, Handshake
<1>3. Types'
  BY <1>0, <1>1, <1>2 DEF Types
<1>4. Handshake' /\ Fresh'
  BY <1>0, <1>1, <1>2 DEF Handshake, Fresh
<1>5. CallOK'
  BY <1>0, <1>1, <1>2 DEF CallOK, ch_is_open
<1>6. WordsOK'
  BY <1>1, <1>2, NotOpen
<1> QED BY <1>3, <1>4, <1>5, <1>6 DEF SInv

LEMMA OpenStep ==
    ASSUME SInv, smd_open
    PROVE  SInv'
<1> USE DEF SMD_SS_CLOSED, SMD_SS_OPENING, SMD_SS_OPENED, SMD_SS_CLOSING
<1>0. Types /\ Handshake /\ Fresh /\ CallOK /\ WordsOK
  BY DEF SInv
<1> DEFINE z == 0
           c == [ch EXCEPT !.list = "open", !.current = z]
<1>1. /\ call = NoCall /\ ch.list = "closed" /\ ch' = smd_state_change(c, "OPENING")
      /\ UNCHANGED <<md, rbuf, irq, call, inLen>>
  BY DEF smd_open
<1>2. z \in Nat /\ z = 0
  OBVIOUS
<1>3. call.op = "none" /\ ch.state = "CLOSED"
  BY <1>0, <1>1 DEF NoCall, Handshake
<1> HIDE DEF z
<1>4. c \in ChannelTypes /\ c.list = "open" /\ c.state = "CLOSED" /\ c.current = z
  BY <1>0, <1>2, <1>3 DEF Types, ChannelTypes, ListNames
<1> HIDE DEF c
<1>5. "OPENING" \in States
  BY DEF States
<1>6. /\ ch' \in ChannelTypes /\ ch'.tail = 0 /\ ch'.head = 0 /\ ch'.state = "OPENING"
      /\ ch'.list = "open" /\ ch'.current = 0
  BY <1>1, <1>2, <1>4, <1>5, StateChange
<1>7. Types'
  BY <1>0, <1>1, <1>6 DEF Types
<1>8. Handshake' /\ Fresh'
  BY <1>0, <1>1, <1>6 DEF Handshake, Fresh
<1>9. CallOK'
  BY <1>1, <1>3, <1>6 DEF CallOK, ch_is_open
<1>10. WordsOK'
  BY <1>1, <1>6, NotOpen
<1> QED BY <1>7, <1>8, <1>9, <1>10 DEF SInv

LEMMA CloseStep ==
    ASSUME SInv, CloseSet \/ CloseCheck
    PROVE  SInv'
<1> USE DEF SMD_SS_CLOSED, SMD_SS_OPENING, SMD_SS_OPENED, SMD_SS_CLOSING
<1>0. Types /\ Handshake /\ Fresh /\ CallOK /\ WordsOK
  BY DEF SInv
<1>1. CASE CloseSet
  <2>1. /\ call = NoCall /\ call' = [NoCall EXCEPT !.op = "close"]
        /\ ch' = [ch EXCEPT !.list = "none", !.state = "CLOSED"]
        /\ UNCHANGED <<md, rbuf, irq, inLen>>
    BY <1>1 DEF CloseSet
  <2>2. ch' \in ChannelTypes /\ ch'.list = "none" /\ ch'.state = "CLOSED"
    BY <1>0, <2>1 DEF Types, ChannelTypes, ListNames, States
  <2>3. /\ DOMAIN call' = CallFields /\ call'.op = "close"
        /\ call'.rest = 0 /\ call'.n = 0 /\ call'.r = 0 /\ call'.len = 0
    BY <2>1 DEF NoCall, CallFields
  <2>4. Types'
    BY <1>0, <2>1, <2>2, <2>3 DEF Types, Ops
  <2>5. Handshake' /\ Fresh'
    BY <1>0, <2>1, <2>2 DEF Handshake, Fresh
  <2>6. CallOK'
    BY <2>2, <2>3 DEF CallOK
  <2>7. WordsOK'
    BY <2>1, <2>2, NotOpen
  <2> QED BY <2>4, <2>5, <2>6, <2>7 DEF SInv
<1>2. CASE CloseCheck
  <2>1. /\ call.op = "close" /\ call' = NoCall
        /\ ch' = [ch EXCEPT !.list = IF md.state = "OPENED" THEN "closing" ELSE "closed"]
        /\ UNCHANGED <<md, rbuf, irq, inLen>>
    BY <1>2 DEF CloseCheck
  <2>2. ch.state = "CLOSED" /\ ch.list = "none"
    BY <1>0, <2>1 DEF Handshake, CallOK
  <2>3. /\ ch' \in ChannelTypes /\ ch'.state = "CLOSED"
        /\ ch'.list = IF md.state = "OPENED" THEN "closing" ELSE "closed"
    BY <1>0, <2>1, <2>2 DEF Types, ChannelTypes, ListNames
  <2>4. /\ DOMAIN call' = CallFields /\ call'.op = "none"
        /\ call'.rest = 0 /\ call'.n = 0 /\ call'.r = 0 /\ call'.len = 0
    BY <2>1 DEF NoCall, CallFields
  <2>5. Types'
    BY <1>0, <2>1, <2>3, <2>4 DEF Types, Ops
  <2>6. Handshake' /\ Fresh'
    BY <1>0, <2>1, <2>3 DEF Handshake, Fresh
  <2>7. CallOK'
    BY <2>3, <2>4 DEF CallOK
  <2>8. WordsOK'
    BY <2>1, <2>3, NotOpen
  <2> QED BY <2>5, <2>6, <2>7, <2>8 DEF SInv
<1> QED BY <1>1, <1>2

-----------------------------------------------------------------------------
(* The calls of the client *)

\* What the words to be read and the room are, as the code computes them
LEMMA Avail ==
    ASSUME Types
    PROVE  /\ smd_stream_read_avail = Between(ch.tail, md.head)
           /\ smd_stream_write_avail = Size - 1 - Between(md.tail, ch.head)
           /\ Between(ch.tail, md.head) \in 0..(Size - 1)
           /\ Between(md.tail, ch.head) \in 0..(Size - 1)
           /\ ch_read_buffer \in Nat /\ ch_read_buffer <= Between(ch.tail, md.head)
           /\ ch_write_buffer \in Nat
           /\ ch_write_buffer <= Size - 1 - Between(md.tail, ch.head)
<1>1. /\ ch.tail \in Offsets /\ ch.head \in Offsets
      /\ md.tail \in Offsets /\ md.head \in Offsets
  BY DEF Types, ChannelTypes
<1>2. Size \in Nat /\ Size > 0
  BY SmdAssumption
<1>3. /\ mask(md.head - ch.tail + Size) = Between(ch.tail, md.head)
      /\ Between(ch.tail, md.head) \in Offsets
  BY <1>1, MaskDifference
<1>4. /\ mask(ch.head - md.tail + Size) = Between(md.tail, ch.head)
      /\ Between(md.tail, ch.head) \in Offsets
  BY <1>1, MaskDifference
<1>5. ch_read_buffer \in Nat /\ ch_read_buffer <= Between(ch.tail, md.head)
  BY <1>1, <1>2 DEF ch_read_buffer, Between, Offsets
<1>6. /\ ch_write_buffer \in Nat
      /\ ch_write_buffer <= Size - 1 - Between(md.tail, ch.head)
  BY <1>1, <1>2 DEF ch_write_buffer, Between, Offsets
<1> QED BY <1>3, <1>4, <1>5, <1>6 DEF smd_stream_read_avail, smd_stream_write_avail, Offsets

LEMMA ReadBeginStep ==
    ASSUME Orderly, SInv, NEW len \in Lens, ReadBegin(len)
    PROVE  SInv'
<1> USE DEF SMD_SS_CLOSED, SMD_SS_OPENING, SMD_SS_OPENED, SMD_SS_CLOSING
<1>0. Types /\ Handshake /\ Fresh /\ CallOK /\ WordsOK
  BY DEF SInv
<1> DEFINE m == Min({len, ch.current})
<1>1. /\ ch.list = "open" /\ md.state = ch.last /\ Min({smd_stream_read_avail, ch.current}) > 0
      /\ call' = [NoCall EXCEPT !.op = "read", !.rest = m]
      /\ UNCHANGED <<ch, md, irq, rbuf, inLen>>
  BY DEF ReadBegin, Quiet, smd_packet_read_avail
<1>2. len \in Nat /\ ch.current \in Nat /\ smd_stream_read_avail \in Nat
  BY <1>0, SmdAssumption, Avail DEF Types, ChannelTypes
<1>3. ch.current > 0
  BY <1>1, <1>2, MinTwo
<1>4. ch_is_open(md, ch)
  BY <1>0, <1>1, <1>3 DEF CallOK, Handshake, ch_is_open
<1>5. m \in Nat
  BY <1>2, MinTwo
<1> HIDE DEF m
<1>6. /\ DOMAIN call' = CallFields /\ call'.op = "read"
      /\ call'.rest = m /\ call'.n = 0 /\ call'.r = 0 /\ call'.len = 0
  BY <1>1 DEF NoCall, CallFields
<1>7. Types'
  BY <1>0, <1>1, <1>5, <1>6 DEF Types, Ops
<1>8. CallOK'
  BY <1>0, <1>1, <1>3, <1>4, <1>6 DEF CallOK, ch_is_open
<1> QED BY <1>1, <1>7, <1>8, CallOnly

LEMMA ReadCopyStep ==
    ASSUME SInv, ReadCopy
    PROVE  SInv'
<1>0. Types /\ CallOK
  BY DEF SInv
<1> DEFINE m == Min({ch_read_buffer, call.rest})
<1>1. /\ call.op = "read" /\ call' = [call EXCEPT !.op = "copied", !.n = m]
      /\ UNCHANGED <<ch, md, irq, rbuf, inLen>>
  BY DEF ReadCopy
<1>2. m \in Nat /\ m <= ch_read_buffer /\ m <= call.rest
  BY <1>0, Avail, MinTwo DEF Types
<1>3. m <= Between(ch.tail, md.head)
  BY <1>0, <1>2, Avail
<1> HIDE DEF m
<1>4. /\ DOMAIN call' = CallFields /\ call'.op = "copied" /\ call'.n = m
      /\ call'.rest = call.rest /\ call'.r = call.r /\ call'.len = call.len
  BY <1>0, <1>1 DEF Types, CallFields
<1>5. Types'
  BY <1>0, <1>1, <1>2, <1>4 DEF Types, Ops
<1>6. CallOK'
  BY <1>0, <1>1, <1>2, <1>3, <1>4 DEF CallOK, ch_is_open
<1> QED BY <1>1, <1>5, <1>6, CallOnly

LEMMA ReadDoneStep ==
    ASSUME SInv, ch_read_done
    PROVE  SInv'
<1>0. Types /\ CallOK
  BY DEF SInv
<1> DEFINE m == call.n
           t == mask(ch.tail + m)
<1>1. /\ call.op = "copied"
      /\ call' = [call EXCEPT !.op = "read", !.rest = call.rest - m, !.n = 0, !.r = call.r + m]
      /\ ch' = [ch EXCEPT !.tail = t]
      /\ UNCHANGED <<md, irq, rbuf, inLen>>
  BY DEF ch_read_done
<1>2. /\ m \in Nat /\ m <= call.rest /\ m <= Between(ch.tail, md.head)
      /\ call.rest \in Nat /\ call.r \in Nat
  BY <1>0, <1>1 DEF Types, CallOK
<1>3. t \in Offsets /\ \A o \in Offsets : Inside(t, md.head, o) => Inside(ch.tail, md.head, o)
  BY <1>0, <1>2, TailMoves DEF Types, ChannelTypes
<1> DEFINE a == call.rest - m
           b == call.r + m
<1>4. a \in Nat /\ b \in Nat
  BY <1>2
<1> HIDE DEF t, m, a, b
<1>5. /\ ch' \in ChannelTypes /\ ch'.tail = t /\ ch'.list = ch.list /\ ch'.state = ch.state
      /\ ch'.last = ch.last /\ ch'.current = ch.current
  BY <1>0, <1>1, <1>3 DEF Types, ChannelTypes
<1>6. /\ DOMAIN call' = CallFields /\ call'.op = "read" /\ call'.n = 0
      /\ call'.rest = a /\ call'.r = b /\ call'.len = call.len
  BY <1>0, <1>1 DEF Types, CallFields, a, b
<1>7. Types'
  BY <1>0, <1>1, <1>4, <1>5, <1>6 DEF Types, Ops
<1>8. CallOK'
  BY <1>0, <1>1, <1>5, <1>6 DEF CallOK, ch_is_open
<1>9. ch_is_open(md, ch)
  BY <1>0, <1>1 DEF CallOK
<1> QED BY <1>1, <1>3, <1>5, <1>7, <1>8, <1>9, IndexOnly

LEMMA ReadEndStep ==
    ASSUME SInv, ReadEnd
    PROVE  SInv'
<1>0. Types /\ CallOK /\ WordsOK
  BY DEF SInv
<1> DEFINE x == Minus(ch.current, call.r)
           c == [ch EXCEPT !.current = x]
           d == update_packet_state(c)
<1>1. call.op = "read" /\ call' = NoCall /\ ch' = d /\ UNCHANGED <<md, irq, rbuf, inLen>>
  BY DEF ReadEnd
<1>2. ch_is_open(md, ch)
  BY <1>0, <1>1 DEF CallOK
<1>3. x \in Nat
  BY <1>0, SmdAssumption DEF Minus, Types, ChannelTypes
<1> HIDE DEF x
<1>4. /\ c \in ChannelTypes /\ c.tail = ch.tail /\ c.list = ch.list /\ c.state = ch.state
      /\ c.last = ch.last
  BY <1>0, <1>3 DEF Types, ChannelTypes
<1> HIDE DEF c
<1>5. \A o \in Offsets : Inside(c.tail, md.head, o) => rbuf[o][1] \in DOMAIN inLen
  BY <1>0, <1>2, <1>4 DEF WordsOK
<1>6. /\ d \in ChannelTypes /\ d.list = c.list /\ d.state = c.state /\ d.last = c.last
      /\ \A o \in Offsets : Inside(d.tail, md.head, o) => Inside(c.tail, md.head, o)
  BY <1>0, <1>4, <1>5, HeaderTaken
<1> HIDE DEF d
<1>7. /\ DOMAIN call' = CallFields /\ call'.op = "none"
      /\ call'.rest = 0 /\ call'.n = 0 /\ call'.r = 0 /\ call'.len = 0
  BY <1>1 DEF NoCall, CallFields
<1>8. Types'
  BY <1>0, <1>1, <1>6, <1>7 DEF Types, Ops
<1>9. CallOK'
  BY <1>0, <1>1, <1>2, <1>4, <1>6, <1>7 DEF CallOK, ch_is_open
<1> QED BY <1>1, <1>2, <1>4, <1>6, <1>8, <1>9, IndexOnly

\* A call of smd_write or smd_write_segment begins: it has found nothing yet.
LEMMA WriteCall ==
    ASSUME SInv, ch' \in ChannelTypes, UNCHANGED <<md, irq, rbuf, inLen>>,
           ch'.list = ch.list, ch'.state = ch.state, ch'.last = ch.last, ch'.tail = ch.tail,
           ch'.head = ch.head, ch'.current = ch.current,
           DOMAIN call' = CallFields, call'.op \in {"write", "none"}, call'.rest \in Nat,
           call'.n \in Nat, call'.r \in Nat, call'.len \in Nat
    PROVE  SInv'
<1>0. Types /\ Handshake /\ Fresh /\ CallOK /\ WordsOK
  BY DEF SInv
<1>1. Types'
  BY <1>0 DEF Types, Ops
<1>2. Handshake' /\ Fresh'
  BY <1>0 DEF Handshake, Fresh
<1>3. CallOK'
  BY <1>0 DEF CallOK
<1>4. WordsOK'
  BY <1>0 DEF WordsOK, ch_is_open
<1> QED BY <1>1, <1>2, <1>3, <1>4 DEF SInv

LEMMA WriteBeginStep ==
    ASSUME SInv, NEW kind, NEW len \in Lens, WriteBegin(kind, len)
    PROVE  SInv'
<1>0. ch \in ChannelTypes
  BY DEF SInv, Types
<1> DEFINE w == <<Len(outLen) + 1, 0>>
<1>1. /\ call' = [NoCall EXCEPT !.op = "write", !.kind = kind, !.len = len,
                     !.rest = Header, !.word = w]
      /\ ch' = IF kind = "start" THEN [ch EXCEPT !.pending = len] ELSE ch
      /\ UNCHANGED <<md, irq, rbuf, inLen>>
  BY DEF WriteBegin
<1> HIDE DEF w
<1>2. len \in Nat /\ len \in Int /\ Header \in Nat
  BY SmdAssumption
<1>3. /\ DOMAIN call' = CallFields /\ call'.op = "write" /\ call'.rest = Header
      /\ call'.n = 0 /\ call'.r = 0 /\ call'.len = len
  BY <1>1 DEF NoCall, CallFields
<1>4. /\ ch' \in ChannelTypes /\ ch'.list = ch.list /\ ch'.state = ch.state
      /\ ch'.last = ch.last /\ ch'.tail = ch.tail /\ ch'.head = ch.head
      /\ ch'.current = ch.current
  BY <1>0, <1>1, <1>2 DEF ChannelTypes
<1>5. /\ call'.op \in {"write", "none"} /\ call'.rest \in Nat /\ call'.n \in Nat
      /\ call'.r \in Nat /\ call'.len \in Nat
  BY <1>2, <1>3
<1> QED BY <1>1, <1>3, <1>4, <1>5, WriteCall

LEMMA SegmentBeginStep ==
    ASSUME SInv, NEW len \in Lens, SegmentBegin(len)
    PROVE  SInv'
<1>0. ch \in ChannelTypes
  BY DEF SInv, Types
<1> DEFINE w == <<Len(outLen), Header + outLen[Len(outLen)] - ch.pending>>
<1>1. /\ call' = [NoCall EXCEPT !.op = "write", !.kind = "segment", !.rest = len, !.word = w]
      /\ UNCHANGED <<ch, md, irq, rbuf, inLen>>
  BY DEF SegmentBegin
<1> HIDE DEF w
<1>2. len \in Nat
  BY SmdAssumption
<1>3. /\ DOMAIN call' = CallFields /\ call'.op = "write" /\ call'.rest = len
      /\ call'.n = 0 /\ call'.r = 0 /\ call'.len = 0
  BY <1>1 DEF NoCall, CallFields
<1>4. /\ call'.op \in {"write", "none"} /\ call'.rest \in Nat /\ call'.n \in Nat
      /\ call'.r \in Nat /\ call'.len \in Nat
  BY <1>2, <1>3
<1> QED BY <1>0, <1>1, <1>3, <1>4, WriteCall

LEMMA WriteCopyStep ==
    ASSUME SInv, WriteCopy
    PROVE  SInv'
<1>0. Types /\ CallOK
  BY DEF SInv
<1> DEFINE m == Min({ch_write_buffer, call.rest})
<1>1. /\ call.op = "write" /\ ch_is_open(md, ch)
      /\ call' = [call EXCEPT !.op = "stored", !.n = m]
      /\ UNCHANGED <<ch, md, irq, rbuf, inLen>>
  BY DEF WriteCopy
<1>2. m \in Nat /\ m <= ch_write_buffer /\ m <= call.rest
  BY <1>0, Avail, MinTwo DEF Types
<1>3. m <= Size - 1 - Between(md.tail, ch.head)
  <2>1. /\ ch_write_buffer \in Nat /\ Between(md.tail, ch.head) \in 0..(Size - 1)
        /\ ch_write_buffer <= Size - 1 - Between(md.tail, ch.head)
    BY <1>0, Avail
  <2> QED BY <1>2, <2>1, SmdAssumption
<1> HIDE DEF m
<1>4. /\ DOMAIN call' = CallFields /\ call'.op = "stored" /\ call'.n = m
      /\ call'.rest = call.rest /\ call'.r = call.r /\ call'.len = call.len
  BY <1>0, <1>1 DEF Types, CallFields
<1>5. Types'
  BY <1>0, <1>1, <1>2, <1>4 DEF Types, Ops
<1>6. CallOK'
  BY <1>0, <1>1, <1>2, <1>3, <1>4 DEF CallOK, ch_is_open
<1> QED BY <1>1, <1>5, <1>6, CallOnly

LEMMA WriteDoneStep ==
    ASSUME SInv, ch_write_done
    PROVE  SInv'
<1>0. Types /\ CallOK
  BY DEF SInv
<1> DEFINE m == call.n
           h == mask(ch.head + m)
           w == <<call.word[1], call.word[2] + m>>
           a == call.rest - m
           b == call.r + m
<1>1. /\ call.op = "stored"
      /\ call' = [call EXCEPT !.op = "write", !.rest = a, !.n = 0, !.r = b, !.word = w]
      /\ ch' = [ch EXCEPT !.head = h]
      /\ UNCHANGED <<md, irq, rbuf, inLen>>
  BY DEF ch_write_done
<1>2. /\ m \in Nat /\ m <= call.rest /\ m <= Size - 1 - Between(md.tail, ch.head)
      /\ call.rest \in Nat /\ call.r \in Nat
  BY <1>0, <1>1 DEF Types, CallOK
<1>3. a \in Nat /\ b \in Nat
  BY <1>2
<1>4. h \in Offsets
  <2>1. Between(md.tail, ch.head) \in 0..(Size - 1)
    BY <1>0, Avail
  <2>2. m \in 0..Size
    BY <1>2, <2>1, SmdAssumption
  <2>3. ch.head \in Offsets
    BY <1>0 DEF Types, ChannelTypes
  <2> QED BY <2>2, <2>3, MaskSum
<1> HIDE DEF h, m, a, b, w
<1>5. /\ ch' \in ChannelTypes /\ ch'.tail = ch.tail /\ ch'.list = ch.list
      /\ ch'.state = ch.state /\ ch'.last = ch.last /\ ch'.current = ch.current
  BY <1>0, <1>1, <1>4 DEF Types, ChannelTypes
<1>6. /\ DOMAIN call' = CallFields /\ call'.op = "write" /\ call'.n = 0
      /\ call'.rest = a /\ call'.r = b /\ call'.len = call.len
  BY <1>0, <1>1 DEF Types, CallFields
<1>7. Types'
  BY <1>0, <1>1, <1>3, <1>5, <1>6 DEF Types, Ops
<1>8. CallOK'
  BY <1>0, <1>1, <1>5, <1>6 DEF CallOK, ch_is_open
<1>9. ch_is_open(md, ch)
  BY <1>0, <1>1 DEF CallOK
<1> QED BY <1>1, <1>5, <1>7, <1>8, <1>9, IndexOnly

LEMMA WriteEndStep ==
    ASSUME SInv, WriteEnd
    PROVE  SInv'
<1>0. Types
  BY DEF SInv
<1> DEFINE p == ch.pending - call.r
           z == 0
<1>1. /\ call.op = "write"
      /\ call' = [call EXCEPT !.rest = call.len] \/ call' = NoCall
      /\ ch' = [ch EXCEPT !.pending = p] \/ ch' = [ch EXCEPT !.pending = z] \/ ch' = ch
      /\ UNCHANGED <<md, irq, rbuf, inLen>>
  BY DEF WriteEnd
<1>2. p \in Int /\ z \in Int
  BY <1>0 DEF Types, ChannelTypes
<1> HIDE DEF p, z
<1>3. /\ ch' \in ChannelTypes /\ ch'.list = ch.list /\ ch'.state = ch.state
      /\ ch'.last = ch.last /\ ch'.tail = ch.tail /\ ch'.head = ch.head
      /\ ch'.current = ch.current
  BY <1>0, <1>1, <1>2 DEF Types, ChannelTypes
<1>4. /\ DOMAIN call' = CallFields /\ call'.op \in {"write", "none"} /\ call'.rest \in Nat
      /\ call'.n \in Nat /\ call'.r \in Nat /\ call'.len \in Nat
  <2>1. CASE call' = NoCall
    BY <2>1 DEF NoCall, CallFields
  <2>2. CASE call' = [call EXCEPT !.rest = call.len]
    BY <1>0, <1>1, <2>2 DEF Types, CallFields
  <2> QED BY <1>1, <2>1, <2>2
<1> QED BY <1>1, <1>3, <1>4, WriteCall

LEMMA DrainedStep ==
    ASSUME SInv, Drained
    PROVE  SInv'
<1>1. UNCHANGED <<ch, md, irq, rbuf, inLen, call>>
  BY DEF Drained
<1>2. Types' /\ CallOK'
  BY <1>1 DEF SInv, Types, CallOK, ch_is_open
<1> QED BY <1>1, <1>2, CallOnly

-----------------------------------------------------------------------------
(* The modem *)

\* The modem changes its state: the call that is under way may not look at the
\* FIFOs of a channel that is open on one side only.
LEMMA ModemOpensStep ==
    ASSUME Orderly, SInv, ModemOpens
    PROVE  SInv'
<1> USE DEF SMD_SS_CLOSED, SMD_SS_OPENING, SMD_SS_OPENED, SMD_SS_CLOSING
<1>0. Types /\ Handshake /\ Fresh /\ CallOK /\ WordsOK
  BY DEF SInv
<1> DEFINE w == <<Len(inLen) + 1, 0>>
<1>1. /\ \/ md.state = "CLOSED" /\ ch.state # "OPENED"
         \/ md.state = "CLOSING" /\ ch.state = "OPENING"
      /\ md' = [md EXCEPT !.state = "OPENING", !.head = 0, !.tail = 0, !.word = w]
      /\ irq' = TRUE /\ UNCHANGED <<ch, rbuf, call, inLen>>
  BY DEF ModemOpens, ModemSets
<1>2. /\ DOMAIN w = 1..2 /\ w[1] = Len(inLen) + 1 /\ w[2] = 0 /\ Len(inLen) \in Nat
  BY <1>0 DEF Types
<1> HIDE DEF w
<1>3. /\ DOMAIN md' = {"state", "head", "tail", "flag", "word"} /\ md'.state = "OPENING"
      /\ md'.head = 0 /\ md'.tail = 0 /\ md'.flag = md.flag /\ md'.word = w
  BY <1>0, <1>1 DEF Types
<1>4. Types'
  BY <1>0, <1>1, <1>3, SmdAssumption DEF Types, Offsets, States
<1>5. Handshake' /\ Fresh'
  BY <1>0, <1>1, <1>3 DEF Handshake, Fresh
<1>6. CallOK'
  BY <1>0, <1>1, <1>3 DEF CallOK, ch_is_open
<1>7. WordsOK'
  BY <1>1, <1>2, <1>3 DEF WordsOK, ch_is_open
<1> QED BY <1>4, <1>5, <1>6, <1>7 DEF SInv

LEMMA ModemStateStep ==
    ASSUME Orderly, SInv, ModemOpened \/ ModemCloses \/ ModemAcks
    PROVE  SInv'
<1> USE DEF SMD_SS_CLOSED, SMD_SS_OPENING, SMD_SS_OPENED, SMD_SS_CLOSING
<1>0. Types /\ Handshake /\ Fresh /\ CallOK /\ WordsOK
  BY DEF SInv
<1>1. PICK new \in States :
        /\ md' = [md EXCEPT !.state = new] /\ irq' = TRUE /\ UNCHANGED <<ch, rbuf, call, inLen>>
        /\ \/ md.state = "OPENING" /\ ch.state = "OPENING" /\ new = "OPENED"
           \/ md.state = "OPENED" /\ ch.state = "OPENED" /\ call = NoCall /\ new = "CLOSED"
           \/ md.state = "OPENED" /\ ch.state = "CLOSED" /\ new = "CLOSING"
  BY DEF ModemOpened, ModemCloses, ModemAcks, ModemSets, States
<1>2. /\ DOMAIN md' = {"state", "head", "tail", "flag", "word"} /\ md'.state = new
      /\ md'.head = md.head /\ md'.tail = md.tail /\ md'.flag = md.flag /\ md'.word = md.word
  BY <1>0, <1>1 DEF Types
<1>3. Types'
  BY <1>0, <1>1, <1>2 DEF Types
<1>4. Handshake' /\ Fresh'
  BY <1>0, <1>1, <1>2 DEF Handshake, Fresh
<1>5. CallOK'
  BY <1>0, <1>1, <1>2 DEF CallOK, ch_is_open, NoCall
<1>6. WordsOK'
  BY <1>1, <1>2, NotOpen
<1> QED BY <1>3, <1>4, <1>5, <1>6 DEF SInv

LEMMA ModemReadsStep ==
    ASSUME SInv, ModemReads
    PROVE  SInv'
<1> USE DEF SMD_SS_CLOSED, SMD_SS_OPENING, SMD_SS_OPENED, SMD_SS_CLOSING
<1>0. Types /\ Handshake /\ Fresh /\ CallOK /\ WordsOK
  BY DEF SInv
<1> DEFINE t == mask(md.tail + 1)
<1>1. /\ md.state = "OPENED" /\ ch.state = "OPENED" /\ md.tail # ch.head
      /\ md' = [md EXCEPT !.tail = t, !.flag = TRUE]
      /\ irq' = TRUE /\ UNCHANGED <<ch, rbuf, call, inLen>>
  BY DEF ModemReads, ModemSets, ch_is_open
<1>2. t \in Offsets /\ Between(t, ch.head) = Between(md.tail, ch.head) - 1
  <2>1. md.tail \in Offsets /\ ch.head \in Offsets
    BY <1>0 DEF Types, ChannelTypes
  <2>2. 1 <= Between(md.tail, ch.head)
    BY <1>1, <2>1, SmdAssumption DEF Between, Offsets
  <2>3. 1 \in Nat
    OBVIOUS
  <2> QED BY <2>1, <2>2, <2>3, TailMoves
<1> HIDE DEF t
<1>3. /\ DOMAIN md' = {"state", "head", "tail", "flag", "word"} /\ md'.state = md.state
      /\ md'.head = md.head /\ md'.tail = t /\ md'.flag = TRUE /\ md'.word = md.word
  BY <1>0, <1>1 DEF Types
<1>4. Types'
  BY <1>0, <1>1, <1>2, <1>3 DEF Types
<1>5. Handshake' /\ Fresh'
  BY <1>0, <1>1, <1>3 DEF Handshake, Fresh
<1>6. CallOK'
  <2>1. Between(md.tail, ch.head) \in 0..(Size - 1) /\ call.n \in Nat /\ Size \in Nat
    BY <1>0, Avail, SmdAssumption DEF Types
  <2>2. call.op = "stored" => call.n <= Size - 1 - Between(t, ch.head)
    <3>1. call.op = "stored" => call.n <= Size - 1 - Between(md.tail, ch.head)
      BY <1>0 DEF CallOK
    <3> QED BY <1>2, <2>1, <3>1
  <2> QED BY <1>0, <1>1, <1>3, <2>2 DEF CallOK, ch_is_open
<1>7. WordsOK'
  BY <1>0, <1>1, <1>3 DEF WordsOK, ch_is_open
<1> QED BY <1>4, <1>5, <1>6, <1>7 DEF SInv

LEMMA ModemWritesStep ==
    ASSUME SInv, ModemWrites
    PROVE  SInv'
<1> USE DEF SMD_SS_CLOSED, SMD_SS_OPENING, SMD_SS_OPENED, SMD_SS_CLOSING
<1>0. Types /\ Handshake /\ Fresh /\ CallOK /\ WordsOK
  BY DEF SInv
<1> DEFINE h == mask(md.head + 1)
           w == Succ(inLen', md.word)
<1>1. /\ md.state = "OPENED" /\ ch.state = "OPENED" /\ h # ch.tail
      /\ rbuf' = [rbuf EXCEPT ![md.head] = md.word]
      /\ md' = [md EXCEPT !.head = h, !.word = w, !.flag = TRUE]
      /\ irq' = TRUE /\ UNCHANGED <<ch, call>>
      /\ \/ md.word[2] > 0 /\ inLen' = inLen
         \/ md.word[2] = 0 /\ \E len \in Lens : inLen' = Append(inLen, len)
  BY DEF ModemWrites, ModemSets, ch_is_open
<1>2. md.head \in Offsets /\ ch.tail \in Offsets
  BY <1>0 DEF Types, ChannelTypes
<1>3. /\ h \in Offsets /\ Between(ch.tail, h) = Between(ch.tail, md.head) + 1
      /\ \A o \in Offsets : Inside(ch.tail, h, o) => Inside(ch.tail, md.head, o) \/ o = md.head
  BY <1>1, <1>2, HeadMoves
<1>4. /\ inLen' \in Seq(Nat \ {0}) /\ DOMAIN inLen \subseteq DOMAIN inLen'
      /\ md.word[1] = Len(inLen') /\ md.word[1] \in DOMAIN inLen'
  <2>1. /\ inLen \in Seq(Nat \ {0}) /\ Len(inLen) \in Nat /\ DOMAIN inLen = 1..Len(inLen)
        /\ md.word[1] \in Nat /\ md.word[2] \in Nat /\ md.word[1] > 0
        /\ md.word[1] = IF md.word[2] = 0 THEN Len(inLen) + 1 ELSE Len(inLen)
    BY <1>0 DEF Types, WordsOK
  <2>2. CASE md.word[2] > 0 /\ inLen' = inLen
    <3>1. md.word[2] # 0
      BY <2>2
    <3>2. md.word[1] = Len(inLen)
      BY <2>1, <3>1
    <3>3. md.word[1] \in 1..Len(inLen)
      BY <2>1, <3>2
    <3>4. inLen' = inLen
      BY <2>2
    <3> QED BY <2>1, <3>2, <3>3, <3>4
  <2>3. CASE md.word[2] = 0 /\ \E len \in Lens : inLen' = Append(inLen, len)
    <3>1. PICK len \in Lens : inLen' = Append(inLen, len)
      BY <2>3
    <3>2. len \in Nat \ {0}
      BY SmdAssumption
    <3>3. /\ inLen' \in Seq(Nat \ {0}) /\ Len(inLen') = Len(inLen) + 1
          /\ DOMAIN inLen' = 1..Len(inLen')
      BY <2>1, <3>1, <3>2
    <3> QED BY <2>1, <2>3, <3>3
  <2> QED BY <1>1, <2>2, <2>3
<1>5. /\ DOMAIN w = 1..2 /\ w[1] \in Nat /\ w[2] \in Nat /\ w[1] > 0
      /\ w[1] = IF w[2] = 0 THEN Len(inLen') + 1 ELSE Len(inLen')
  <2>1. /\ md.word[1] \in Nat /\ md.word[2] \in Nat /\ md.word[1] > 0 /\ Len(inLen') \in Nat
    BY <1>0, <1>4 DEF WordsOK
  <2>2. CASE w = <<md.word[1], md.word[2] + 1>>
    BY <1>4, <2>1, <2>2
  <2>3. CASE w = <<md.word[1] + 1, 0>>
    BY <1>4, <2>1, <2>3
  <2> QED BY <2>2, <2>3 DEF Succ
<1> HIDE DEF h, w
<1>6. /\ DOMAIN md' = {"state", "head", "tail", "flag", "word"} /\ md'.state = md.state
      /\ md'.head = h /\ md'.tail = md.tail /\ md'.flag = TRUE /\ md'.word = w
  BY <1>0, <1>1 DEF Types
<1>7. Types'
  BY <1>0, <1>1, <1>3, <1>4, <1>6 DEF Types
<1>8. Handshake' /\ Fresh'
  BY <1>0, <1>1, <1>6 DEF Handshake, Fresh
<1>9. CallOK'
  <2>1. Between(ch.tail, md.head) \in 0..(Size - 1) /\ call.n \in Nat /\ Size \in Nat
    BY <1>0, Avail, SmdAssumption DEF Types
  <2>2. call.op = "copied" => call.n <= Between(ch.tail, h)
    <3>1. call.op = "copied" => call.n <= Between(ch.tail, md.head)
      BY <1>0 DEF CallOK
    <3> QED BY <1>3, <2>1, <3>1
  <2> QED BY <1>0, <1>1, <1>6, <2>2 DEF CallOK, ch_is_open
<1>10. WordsOK'
  <2>1. ASSUME NEW o \in Offsets, Inside(ch.tail, h, o)
        PROVE  rbuf'[o][1] \in DOMAIN inLen'
    <3>1. CASE o = md.head
      BY <1>0, <1>1, <1>4, <3>1 DEF Types
    <3>2. CASE o # md.head
      <4>1. rbuf[o][1] \in DOMAIN inLen
        BY <1>0, <1>1, <1>3, <2>1, <3>2 DEF WordsOK, ch_is_open
      <4> QED BY <1>0, <1>1, <1>4, <3>2, <4>1 DEF Types
    <3> QED BY <3>1, <3>2
  <2>2. /\ DOMAIN md'.word = 1..2 /\ md'.word[1] \in Nat /\ md'.word[2] \in Nat
        /\ md'.word[1] = IF md'.word[2] = 0 THEN Len(inLen') + 1 ELSE Len(inLen')
        /\ md'.word[1] > 0
    BY <1>5, <1>6
  <2>3. \A o \in Offsets : Inside(ch'.tail, md'.head, o) => rbuf'[o][1] \in DOMAIN inLen'
    BY <1>1, <1>6, <2>1
  <2> QED BY <2>2, <2>3 DEF WordsOK
<1> QED BY <1>7, <1>8, <1>9, <1>10 DEF SInv

-----------------------------------------------------------------------------
(* The theorem *)

LEMMA InitSInv == Init => SInv
<1> USE DEF SMD_SS_CLOSED, SMD_SS_OPENING, SMD_SS_OPENED, SMD_SS_CLOSING
<1> SUFFICES ASSUME Init PROVE SInv
  OBVIOUS
<1>0. 0 \in Offsets
  BY SmdAssumption DEF Offsets
<1>1. Types
  <2>1. ch \in ChannelTypes
    BY <1>0 DEF Init, ChannelTypes, ListNames, States
  <2>2. /\ DOMAIN md = {"state", "head", "tail", "flag", "word"} /\ md.state \in States
        /\ md.head \in Offsets /\ md.tail \in Offsets /\ md.flag \in BOOLEAN /\ irq \in BOOLEAN
    BY <1>0 DEF Init, States
  <2>3. DOMAIN rbuf = Offsets /\ inLen \in Seq(Nat \ {0})
    BY DEF Init, Offsets
  <2>4. /\ DOMAIN call = CallFields /\ call.op \in Ops
        /\ call.rest \in Nat /\ call.n \in Nat /\ call.r \in Nat /\ call.len \in Nat
    BY DEF Init, NoCall, CallFields, Ops
  <2> QED BY <2>1, <2>2, <2>3, <2>4 DEF Types
<1>2. Handshake /\ Fresh
  BY DEF Init, Handshake, Fresh
<1>3. CallOK
  BY DEF Init, CallOK, NoCall
<1>4. WordsOK
  BY DEF Init, WordsOK, ch_is_open
<1> QED BY <1>1, <1>2, <1>3, <1>4 DEF SInv

LEMMA NextSInv == Orderly /\ SInv /\ [Next]_vars => SInv'
<1> SUFFICES ASSUME Orderly, SInv, [Next]_vars PROVE SInv'
  OBVIOUS
<1>1. CASE UNCHANGED vars
  <2>1. UNCHANGED <<ch, md, irq, rbuf, inLen, call>>
    BY <1>1 DEF vars
  <2>2. Types' /\ CallOK'
    BY <2>1 DEF SInv, Types, CallOK, ch_is_open
  <2> QED BY <2>1, <2>2, CallOnly
<1>2. CASE Interrupt
  BY <1>2, IrqStep, ClosingIrqStep DEF Interrupt
<1>3. CASE finalize_channel_close_fn
  BY <1>3, FinalizeStep
<1>4. CASE Reading
  BY <1>4, ReadCopyStep, ReadDoneStep, ReadEndStep DEF Reading
<1>5. CASE Writing
  BY <1>5, WriteCopyStep, WriteDoneStep, WriteEndStep DEF Writing
<1>6. CASE CloseCheck \/ Drained
  BY <1>6, CloseStep, DrainedStep
<1>7. CASE Client
  BY <1>7, OpenStep, CloseStep, ReadBeginStep, SegmentBeginStep, WriteBeginStep DEF Client
<1>8. CASE Modem
  BY <1>8, ModemOpensStep, ModemStateStep, ModemWritesStep, ModemReadsStep DEF Modem
<1> QED BY <1>1, <1>2, <1>3, <1>4, <1>5, <1>6, <1>7, <1>8 DEF Next

(***************************************************************************)
(* The BUG_ONs of ch_read_done and ch_write_done never fire, for FIFOs and *)
(* packets of every size, as long as calls do not overlap the end of a     *)
(* session: neither the modem nor the interrupt handler can take back the  *)
(* words, or the room, between the copy and the move of the index.         *)
(***************************************************************************)
THEOREM SmdNoBug == Orderly => (Spec => []NoBug)
<1> SUFFICES ASSUME Orderly PROVE Spec => []NoBug
  OBVIOUS
<1>1. Init => SInv
  BY InitSInv
<1>2. SInv /\ [Next]_vars => SInv'
  BY NextSInv
<1>3. SInv => NoBug
  <2> SUFFICES ASSUME SInv PROVE NoBug
    OBVIOUS
  <2>1. Types /\ CallOK
    BY DEF SInv
  <2> QED BY <2>1, Avail DEF NoBug, CallOK
<1> QED BY <1>1, <1>2, <1>3, PTL DEF Spec

-----------------------------------------------------------------------------
(* The words of a FIFO *)

\* A word of a packet that has been begun
Valid(lens, w) ==
    w \in Nat \X Nat /\ w[1] \in DOMAIN lens /\ w[2] < Header + lens[w[1]]

\* A word counted on past the end of its packet is the next packet's first.
Norm(lens, w) ==
    IF w[1] \in DOMAIN lens /\ w[2] >= Header + lens[w[1]] THEN <<w[1] + 1, 0>> ELSE w

\* The i-th of n words in b from t on, and behind them the one that comes next
Word(b, t, n, v, i) == IF i < n THEN b[mask(t + i)] ELSE v

\* The n words in b from t on lead from the word w to the word v.
Run(b, t, n, w, v, lens) ==
    /\ Word(b, t, n, v, 0) = w
    /\ \A i \in 0..(n - 1) :
          /\ Valid(lens, b[mask(t + i)])
          /\ Word(b, t, n, v, i + 1) = Succ(lens, b[mask(t + i)])

LEMMA MaskTwice ==
    ASSUME NEW t \in Offsets, NEW m \in Nat, NEW i \in Nat, m + i <= Size
    PROVE  mask(mask(t + m) + i) = mask(t + (m + i)) /\ mask(t + m) \in Offsets
<1>1. Size \in Nat /\ t \in 0..(Size - 1) /\ m \in 0..Size /\ i \in 0..Size /\ m + i \in 0..Size
  BY SmdAssumption DEF Offsets
<1> DEFINE u == mask(t + m)
           j == m + i
<1>2. u \in Offsets /\ u = IF t + m < Size THEN t + m ELSE t + m - Size
  BY <1>1, MaskSum
<1>3. mask(t + j) = IF t + j < Size THEN t + j ELSE t + j - Size
  BY <1>1, MaskSum
<1> HIDE DEF u
<1>4. mask(u + i) = IF u + i < Size THEN u + i ELSE u + i - Size
  BY <1>1, <1>2, MaskSum
<1> QED BY <1>1, <1>2, <1>3, <1>4 DEF u, Offsets

\* What follows a word of a packet
LEMMA SuccWord ==
    ASSUME NEW lens \in Seq(Nat \ {0}), NEW p \in DOMAIN lens, NEW k \in Nat,
           k < Header + lens[p]
    PROVE  /\ Valid(lens, <<p, k>>) /\ Norm(lens, <<p, k>>) = <<p, k>>
           /\ Succ(lens, <<p, k>>) = Norm(lens, <<p, k + 1>>)
           /\ Norm(lens, <<p, k + 1>>) \in Nat \X Nat
<1>1. p \in Nat /\ lens[p] \in Nat /\ Header \in Nat
  BY SmdAssumption
<1>2. <<p, k>>[1] = p /\ <<p, k>>[2] = k /\ <<p, k + 1>>[1] = p /\ <<p, k + 1>>[2] = k + 1
  OBVIOUS
<1>3. Valid(lens, <<p, k>>) /\ Norm(lens, <<p, k>>) = <<p, k>>
  BY <1>1, <1>2 DEF Valid, Norm
<1>4. CASE k + 1 < Header + lens[p]
  BY <1>1, <1>2, <1>3, <1>4 DEF Norm, Succ
<1>5. CASE ~ (k + 1 < Header + lens[p])
  BY <1>1, <1>2, <1>3, <1>5 DEF Norm, Succ
<1> QED BY <1>4, <1>5

\* A word is a pair.
LEMMA PairWord ==
    ASSUME NEW w, w \in Nat \X Nat
    PROVE  w = <<w[1], w[2]>> /\ w[1] \in Nat /\ w[2] \in Nat
OBVIOUS

LEMMA ValidWord ==
    ASSUME NEW lens \in Seq(Nat \ {0}), NEW w, Valid(lens, w)
    PROVE  /\ w = <<w[1], w[2]>> /\ w[1] \in DOMAIN lens /\ w[1] \in Nat /\ w[2] \in Nat
           /\ w[2] < Header + lens[w[1]]
           /\ Succ(lens, w) = Norm(lens, <<w[1], w[2] + 1>>)
           /\ Succ(lens, w) \in Nat \X Nat
<1>1. w \in Nat \X Nat /\ w[1] \in DOMAIN lens /\ w[2] < Header + lens[w[1]]
  BY DEF Valid
<1>2. w = <<w[1], w[2]>> /\ w[1] \in Nat /\ w[2] \in Nat
  BY <1>1, PairWord
<1> DEFINE p == w[1]
           k == w[2]
<1>3. p \in DOMAIN lens /\ k \in Nat /\ k < Header + lens[p] /\ w = <<p, k>>
  BY <1>1, <1>2
<1> HIDE DEF p, k
<1>4. /\ Succ(lens, <<p, k>>) = Norm(lens, <<p, k + 1>>)
      /\ Norm(lens, <<p, k + 1>>) \in Nat \X Nat
  BY <1>3, SuccWord
<1>5. Succ(lens, w) = Norm(lens, <<p, k + 1>>) /\ Succ(lens, w) \in Nat \X Nat
  BY <1>3, <1>4
<1> QED BY <1>1, <1>2, <1>5 DEF p, k

\* The words of a run: what each place holds, and what follows it
LEMMA RunWord ==
    ASSUME NEW b, NEW t, NEW n \in Nat, NEW w, NEW v, NEW lens, Run(b, t, n, w, v, lens),
           NEW i \in 0..(n - 1)
    PROVE  /\ Valid(lens, b[mask(t + i)])
           /\ Word(b, t, n, v, i) = b[mask(t + i)]
           /\ Word(b, t, n, v, i + 1) = Succ(lens, b[mask(t + i)])
BY DEF Run, Word

\* A buffer that agrees on the words of a run has the run, too.
LEMMA RunSame ==
    ASSUME NEW b, NEW c, NEW t, NEW n \in Nat, NEW w, NEW v, NEW lens,
           Run(b, t, n, w, v, lens), \A i \in 0..(n - 1) : c[mask(t + i)] = b[mask(t + i)]
    PROVE  Run(c, t, n, w, v, lens)
<1>1. \A i \in 0..n : Word(c, t, n, v, i) = Word(b, t, n, v, i)
  <2>1. \A i \in 0..n : i < n => i \in 0..(n - 1)
    OBVIOUS
  <2> QED BY <2>1 DEF Word
<1>2. 0 \in 0..n /\ \A i \in 0..(n - 1) : i + 1 \in 0..n
  OBVIOUS
<1>3. Word(c, t, n, v, 0) = w
  BY <1>1, <1>2 DEF Run
<1>4. ASSUME NEW i \in 0..(n - 1)
      PROVE  /\ Valid(lens, c[mask(t + i)])
             /\ Word(c, t, n, v, i + 1) = Succ(lens, c[mask(t + i)])
  <2>1. c[mask(t + i)] = b[mask(t + i)] /\ Word(c, t, n, v, i + 1) = Word(b, t, n, v, i + 1)
    BY <1>1, <1>2
  <2> QED BY <2>1, RunWord
<1> QED BY <1>3, <1>4 DEF Run

\* A packet more has no influence on the runs of the packets begun.
LEMMA RunLens ==
    ASSUME NEW b, NEW t, NEW n \in Nat, NEW w, NEW v, NEW lens \in Seq(Nat \ {0}),
           NEW x \in Nat \ {0}, Run(b, t, n, w, v, lens)
    PROVE  Run(b, t, n, w, v, Append(lens, x))
<1> DEFINE l == Append(lens, x)
<1>1. /\ l \in Seq(Nat \ {0}) /\ \A p \in DOMAIN lens : p \in DOMAIN l /\ l[p] = lens[p]
  OBVIOUS
<1> HIDE DEF l
<1>2. ASSUME NEW i \in 0..(n - 1)
      PROVE  /\ Valid(l, b[mask(t + i)])
             /\ Word(b, t, n, v, i + 1) = Succ(l, b[mask(t + i)])
  <2>1. Valid(lens, b[mask(t + i)]) /\ Word(b, t, n, v, i + 1) = Succ(lens, b[mask(t + i)])
    BY RunWord
  <2>2. Valid(l, b[mask(t + i)])
    BY <1>1, <2>1 DEF Valid
  <2>3. Succ(l, b[mask(t + i)]) = Succ(lens, b[mask(t + i)])
    BY <1>1, <2>1 DEF Valid, Succ
  <2> QED BY <2>1, <2>2, <2>3
<1>3. Word(b, t, n, v, 0) = w
  BY DEF Run
<1> QED BY <1>2, <1>3 DEF Run, l

\* The reader takes m words off the front of a run.
LEMMA RunPop ==
    ASSUME NEW b, NEW t \in Offsets, NEW n \in Nat, n < Size, NEW w, NEW v, NEW lens,
           Run(b, t, n, w, v, lens), NEW m \in 0..n
    PROVE  Run(b, mask(t + m), n - m, Word(b, t, n, v, m), v, lens)
<1> DEFINE u == mask(t + m)
           k == n - m
<1>1. k \in Nat /\ m \in Nat /\ Size \in Nat
  BY SmdAssumption
<1>2. \A i \in Nat : i < k => mask(u + i) = mask(t + (m + i))
  <2> SUFFICES ASSUME NEW i \in Nat, i < k PROVE mask(u + i) = mask(t + (m + i))
    OBVIOUS
  <2>1. m + i <= Size
    BY <1>1
  <2> QED BY <1>1, <2>1, MaskTwice
<1> HIDE DEF u
<1>3. \A i \in 0..k : Word(b, u, k, v, i) = Word(b, t, n, v, m + i)
  <2> SUFFICES ASSUME NEW i \in 0..k PROVE Word(b, u, k, v, i) = Word(b, t, n, v, m + i)
    OBVIOUS
  <2>1. CASE i < k
    <3>1. m + i < n /\ i \in Nat
      BY <1>1, <2>1
    <3> QED BY <1>2, <2>1, <3>1 DEF Word
  <2>2. CASE ~ (i < k)
    <3>1. ~ (m + i < n)
      BY <1>1, <2>2
    <3> QED BY <2>2, <3>1 DEF Word
  <2> QED BY <2>1, <2>2
<1>4. Word(b, u, k, v, 0) = Word(b, t, n, v, m)
  <2>1. 0 \in 0..k /\ m + 0 = m
    BY <1>1
  <2> QED BY <1>3, <2>1
<1>5. ASSUME NEW i \in 0..(k - 1)
      PROVE  /\ Valid(lens, b[mask(u + i)])
             /\ Word(b, u, k, v, i + 1) = Succ(lens, b[mask(u + i)])
  <2>1. /\ i + 1 \in 0..k /\ m + (i + 1) = (m + i) + 1 /\ m + i \in 0..(n - 1)
        /\ i \in Nat /\ i < k
    BY <1>1
  <2> DEFINE j == m + i
  <2>2. mask(u + i) = mask(t + j) /\ Word(b, u, k, v, i + 1) = Word(b, t, n, v, j + 1)
    BY <1>2, <1>3, <2>1
  <2>3. j \in 0..(n - 1)
    BY <2>1
  <2> HIDE DEF j
  <2>4. Valid(lens, b[mask(t + j)]) /\ Word(b, t, n, v, j + 1) = Succ(lens, b[mask(t + j)])
    BY <2>3, RunWord
  <2> QED BY <2>2, <2>4
<1> QED BY <1>4, <1>5 DEF Run, u

\* The writer puts m words of one packet behind a run.
LEMMA RunPush ==
    ASSUME NEW b, NEW t, NEW n \in Nat, NEW m \in Nat \ {0}, NEW w,
           NEW lens \in Seq(Nat \ {0}), NEW p \in DOMAIN lens, NEW k \in Nat,
           k + m <= Header + lens[p], Run(b, t, n, w, <<p, k>>, lens),
           \A i \in 0..(m - 1) : b[mask(t + (n + i))] = <<p, k + i>>
    PROVE  Run(b, t, n + m, w, Norm(lens, <<p, k + m>>), lens)
<1> DEFINE v == Norm(lens, <<p, k + m>>)
           q == <<p, k>>
<1>0. Header \in Nat /\ lens[p] \in Nat
  BY SmdAssumption
<1>1. \A i \in 0..n : Word(b, t, n + m, v, i) = Word(b, t, n, q, i)
  <2> SUFFICES ASSUME NEW i \in 0..n PROVE Word(b, t, n + m, v, i) = Word(b, t, n, q, i)
    OBVIOUS
  <2>1. CASE i < n
    BY <2>1 DEF Word
  <2>2. CASE i = n
    <3>1. 0 \in 0..(m - 1) /\ n + 0 = n /\ k + 0 = k /\ n < n + m
      OBVIOUS
    <3>2. b[mask(t + n)] = q
      BY <3>1
    <3> QED BY <2>2, <3>1, <3>2 DEF Word
  <2> QED BY <2>1, <2>2
<1>2. \A i \in 0..m : Word(b, t, n + m, v, n + i) = Norm(lens, <<p, k + i>>)
  <2> SUFFICES ASSUME NEW i \in 0..m
               PROVE  Word(b, t, n + m, v, n + i) = Norm(lens, <<p, k + i>>)
    OBVIOUS
  <2>1. CASE i < m
    <3>1. n + i < n + m /\ i \in 0..(m - 1) /\ k + i \in Nat /\ k + i < Header + lens[p]
      BY <1>0, <2>1
    <3> DEFINE j == k + i
    <3>2. j \in Nat /\ j < Header + lens[p]
      BY <3>1
    <3>3. b[mask(t + (n + i))] = <<p, j>>
      BY <3>1
    <3> HIDE DEF j
    <3>4. Norm(lens, <<p, j>>) = <<p, j>>
      BY <3>2, SuccWord
    <3>5. Word(b, t, n + m, v, n + i) = b[mask(t + (n + i))]
      BY <3>1 DEF Word
    <3> QED BY <3>3, <3>4, <3>5 DEF j
  <2>2. CASE i = m
    BY <2>2 DEF Word
  <2> QED BY <2>1, <2>2
<1> HIDE DEF v, q
<1>3. Word(b, t, n + m, v, 0) = w
  <2>1. 0 \in 0..n
    OBVIOUS
  <2> QED BY <1>1, <2>1 DEF Run, q
<1>4. ASSUME NEW i \in 0..(n + m - 1)
      PROVE  /\ Valid(lens, b[mask(t + i)])
             /\ Word(b, t, n + m, v, i + 1) = Succ(lens, b[mask(t + i)])
  <2>1. CASE i < n
    <3>1. i \in 0..(n - 1) /\ i + 1 \in 0..n
      BY <2>1
    <3>2. Valid(lens, b[mask(t + i)]) /\ Word(b, t, n, q, i + 1) = Succ(lens, b[mask(t + i)])
      BY <3>1, RunWord DEF q
    <3> QED BY <1>1, <3>1, <3>2
  <2>2. CASE ~ (i < n)
    <3> DEFINE j == i - n
               y == k + j
    <3>1. /\ j \in 0..(m - 1) /\ j + 1 \in 0..m /\ i = n + j /\ i + 1 = n + (j + 1)
          /\ y \in Nat /\ y < Header + lens[p] /\ k + (j + 1) = y + 1
      BY <1>0, <2>2
    <3>2. b[mask(t + i)] = <<p, y>>
      BY <3>1
    <3>3. Word(b, t, n + m, v, i + 1) = Norm(lens, <<p, y + 1>>)
      BY <1>2, <3>1
    <3> HIDE DEF j, y
    <3>4. Valid(lens, <<p, y>>) /\ Succ(lens, <<p, y>>) = Norm(lens, <<p, y + 1>>)
      BY <3>1, SuccWord
    <3> QED BY <3>2, <3>3, <3>4
  <2> QED BY <2>1, <2>2
<1>5. Run(b, t, n + m, w, v, lens)
  BY <1>3, <1>4 DEF Run
<1> QED BY <1>5 DEF v

\* Within a packet a run counts its words.
LEMMA RunPacket ==
    ASSUME NEW b, NEW t, NEW n \in Nat, NEW v, NEW lens \in Seq(Nat \ {0}),
           NEW p \in DOMAIN lens, NEW k \in Nat, Run(b, t, n, <<p, k>>, v, lens),
           NEW m \in 0..n, k < Header + lens[p], k + m <= Header + lens[p]
    PROVE  Word(b, t, n, v, m) = Norm(lens, <<p, k + m>>)
<1> DEFINE W(i) == Word(b, t, n, v, i)
           Bad == {i \in 0..m : W(i) # Norm(lens, <<p, k + i>>)}
<1>0. Header \in Nat /\ lens[p] \in Nat
  BY SmdAssumption
<1>1. SUFFICES Bad = {}
  <2>1. m \in 0..m
    OBVIOUS
  <2> QED BY <1>1, <2>1
<1>2. SUFFICES ASSUME Bad # {} PROVE FALSE
  OBVIOUS
<1> DEFINE i == Min(Bad)
<1>3. i \in Bad /\ \A y \in Bad : i <= y
  <2>1. Bad \subseteq Nat
    OBVIOUS
  <2> HIDE DEF Bad
  <2> QED BY <1>2, <2>1, NatMin
<1>4. i \in 0..m /\ W(i) # Norm(lens, <<p, k + i>>)
  BY <1>3
<1>5. W(0) = Norm(lens, <<p, k + 0>>)
  <2>1. k + 0 = k
    OBVIOUS
  <2>2. W(0) = <<p, k>>
    BY DEF Run
  <2>3. Norm(lens, <<p, k>>) = <<p, k>>
    BY SuccWord
  <2> QED BY <2>1, <2>2, <2>3
<1> HIDE DEF i
<1>6. i # 0
  BY <1>4, <1>5
<1> DEFINE j == i - 1
           y == k + j
<1>7. /\ j \in 0..(n - 1) /\ j \in 0..m /\ i = j + 1 /\ ~ (i <= j) /\ y \in Nat /\ k + i = y + 1
      /\ y < Header + lens[p]
  BY <1>0, <1>4, <1>6
<1>8. W(j) = Norm(lens, <<p, y>>)
  BY <1>3, <1>7
<1> HIDE DEF j, y
<1>9. /\ Norm(lens, <<p, y>>) = <<p, y>> /\ Succ(lens, <<p, y>>) = Norm(lens, <<p, y + 1>>)
  BY <1>7, SuccWord
<1>10. W(j) = b[mask(t + j)] /\ W(j + 1) = Succ(lens, b[mask(t + j)])
  BY <1>7, RunWord
<1>11. W(i) = Norm(lens, <<p, k + i>>)
  BY <1>7, <1>8, <1>9, <1>10
<1> QED BY <1>4, <1>11

-----------------------------------------------------------------------------
(* The streams *)

Taken == IF call.op = "copied" THEN call.n ELSE 0
InTail == mask(ch.tail + Taken)
Left == ch.current - (IF call.op \in {"read", "copied"} THEN call.r + Taken ELSE 0)

Lengths ==
    /\ inLen \in Seq(Lens) /\ Len(inLen) <= MaxIn
    /\ outLen \in Seq(Lens) /\ Len(outLen) <= MaxOut

InCall ==
    /\ nextIn \in Nat \X Nat /\ md.word \in Nat \X Nat
    /\ md.word[2] > 0 => md.word[2] < Header + inLen[md.word[1]]
    /\ call.op \in {"read", "copied"} => call.r + call.rest <= ch.current

InFresh ==
    md.state = SMD_SS_OPENING \/ (md.state = SMD_SS_OPENED /\ ch.state = SMD_SS_OPENING) =>
        nextIn = md.word /\ md.word = <<Len(inLen) + 1, 0>>

InRun == Run(rbuf, InTail, Between(InTail, md.head), nextIn, md.word, inLen)

\* What the count of words left says of the word that is due
Place(lens, w, left) ==
    IF left = 0 THEN w[2] = 0
    ELSE w[1] \in DOMAIN lens /\ w[2] = Header + lens[w[1]] - left

InPlace == Place(inLen, nextIn, Left)

InStream == InCall /\ InFresh /\ (ch_is_open(md, ch) => InRun /\ InPlace)

Writes == call.op \in {"write", "stored"}

\* The word that the writer puts in next
OutWord ==
    IF Writes THEN Norm(outLen, call.word)
    ELSE IF ch.pending = 0 THEN <<Len(outLen) + 1, 0>>
    ELSE <<Len(outLen), Header + outLen[Len(outLen)] - ch.pending>>

\* Words of the packet or the header that smd_packet_write and
\* smd_write_start have still to write
Needed == IF call.kind = "start" THEN Header - call.r ELSE Header + call.len - call.r

OutPending ==
    /\ ch.pending \in Nat
    /\ ch.pending > 0 => \/ ch_is_open(md, ch)
                         \/ call.op = "write" /\ call.kind = "start" /\ call.r = 0
    /\ ch.pending > 0 /\ ~ (Writes /\ call.kind # "segment") =>
          Len(outLen) > 0 /\ ch.pending <= outLen[Len(outLen)]

OutPacket ==
    Writes /\ call.kind # "segment" =>
        /\ call.kind \in {"packet", "start"} /\ call.len \in Lens /\ call.word[2] = call.r
        /\ IF call.r = 0 /\ call.op = "write"
           THEN call.word[1] = Len(outLen) + 1 /\ Len(outLen) < MaxOut
           ELSE call.word[1] = Len(outLen) /\ Len(outLen) > 0 /\ outLen[Len(outLen)] = call.len
        /\ call.kind = "packet" =>
              /\ ch.pending = 0
              /\ call.r < Header => call.rest = Header - call.r
              /\ call.r = Header => call.rest \in {0, call.len}
              /\ call.r > Header => call.rest = Header + call.len - call.r
        /\ call.kind = "start" => ch.pending = call.len /\ call.rest = Header - call.r
        /\ IF ch_is_open(md, ch) THEN Needed <= Size - 1 - Between(md.tail, ch.head)
           ELSE call.r = 0 /\ Needed <= Size - 1

OutSegment ==
    Writes /\ call.kind = "segment" =>
        /\ ch_is_open(md, ch) /\ call.r + call.rest <= ch.pending
        /\ Len(outLen) > 0 /\ ch.pending <= outLen[Len(outLen)]
        /\ call.word = <<Len(outLen), Header + outLen[Len(outLen)] - ch.pending + call.r>>

OutStored ==
    call.op = "stored" =>
        /\ call.n > 0
        /\ \A i \in 0..(call.n - 1) :
              sbuf[mask(ch.head + i)] = <<call.word[1], call.word[2] + i>>

OutRun == Run(sbuf, md.tail, Between(md.tail, ch.head), nextOut, OutWord, outLen)

OutStream ==
    /\ call.word \in Nat \X Nat /\ nextOut \in Nat \X Nat /\ DOMAIN sbuf = Offsets
    /\ OutPending /\ OutPacket /\ OutSegment /\ OutStored
    /\ ch_is_open(md, ch) => OutRun

-----------------------------------------------------------------------------
(* The stream from the modem *)

\* Where a FIFO's next word goes
LEMMA BetweenPlace ==
    ASSUME NEW t \in Offsets, NEW h \in Offsets
    PROVE  /\ Between(t, h) \in Nat /\ Between(t, h) < Size
           /\ mask(t + Between(t, h)) = h
           /\ \A i \in 0..(Between(t, h) - 1) : mask(t + i) # h /\ mask(t + i) \in Offsets
<1>1. Size \in Nat /\ Size > 0 /\ t \in 0..(Size - 1) /\ h \in 0..(Size - 1)
  BY SmdAssumption DEF Offsets
<1> DEFINE n == Between(t, h)
<1>2. n \in 0..Size /\ n \in Nat /\ n < Size /\ n = IF t <= h THEN h - t ELSE h - t + Size
  BY <1>1 DEF Between
<1> HIDE DEF n
<1>3. mask(t + n) = IF t + n < Size THEN t + n ELSE t + n - Size
  BY <1>2, MaskSum
<1>4. mask(t + n) = h
  BY <1>1, <1>2, <1>3
<1>5. ASSUME NEW i \in 0..(n - 1) PROVE mask(t + i) # h /\ mask(t + i) \in Offsets
  <2>1. i \in 0..Size
    BY <1>1, <1>2
  <2>2. /\ mask(t + i) = IF t + i < Size THEN t + i ELSE t + i - Size
        /\ mask(t + i) \in Offsets
    BY <2>1, MaskSum
  <2> QED BY <1>1, <1>2, <2>2
<1> QED BY <1>2, <1>4, <1>5 DEF n

\* The reader's place in the FIFO, behind the words that it has copied
LEMMA InTailFacts ==
    ASSUME SInv
    PROVE  /\ Taken \in Nat /\ InTail \in Offsets
           /\ Between(InTail, md.head) = Between(ch.tail, md.head) - Taken
           /\ Between(InTail, md.head) \in Nat /\ Between(InTail, md.head) < Size
           /\ call.op # "copied" => Taken = 0 /\ InTail = ch.tail
<1>1. ch.tail \in Offsets /\ md.head \in Offsets /\ call.n \in Nat
  BY DEF SInv, Types, ChannelTypes
<1>2. Taken \in Nat /\ Taken <= Between(ch.tail, md.head)
  <2>1. Between(ch.tail, md.head) \in Nat
    BY <1>1, BetweenPlace
  <2> QED BY <1>1, <2>1 DEF Taken, SInv, CallOK
<1>3. InTail \in Offsets /\ Between(InTail, md.head) = Between(ch.tail, md.head) - Taken
  BY <1>1, <1>2, TailMoves DEF InTail
<1>4. call.op # "copied" => Taken = 0 /\ InTail = ch.tail
  <2>1. ch.tail + 0 = ch.tail
    BY <1>1 DEF Offsets
  <2>2. mask(ch.tail) = ch.tail
    <3>1. ch.tail \in Int
      BY <1>1 DEF Offsets
    <3> QED BY <1>1, <3>1, MaskValue
  <2> QED BY <2>1, <2>2 DEF Taken, InTail
<1> QED BY <1>1, <1>2, <1>3, <1>4, BetweenPlace

\* The stream's part of the state is as it was.
LEMMA InSame ==
    ASSUME InStream, UNCHANGED <<rbuf, inLen, nextIn>>,
           md'.state = md.state, md'.head = md.head, md'.word = md.word,
           ch'.state = ch.state, ch'.tail = ch.tail, ch'.current = ch.current,
           \/ call' = call
           \/ call.op \notin {"read", "copied"} /\ call'.op \notin {"read", "copied"}
    PROVE  InStream'
<1>1. InCall' /\ InFresh'
  BY DEF InStream, InCall, InFresh
<1>2. InTail' = InTail /\ Left' = Left /\ (ch_is_open(md, ch)' <=> ch_is_open(md, ch))
  BY DEF InTail, Taken, Left, ch_is_open
<1>3. ch_is_open(md, ch) => InRun' /\ InPlace'
  BY <1>2 DEF InStream, InRun, InPlace
<1> QED BY <1>1, <1>2, <1>3 DEF InStream

\* The channel is not open after the step.
LEMMA InShut ==
    ASSUME InStream, SInv, UNCHANGED <<inLen, nextIn>>, md'.word = md.word,
           ~ (md'.state = "OPENED" /\ ch'.state = "OPENED"),
           md'.state = "OPENING" \/ (md'.state = "OPENED" /\ ch'.state = "OPENING") =>
              md.state = "OPENING" \/ (md.state = "OPENED" /\ ch.state = "OPENING"),
           call'.op \notin {"read", "copied"}
    PROVE  InStream'
<1> USE DEF SMD_SS_CLOSED, SMD_SS_OPENING, SMD_SS_OPENED, SMD_SS_CLOSING
<1>1. InCall'
  BY DEF InStream, InCall
<1>2. InFresh'
  BY DEF InStream, InFresh
<1> QED BY <1>1, <1>2 DEF InStream, ch_is_open

\* The header of the next packet is taken off the stream.
LEMMA TakeHeader ==
    ASSUME SInv, NEW c \in ChannelTypes, NEW d, d = update_packet_state(c),
           NEW x, x = AfterHeader(c, d), nextIn \in Nat \X Nat,
           Run(rbuf, c.tail, Between(c.tail, md.head), nextIn, md.word, inLen),
           Place(inLen, nextIn, c.current)
    PROVE  /\ Run(rbuf, d.tail, Between(d.tail, md.head), x, md.word, inLen)
           /\ Place(inLen, x, d.current) /\ x \in Nat \X Nat
           /\ c.current > 0 => x = nextIn
<1>0. /\ c.tail \in Offsets /\ md.head \in Offsets /\ c.current \in Nat
      /\ Header \in Nat \ {0} /\ Size \in Nat /\ Header < Size /\ inLen \in Seq(Nat \ {0})
  BY SmdAssumption DEF SInv, Types, ChannelTypes
<1>1. CASE d = c
  BY <1>1 DEF AfterHeader
<1>2. CASE ~ (c.current > 0) /\ ~ (mask(md.head - c.tail + Size) < Header)
  <2> DEFINE t == c.tail
             n == Between(t, md.head)
             u == mask(t + Header)
             p == rbuf[c.tail][1]
             z == inLen[p]
  <2>1. d = [c EXCEPT !.tail = u, !.current = z]
    BY <1>2 DEF update_packet_state
  <2>2. d.tail = u /\ d.current = z
    <3> HIDE DEF u, z
    <3> QED BY <2>1 DEF ChannelTypes
  <2>3. n \in Nat /\ n < Size /\ Header \in 0..n
    <3>1. mask(md.head - c.tail + Size) = n /\ n \in Offsets
      BY <1>0, MaskDifference
    <3> QED BY <1>0, <1>2, <3>1 DEF Offsets
  <2>4. u \in Offsets /\ u # t /\ Between(u, md.head) = n - Header
    <3>1. u \in Offsets /\ Between(u, md.head) = n - Header
      BY <1>0, <2>3, TailMoves
    <3>2. u = IF t + Header < Size THEN t + Header ELSE t + Header - Size
      <4>1. Header \in 0..Size
        BY <1>0
      <4> QED BY <1>0, <4>1, MaskSum
    <3> QED BY <1>0, <3>1, <3>2 DEF Offsets
  <2>5. c.current = 0
    BY <1>0, <1>2
  <2>6. /\ rbuf[t] = nextIn /\ Valid(inLen, nextIn) /\ nextIn[2] = 0
    <3>1. 0 \in 0..(n - 1) /\ t + 0 = t
      BY <1>0, <2>3 DEF Offsets
    <3>2. mask(t) = t
      <4>1. t \in Int
        BY <1>0 DEF Offsets
      <4> QED BY <1>0, <4>1, MaskValue
    <3>3. Valid(inLen, rbuf[mask(t + 0)]) /\ Word(rbuf, t, n, md.word, 0) = rbuf[mask(t + 0)]
      <4> DEFINE i == 0
      <4>1. Run(rbuf, t, n, nextIn, md.word, inLen) /\ i \in 0..(n - 1)
        BY <3>1
      <4> HIDE DEF n, t, i
      <4>2. Valid(inLen, rbuf[mask(t + i)]) /\ Word(rbuf, t, n, md.word, i) = rbuf[mask(t + i)]
        BY <2>3, <4>1 DEF Run, Word
      <4> QED BY <4>2 DEF i
    <3>4. Word(rbuf, t, n, md.word, 0) = nextIn
      BY DEF Run
    <3>5. nextIn[2] = 0
      BY <2>5 DEF Place
    <3> QED BY <3>1, <3>2, <3>3, <3>4, <3>5
  <2>7. p = nextIn[1] /\ p \in DOMAIN inLen /\ nextIn = <<p, 0>> /\ z \in Nat \ {0} /\ p \in Nat
    <3>1. nextIn = <<nextIn[1], nextIn[2]>> /\ nextIn[1] \in DOMAIN inLen
      BY <1>0, <2>6, ValidWord
    <3>2. p = nextIn[1]
      BY <2>6
    <3> QED BY <1>0, <2>6, <3>1, <3>2
  <2>8. x = <<p, Header>>
    BY <2>2, <2>4 DEF AfterHeader
  <2>9. Word(rbuf, t, n, md.word, Header) = x
    <3> DEFINE k == 0
    <3>1. k \in Nat /\ k < Header + inLen[p] /\ k + Header <= Header + inLen[p] /\ k + Header = Header
      BY <1>0, <2>7
    <3>2. Run(rbuf, t, n, <<p, k>>, md.word, inLen)
      BY <2>7
    <3> HIDE DEF k, n, p, t
    <3>3. Word(rbuf, t, n, md.word, Header) = Norm(inLen, <<p, k + Header>>)
      BY <1>0, <2>3, <2>7, <3>1, <3>2, RunPacket
    <3>4. Header < Header + inLen[p] /\ Header \in Nat
      BY <1>0, <2>7
    <3>5. Norm(inLen, <<p, Header>>) = <<p, Header>>
      BY <1>0, <2>7, <3>4, SuccWord
    <3> QED BY <2>8, <3>1, <3>3, <3>5
  <2>10. Run(rbuf, u, n - Header, x, md.word, inLen)
    <3> HIDE DEF n, t
    <3>1. Run(rbuf, t, n, nextIn, md.word, inLen) /\ t \in Offsets
      BY <1>0 DEF n, t
    <3> QED BY <2>3, <2>9, <3>1, RunPop
  <2>11. Place(inLen, x, z) /\ x \in Nat \X Nat
    <3> HIDE DEF z, p
    <3>1. x[1] = p /\ x[2] = Header /\ x \in Nat \X Nat
      BY <1>0, <2>7, <2>8
    <3>2. z = inLen[p] /\ z # 0 /\ Header = Header + z - z
      BY <1>0, <2>7 DEF z
    <3> QED BY <2>7, <3>1, <3>2 DEF Place
  <2>12. c.current > 0 => x = nextIn
    BY <1>2
  <2> HIDE DEF n, u, z, t
  <2> QED BY <2>2, <2>4, <2>10, <2>11, <2>12
<1> QED BY <1>1, <1>2 DEF update_packet_state

LEMMA InIrq ==
    ASSUME Orderly, SInv, InStream, handle_smd_irq
    PROVE  InStream'
<1> USE DEF SMD_SS_CLOSED, SMD_SS_OPENING, SMD_SS_OPENED, SMD_SS_CLOSING
<1> DEFINE seen == StateSeen(ch)
           data == ch_is_open(md, ch) /\ md.flag
           c    == IF data THEN update_packet_state(seen) ELSE seen
           f    == md.flag /\ ~ data
<1>0. Types /\ Handshake /\ Fresh /\ CallOK /\ WordsOK
  BY DEF SInv
<1>1. /\ ch.list = "open" /\ ch' = c /\ nextIn' = AfterHeader(seen, c)
      /\ md' = [md EXCEPT !.flag = f]
      /\ UNCHANGED <<rbuf, call, inLen>>
  BY DEF handle_smd_irq
<1>2. ch \in ChannelTypes /\ md.state \in States
  BY <1>0 DEF Types
<1>3. md'.state = md.state /\ md'.head = md.head /\ md'.word = md.word
  <2> HIDE DEF f
  <2> QED BY <1>0, <1>1 DEF Types
<1>4. CASE ch_is_open(md, ch)
  <2>1. seen = ch /\ md.state = "OPENED" /\ ch.state = "OPENED"
    BY <1>0, <1>4 DEF StateSeen, Handshake, ch_is_open
  <2>2. CASE ~ data
    <3>1. ch' = ch /\ nextIn' = nextIn
      BY <1>1, <2>1, <2>2 DEF AfterHeader
    <3> QED BY <1>1, <1>3, <3>1, InSame
  <2>3. CASE data
    <3> DEFINE u == update_packet_state(ch)
               x == AfterHeader(ch, u)
    <3>1. ch' = u /\ nextIn' = x
      BY <1>1, <2>1, <2>3
    <3>2. \A o \in Offsets : Inside(ch.tail, md.head, o) => rbuf[o][1] \in DOMAIN inLen
      BY <1>0, <1>4 DEF WordsOK
    <3>3. /\ u.state = ch.state /\ (ch.current > 0 => u = ch) /\ u.current \in Nat
      <4>1. u \in ChannelTypes /\ u.state = ch.state /\ (ch.current > 0 => u = ch)
        BY <1>0, <1>2, <3>2, HeaderTaken
      <4> QED BY <4>1 DEF ChannelTypes
    <3>4. CASE call.op \in {"read", "copied"}
      <4>1. ch.current > 0
        BY <1>0, <3>4 DEF CallOK
      <4>2. ch' = ch
        BY <3>1, <3>3, <4>1
      <4>3. nextIn' = nextIn
        BY <3>1, <4>2 DEF AfterHeader
      <4> QED BY <1>1, <1>3, <4>2, <4>3, InSame
    <3>5. CASE call.op \notin {"read", "copied"}
      <4>1. InTail = ch.tail /\ Left = ch.current
        BY <1>2, <3>5, InTailFacts DEF Left, ChannelTypes
      <4>2. /\ Run(rbuf, ch.tail, Between(ch.tail, md.head), nextIn, md.word, inLen)
            /\ Place(inLen, nextIn, ch.current) /\ nextIn \in Nat \X Nat
        BY <1>4, <4>1 DEF InStream, InRun, InPlace, InCall
      <4>3. /\ Run(rbuf, u.tail, Between(u.tail, md.head), x, md.word, inLen)
            /\ Place(inLen, x, u.current) /\ x \in Nat \X Nat
        <5> HIDE DEF u
        <5>1. u = update_packet_state(ch)
          BY DEF u
        <5> HIDE DEF x
        <5>2. x = AfterHeader(ch, u)
          BY DEF x
        <5> QED BY <1>2, <4>2, <5>1, <5>2, TakeHeader
      <4>4. SInv'
        BY IrqStep
      <4> HIDE DEF u, x, c, f, seen, data
      <4>5. InTail' = ch'.tail /\ Left' = ch'.current
        <5>1. call'.op \notin {"read", "copied"}
          BY <1>1, <3>5
        <5>2. ch'.tail \in Offsets /\ ch'.current \in Nat
          BY <4>4 DEF SInv, Types, ChannelTypes
        <5>3. mask(ch'.tail + 0) = ch'.tail
          BY <5>2, MaskValue DEF Offsets
        <5> QED BY <5>1, <5>2, <5>3 DEF InTail, Taken, Left
      <4>6. InRun' /\ InPlace'
        BY <1>1, <1>3, <3>1, <4>3, <4>5 DEF InRun, InPlace
      <4>7. InCall'
        BY <1>1, <1>3, <3>1, <3>5, <4>3 DEF InStream, InCall
      <4>8. InFresh'
        BY <1>3, <2>1, <3>1, <3>3 DEF InFresh
      <4> QED BY <4>6, <4>7, <4>8 DEF InStream
    <3> QED BY <3>4, <3>5
  <2> QED BY <2>2, <2>3
<1>5. CASE ~ ch_is_open(md, ch)
  <2>1. ch' = seen /\ nextIn' = nextIn /\ call.op \notin {"read", "copied"}
    BY <1>0, <1>1, <1>5 DEF CallOK, AfterHeader
  <2>2. CASE md.state = ch.last
    <3>1. ch' = ch
      BY <2>1, <2>2 DEF StateSeen
    <3> QED BY <1>1, <1>3, <2>1, <3>1, InSame
  <2>3. CASE md.state # ch.last
    <3> DEFINE d == smd_state_change(ch, md.state)
    <3>1. ch' = d
      BY <2>1, <2>3 DEF StateSeen
    <3>2. /\ d \in ChannelTypes
          /\ md.state = "OPENING" /\ ch.state \in {"CLOSING", "CLOSED"} => d.state = "OPENING"
          /\ md.state = "OPENED" /\ ch.state = "OPENING" =>
                d.state = "OPENED" /\ d.tail = ch.tail /\ d.current = ch.current
          /\ md.state = "CLOSED" /\ ch.state = "OPENED" => d.state = "CLOSING"
          /\ ~ (md.state = "OPENING" /\ ch.state \in {"CLOSING", "CLOSED"})
             /\ ~ (md.state = "OPENED" /\ ch.state = "OPENING")
             /\ ~ (md.state = "CLOSED" /\ ch.state = "OPENED")
             /\ ~ (md.state = "CLOSING" /\ ch.state = "CLOSED") => d.state = ch.state
      BY <1>2, StateChange
    <3> HIDE DEF d, c, seen, data, f
    <3>3. ch.state # "CLOSED" /\ ch.state \in States
      BY <1>0, <1>1, <1>2 DEF Handshake, ChannelTypes
    <3>4. CASE md.state = "OPENED" /\ ch.state = "OPENING"
      <4>1. nextIn = md.word /\ md.word = <<Len(inLen) + 1, 0>>
        BY <3>4 DEF InStream, InFresh
      <4>2. ch'.tail = 0 /\ ch'.current = 0 /\ md'.head = 0
        BY <1>0, <1>1, <1>2, <1>3, <3>1, <3>2, <3>4 DEF Fresh, CallOK, ChannelTypes
      <4>3. InTail' = 0 /\ Left' = 0
        <5>1. mask(0) = 0
          BY MaskValue, SmdAssumption DEF Offsets
        <5>2. call'.op \notin {"read", "copied"}
          BY <1>1, <2>1
        <5> QED BY <4>2, <5>1, <5>2 DEF InTail, Left, Taken
      <4>4. Between(InTail', md'.head) = 0
        BY <4>2, <4>3 DEF Between
      <4>5. InRun'
        <5>1. nextIn' = md'.word
          BY <1>3, <2>1, <4>1
        <5> QED BY <4>4, <5>1 DEF InRun, Run, Word
      <4>6. InPlace'
        BY <2>1, <4>1, <4>3 DEF InPlace, Place
      <4>7. InCall' /\ InFresh'
        BY <1>1, <1>3, <2>1, <3>1, <3>2, <3>4 DEF InStream, InCall, InFresh
      <4> QED BY <4>5, <4>6, <4>7 DEF InStream
    <3>5. CASE ~ (md.state = "OPENED" /\ ch.state = "OPENING")
      <4>1. ~ (md'.state = "OPENED" /\ ch'.state = "OPENED")
        BY <1>2, <1>3, <1>5, <3>1, <3>2, <3>3, <3>5 DEF ch_is_open, States
      <4>2. md'.state = "OPENED" => ch'.state # "OPENING"
        BY <1>2, <1>3, <3>1, <3>2, <3>3, <3>5 DEF States
      <4> QED BY <1>1, <1>3, <2>1, <4>1, <4>2, InShut
    <3> QED BY <3>4, <3>5
  <2> QED BY <2>2, <2>3
<1> QED BY <1>4, <1>5

\* The steps that close the channel, or leave it closed
LEMMA InClosed ==
    ASSUME SInv, InStream,
           \/ handle_smd_irq_closing_list \/ finalize_channel_close_fn
           \/ smd_open \/ CloseSet \/ CloseCheck,
           SInv'
    PROVE  InStream'
<1> USE DEF SMD_SS_CLOSED, SMD_SS_OPENING, SMD_SS_OPENED, SMD_SS_CLOSING
<1>0. Handshake /\ CallOK /\ Types
  BY DEF SInv
<1>1. UNCHANGED <<md, inLen, nextIn>>
  BY DEF handle_smd_irq_closing_list, finalize_channel_close_fn, smd_open, CloseSet, CloseCheck
<1>2. CASE handle_smd_irq_closing_list \/ finalize_channel_close_fn
  <2>1. ch.list # "open" /\ call' = call
    BY <1>2 DEF handle_smd_irq_closing_list, finalize_channel_close_fn
  <2>2. ch.state = "CLOSED" /\ call.op \notin {"read", "copied"}
    BY <1>0, <2>1 DEF Handshake, CallOK, ch_is_open
  <2>3. ch'.list # "open"
    <3>1. CASE ch' = ch
      BY <2>1, <3>1
    <3>2. CASE finalize_channel_close_fn
      BY <1>0, <3>2 DEF finalize_channel_close_fn, Types, ChannelTypes
    <3>3. CASE ch' # ch /\ handle_smd_irq_closing_list
      <4> DEFINE d == smd_state_change(ch, md.state)
      <4>1. ch' = d /\ ch.list = "closing"
        BY <3>3 DEF handle_smd_irq_closing_list, StateSeen
      <4>2. md.state \in {"OPENED", "CLOSING"} /\ ch \in ChannelTypes
        BY <1>0, <4>1 DEF Handshake, Types
      <4>3. /\ md.state = "CLOSING" /\ ch.state = "CLOSED" => d.list = "to_close"
            /\ md.state = "OPENED" /\ ch.state = "CLOSED" => d.list = ch.list
        <5>1. md.state \in States
          BY <1>0 DEF Types
        <5> QED BY <4>2, <5>1, StateChange
      <4> HIDE DEF d
      <4> QED BY <2>1, <2>2, <4>1, <4>2, <4>3
    <3> QED BY <1>2, <3>1, <3>2, <3>3
  <2>4. ch'.state = "CLOSED"
    BY <2>3 DEF SInv, Handshake
  <2> QED BY <1>1, <2>1, <2>2, <2>4, InShut
<1>3. CASE smd_open
  <2>1. ch.list = "closed" /\ call = NoCall /\ call' = call
    BY <1>3 DEF smd_open
  <2>2. md.state # "OPENED" /\ call'.op = "none"
    BY <1>0, <2>1 DEF Handshake, NoCall
  <2> QED BY <1>1, <2>2, InShut
<1>4. CASE CloseSet
  <2>1. ch'.state = "CLOSED"
    BY <1>0, <1>4 DEF CloseSet, Types, ChannelTypes
  <2>2. call'.op = "close"
    BY <1>4 DEF CloseSet, NoCall
  <2> QED BY <1>1, <2>1, <2>2, InShut
<1>5. CASE CloseCheck
  <2>1. ch.state = "CLOSED" /\ call.op = "close"
    BY <1>0, <1>5 DEF CloseCheck, CallOK, Handshake
  <2>2. ch'.state = "CLOSED"
    BY <1>0, <1>5, <2>1 DEF CloseCheck, Types, ChannelTypes
  <2>3. call'.op = "none"
    BY <1>5 DEF CloseCheck, NoCall
  <2> QED BY <1>1, <2>2, <2>3, InShut
<1> QED BY <1>2, <1>3, <1>4, <1>5

\* The steps of the writer, and the modem's reads
LEMMA InOther ==
    ASSUME SInv, InStream,
           \/ WriteCopy \/ ch_write_done \/ WriteEnd \/ Drained \/ ModemReads
           \/ \E len \in Lens : SegmentBegin(len)
           \/ \E kind \in {"packet", "start"}, len \in Lens : WriteBegin(kind, len)
    PROVE  InStream'
<1>0. Types
  BY DEF SInv
<1>1. UNCHANGED <<rbuf, inLen, nextIn>>
  BY DEF WriteCopy, ch_write_done, WriteEnd, Drained, ModemReads, SegmentBegin, WriteBegin
<1>2. /\ md'.state = md.state /\ md'.head = md.head /\ md'.word = md.word
  <2>1. CASE ModemReads
    <3> DEFINE t == mask(md.tail + 1)
    <3>1. md' = [md EXCEPT !.tail = t, !.flag = TRUE]
      BY <2>1 DEF ModemReads, ModemSets
    <3> HIDE DEF t
    <3> QED BY <1>0, <3>1 DEF Types
  <2>2. CASE ~ ModemReads
    BY <2>2 DEF WriteCopy, ch_write_done, WriteEnd, Drained, SegmentBegin, WriteBegin
  <2> QED BY <2>1, <2>2
<1>3. ch'.state = ch.state /\ ch'.tail = ch.tail /\ ch'.current = ch.current
  <2>1. \/ ch' = ch
        \/ \E h : ch' = [ch EXCEPT !.head = h]
        \/ \E p : ch' = [ch EXCEPT !.pending = p]
    BY DEF WriteCopy, ch_write_done, WriteEnd, Drained, ModemReads, SegmentBegin, WriteBegin
  <2> QED BY <1>0, <2>1 DEF Types, ChannelTypes
<1>4. \/ call' = call
      \/ call.op \notin {"read", "copied"} /\ call'.op \notin {"read", "copied"}
  <2>1. CASE Drained \/ ModemReads
    BY <2>1 DEF Drained, ModemReads
  <2>2. CASE WriteCopy
    BY <1>0, <2>2 DEF WriteCopy, Types, CallFields
  <2>3. CASE ch_write_done
    <3> DEFINE a == call.rest - call.n
               b == call.r + call.n
               w == <<call.word[1], call.word[2] + call.n>>
    <3>1. /\ call.op = "stored"
          /\ call' = [call EXCEPT !.op = "write", !.rest = a, !.n = 0, !.r = b, !.word = w]
      BY <2>3 DEF ch_write_done
    <3> HIDE DEF a, b, w
    <3> QED BY <1>0, <3>1 DEF Types, CallFields
  <2>4. CASE WriteEnd
    <3>1. call.op = "write" /\ (call' = [call EXCEPT !.rest = call.len] \/ call' = NoCall)
      BY <2>4 DEF WriteEnd
    <3>2. CASE call' = NoCall
      BY <3>1, <3>2 DEF NoCall
    <3>3. CASE call' = [call EXCEPT !.rest = call.len]
      BY <1>0, <3>1, <3>3 DEF Types, CallFields
    <3> QED BY <3>1, <3>2, <3>3
  <2>5. CASE \E len \in Lens : SegmentBegin(len)
    <3>1. PICK len \in Lens : SegmentBegin(len)
      BY <2>5
    <3> DEFINE w == <<Len(outLen), Header + outLen[Len(outLen)] - ch.pending>>
    <3>2. /\ call = NoCall
          /\ call' = [NoCall EXCEPT !.op = "write", !.kind = "segment", !.rest = len, !.word = w]
      BY <3>1 DEF SegmentBegin
    <3> HIDE DEF w
    <3> QED BY <3>2 DEF NoCall
  <2>6. CASE \E kind \in {"packet", "start"}, len \in Lens : WriteBegin(kind, len)
    <3>1. PICK kind \in {"packet", "start"}, len \in Lens : WriteBegin(kind, len)
      BY <2>6
    <3> DEFINE w == <<Len(outLen) + 1, 0>>
    <3>2. /\ call = NoCall
          /\ call' = [NoCall EXCEPT !.op = "write", !.kind = kind, !.len = len,
                         !.rest = Header, !.word = w]
      BY <3>1 DEF WriteBegin
    <3> HIDE DEF w
    <3> QED BY <3>2 DEF NoCall
  <2> QED BY <2>1, <2>2, <2>3, <2>4, <2>5, <2>6
<1> QED BY <1>1, <1>2, <1>3, <1>4, InSame

LEMMA InModemState ==
    ASSUME Orderly, SInv, InStream, ModemOpens \/ ModemOpened \/ ModemCloses \/ ModemAcks
    PROVE  InStream'
<1> USE DEF SMD_SS_CLOSED, SMD_SS_OPENING, SMD_SS_OPENED, SMD_SS_CLOSING
<1>0. Types /\ Handshake /\ CallOK
  BY DEF SInv
<1>1. CASE ModemOpens
  <2> DEFINE w == <<Len(inLen) + 1, 0>>
  <2>1. /\ md' = [md EXCEPT !.state = "OPENING", !.head = 0, !.tail = 0, !.word = w]
        /\ nextIn' = w /\ UNCHANGED <<call, inLen, ch>>
        /\ md.state # "OPENED"
    BY <1>1 DEF ModemOpens, ModemSets
  <2>2. w \in Nat \X Nat /\ w[2] = 0
    BY <1>0 DEF Types
  <2>3. w = <<Len(inLen) + 1, 0>>
    OBVIOUS
  <2> HIDE DEF w
  <2>4. md'.state = "OPENING" /\ md'.word = w
    BY <1>0, <2>1 DEF Types
  <2>5. call.op \notin {"read", "copied"}
    BY <1>0, <2>1 DEF CallOK, ch_is_open
  <2>6. InCall'
    BY <2>1, <2>2, <2>4, <2>5 DEF InCall
  <2>7. InFresh'
    BY <2>1, <2>3, <2>4 DEF InFresh
  <2> QED BY <2>4, <2>6, <2>7 DEF InStream, ch_is_open
<1>2. CASE ModemOpened \/ ModemCloses \/ ModemAcks
  <2>1. PICK new \in States :
          /\ md' = [md EXCEPT !.state = new] /\ UNCHANGED <<ch, call, inLen, nextIn>>
          /\ \/ md.state = "OPENING" /\ ch.state = "OPENING" /\ new = "OPENED"
             \/ md.state = "OPENED" /\ ch.state = "OPENED" /\ call = NoCall /\ new = "CLOSED"
             \/ md.state = "OPENED" /\ ch.state = "CLOSED" /\ new = "CLOSING"
    BY <1>2 DEF ModemOpened, ModemCloses, ModemAcks, ModemSets, States
  <2>2. md'.state = new /\ md'.word = md.word
    BY <1>0, <2>1 DEF Types
  <2>3. call'.op \notin {"read", "copied"}
    BY <1>0, <2>1 DEF CallOK, ch_is_open, NoCall
  <2> QED BY <2>1, <2>2, <2>3, InShut
<1> QED BY <1>1, <1>2

LEMMA InReadBegin ==
    ASSUME SInv, InStream, NEW len \in Lens, ReadBegin(len)
    PROVE  InStream'
<1>0. Types
  BY DEF SInv
<1> DEFINE m == Min({len, ch.current})
<1>1. /\ call = NoCall /\ call' = [NoCall EXCEPT !.op = "read", !.rest = m]
      /\ UNCHANGED <<ch, md, rbuf, inLen, nextIn>>
  BY DEF ReadBegin
<1>2. m \in Nat /\ m <= ch.current /\ ch.current \in Nat
  BY <1>0, SmdAssumption, MinTwo DEF Types, ChannelTypes
<1> HIDE DEF m
<1>3. call'.op = "read" /\ call'.rest = m /\ call'.r = 0 /\ call.op = "none"
  BY <1>1 DEF NoCall
<1>4. InCall' /\ InFresh'
  BY <1>1, <1>2, <1>3 DEF InStream, InCall, InFresh
<1>5. InTail' = InTail /\ Left' = Left
  BY <1>1, <1>2, <1>3 DEF InTail, Left, Taken
<1>6. ch_is_open(md, ch) => InRun' /\ InPlace'
  BY <1>1, <1>5 DEF InStream, InRun, InPlace
<1> QED BY <1>1, <1>4, <1>6 DEF InStream, ch_is_open

LEMMA InReadCopy ==
    ASSUME SInv, InStream, ReadCopy
    PROVE  InStream'
<1>0. Types /\ CallOK
  BY DEF SInv
<1> DEFINE m == Min({ch_read_buffer, call.rest})
           t == ch.tail
           n == Between(t, md.head)
<1>1. /\ call.op = "read" /\ m > 0 /\ call' = [call EXCEPT !.op = "copied", !.n = m]
      /\ nextIn' = Succ(inLen, rbuf[t + m - 1])
      /\ UNCHANGED <<ch, md, rbuf, inLen>>
  BY DEF ReadCopy
<1>2. /\ m \in Nat /\ m <= ch_read_buffer /\ m <= call.rest /\ m \in 1..n
      /\ n \in Nat /\ n < Size /\ Size \in Nat /\ t \in Offsets /\ t + m - 1 < Size
  <2>1. /\ ch_read_buffer \in Nat /\ ch_read_buffer <= n /\ n \in 0..(Size - 1)
    BY <1>0, Avail
  <2>2. m \in Nat /\ m <= ch_read_buffer /\ m <= call.rest
    BY <1>0, <2>1, MinTwo DEF Types
  <2>3. t \in 0..(Size - 1) /\ md.head \in 0..(Size - 1) /\ Size \in Nat
    BY <1>0, SmdAssumption DEF Types, ChannelTypes, Offsets
  <2>4. ch_read_buffer + t <= Size
    BY <2>3 DEF ch_read_buffer
  <2> HIDE DEF m, n, t
  <2>5. m \in 1..n /\ t + m - 1 < Size
    BY <1>1, <2>1, <2>2, <2>3, <2>4
  <2> QED BY <2>1, <2>2, <2>3, <2>5 DEF Offsets
<1>3. /\ ch_is_open(md, ch) /\ ch.current \in Nat /\ call.r \in Nat /\ call.rest \in Nat
      /\ call.r + call.rest <= ch.current /\ nextIn \in Nat \X Nat
      /\ inLen \in Seq(Nat \ {0})
  BY <1>0, <1>1 DEF CallOK, Types, ChannelTypes, InStream, InCall
<1>4. InTail = t /\ Left = ch.current - call.r
  <2>1. Taken = 0 /\ InTail = t
    BY <1>1, InTailFacts
  <2> QED BY <1>1, <1>3, <2>1 DEF Left
<1>5. /\ Run(rbuf, t, n, nextIn, md.word, inLen)
      /\ Place(inLen, nextIn, ch.current - call.r)
  BY <1>3, <1>4 DEF InStream, InRun, InPlace
<1> HIDE DEF m, n, t
<1> DEFINE p == nextIn[1]
           k == nextIn[2]
           left == ch.current - call.r
<1>6. /\ left \in Nat /\ m <= left /\ left # 0
      /\ nextIn = <<p, k>> /\ k \in Nat /\ p \in DOMAIN inLen
      /\ k = Header + inLen[p] - left /\ inLen[p] \in Nat /\ Header \in Nat /\ p \in Nat
  <2>1. left \in Nat /\ m <= left /\ left # 0
    BY <1>1, <1>2, <1>3
  <2>2. nextIn = <<p, k>> /\ k \in Nat
    BY <1>3, PairWord
  <2>3. p \in DOMAIN inLen /\ k = Header + inLen[p] - left
    BY <1>5, <2>1 DEF Place
  <2> QED BY <1>3, <2>1, <2>2, <2>3, SmdAssumption
<1> HIDE DEF p, k, left
<1>7. Word(rbuf, t, n, md.word, m) = Norm(inLen, <<p, k + m>>)
  <2>1. Run(rbuf, t, n, <<p, k>>, md.word, inLen)
    BY <1>5, <1>6
  <2>2. m \in 0..n /\ k < Header + inLen[p] /\ k + m <= Header + inLen[p]
    BY <1>1, <1>2, <1>6
  <2> QED BY <1>2, <1>3, <1>6, <2>1, <2>2, RunPacket
<1>8. nextIn' = Word(rbuf, t, n, md.word, m) /\ nextIn' \in Nat \X Nat
  <2> DEFINE i == m - 1
  <2>1. i \in 0..(n - 1) /\ i + 1 = m /\ t + m - 1 = t + i /\ t + i \in Offsets /\ t + i \in Int
    BY <1>2 DEF Offsets
  <2>2. mask(t + i) = t + i
    <3> DEFINE o == t + i
    <3>1. o \in Offsets /\ o \in Int
      BY <2>1
    <3> HIDE DEF o
    <3>2. mask(o) = o
      BY <3>1, MaskValue
    <3> QED BY <3>2 DEF o
  <2> HIDE DEF i
  <2>3. /\ Valid(inLen, rbuf[mask(t + i)])
        /\ Word(rbuf, t, n, md.word, i + 1) = Succ(inLen, rbuf[mask(t + i)])
    BY <1>2, <1>5, <2>1, RunWord
  <2>4. Succ(inLen, rbuf[mask(t + i)]) \in Nat \X Nat
    BY <1>3, <2>3, ValidWord
  <2>5. nextIn' = Succ(inLen, rbuf[mask(t + i)])
    BY <1>1, <2>1, <2>2
  <2> QED BY <2>1, <2>3, <2>4, <2>5
<1>9. Run(rbuf, mask(t + m), n - m, nextIn', md.word, inLen)
  <2>1. m \in 0..n
    BY <1>2
  <2> QED BY <1>2, <1>5, <1>8, <2>1, RunPop
<1>10. /\ call'.op = "copied" /\ call'.n = m /\ call'.r = call.r /\ call'.rest = call.rest
  BY <1>0, <1>1 DEF Types, CallFields
<1>11. InTail' = mask(t + m) /\ Left' = left - m /\ Between(mask(t + m), md.head) = n - m
  <2>1. Taken' = m
    BY <1>10 DEF Taken
  <2>2. InTail' = mask(t + m)
    BY <1>1, <2>1 DEF InTail, t
  <2>3. Left' = ch.current - (call.r + m)
    BY <1>1, <1>10, <2>1 DEF Left
  <2>4. Between(mask(t + m), md.head) = n - m
    <3>1. md.head \in Offsets /\ m <= Between(t, md.head)
      BY <1>0, <1>2 DEF Types, n
    <3> QED BY <1>2, <3>1, TailMoves DEF n
  <2>5. m \in Int /\ call.r \in Int /\ ch.current \in Int /\ left = ch.current - call.r
    BY <1>2, <1>3 DEF left
  <2>6. Left' = left - m
    BY ONLY <2>3, <2>5
  <2> QED BY <2>2, <2>4, <2>6
<1>12. InRun'
  BY <1>1, <1>9, <1>11 DEF InRun
<1>13. InPlace'
  <2>1. nextIn' = Norm(inLen, <<p, k + m>>)
    BY <1>7, <1>8
  <2>2. CASE left - m = 0
    <3>1. k + m >= Header + inLen[p]
      BY <1>2, <1>6, <2>2
    <3>2. nextIn' = <<p + 1, 0>>
      BY <1>6, <2>1, <3>1 DEF Norm
    <3> QED BY <1>11, <2>2, <3>2 DEF InPlace, Place
  <2>3. CASE left - m # 0
    <3>1. k + m < Header + inLen[p] /\ k + m \in Nat /\ k + m = Header + inLen[p] - (left - m)
      BY <1>2, <1>6, <2>3
    <3>2. nextIn' = <<p, k + m>>
      <4> DEFINE y == k + m
      <4>1. y \in Nat /\ y < Header + inLen[p]
        BY <3>1
      <4> HIDE DEF y
      <4>2. Norm(inLen, <<p, y>>) = <<p, y>>
        BY <1>3, <1>6, <4>1, SuccWord
      <4> QED BY <2>1, <4>2 DEF y
    <3>3. nextIn'[1] = p /\ nextIn'[2] = k + m
      BY <3>2
    <3> QED BY <1>1, <1>6, <1>11, <2>3, <3>1, <3>3 DEF InPlace, Place
  <2> QED BY <2>2, <2>3
<1>14. InCall'
  BY <1>1, <1>3, <1>8, <1>10 DEF InStream, InCall
<1>15. InFresh'
  BY <1>1, <1>3 DEF InFresh, ch_is_open, SMD_SS_OPENED, SMD_SS_OPENING
<1> QED BY <1>12, <1>13, <1>14, <1>15 DEF InStream

LEMMA InReadDone ==
    ASSUME SInv, InStream, ch_read_done
    PROVE  InStream'
<1>0. Types /\ CallOK
  BY DEF SInv
<1> DEFINE m == call.n
           t == mask(ch.tail + m)
           a == call.rest - m
           b == call.r + m
<1>1. /\ call.op = "copied"
      /\ call' = [call EXCEPT !.op = "read", !.rest = a, !.n = 0, !.r = b]
      /\ ch' = [ch EXCEPT !.tail = t]
      /\ UNCHANGED <<md, rbuf, inLen, nextIn>>
  BY DEF ch_read_done
<1>2. /\ m \in Nat /\ m <= call.rest /\ call.rest \in Nat /\ call.r \in Nat
      /\ ch_is_open(md, ch)
  BY <1>0, <1>1 DEF Types, CallOK
<1>3. a + b = call.r + call.rest
  BY <1>2
<1>4. t \in Offsets
  BY <1>1, InTailFacts DEF InTail, Taken
<1>5. InTail = t /\ Left = ch.current - b
  BY <1>1 DEF InTail, Taken, Left
<1> HIDE DEF t, m, a, b
<1>6. /\ ch'.tail = t /\ ch'.state = ch.state /\ ch'.current = ch.current
  BY <1>0, <1>1 DEF Types, ChannelTypes
<1>7. call'.op = "read" /\ call'.n = 0 /\ call'.rest = a /\ call'.r = b
  BY <1>0, <1>1 DEF Types, CallFields
<1>8. InTail' = t /\ Left' = ch.current - b
  <2>1. mask(t + 0) = t
    BY <1>4, MaskValue DEF Offsets
  <2>2. b + 0 = b
    BY <1>2 DEF b, m
  <2> QED BY <1>6, <1>7, <2>1, <2>2 DEF InTail, Left, Taken
<1>9. InCall'
  <2>1. b + a = call.r + call.rest
    BY <1>2 DEF a, b, m
  <2> QED BY <1>1, <1>6, <1>7, <2>1 DEF InStream, InCall
<1>10. InFresh'
  BY <1>1, <1>2, <1>6 DEF InFresh, ch_is_open, SMD_SS_OPENED, SMD_SS_OPENING
<1>11. InRun' /\ InPlace'
  BY <1>1, <1>2, <1>5, <1>8 DEF InStream, InRun, InPlace
<1> QED BY <1>9, <1>10, <1>11 DEF InStream

LEMMA InReadEnd ==
    ASSUME SInv, InStream, ReadEnd
    PROVE  InStream'
<1>0. Types /\ CallOK
  BY DEF SInv
<1> DEFINE y == Minus(ch.current, call.r)
           c == [ch EXCEPT !.current = y]
           d == update_packet_state(c)
           x == AfterHeader(c, d)
<1>1. /\ call.op = "read" /\ call' = NoCall /\ ch' = d /\ nextIn' = x
      /\ UNCHANGED <<md, rbuf, inLen>>
  BY DEF ReadEnd
<1>2. /\ ch_is_open(md, ch) /\ ch.current \in Nat /\ call.r \in Nat /\ call.rest \in Nat
      /\ call.r + call.rest <= ch.current /\ nextIn \in Nat \X Nat
  BY <1>0, <1>1 DEF CallOK, Types, ChannelTypes, InStream, InCall
<1>3. y = ch.current - call.r /\ y \in Nat
  BY <1>2 DEF Minus
<1>4. InTail = ch.tail /\ Left = y
  <2>1. Taken = 0 /\ InTail = ch.tail
    BY <1>1, InTailFacts
  <2> QED BY <1>1, <1>2, <1>3, <2>1 DEF Left
<1> HIDE DEF y
<1>5. c \in ChannelTypes /\ c.tail = ch.tail /\ c.current = y
  BY <1>0, <1>3 DEF Types, ChannelTypes
<1> HIDE DEF c
<1>6. /\ Run(rbuf, c.tail, Between(c.tail, md.head), nextIn, md.word, inLen)
      /\ Place(inLen, nextIn, c.current)
  BY <1>2, <1>4, <1>5 DEF InStream, InRun, InPlace
<1>7. d = update_packet_state(c) /\ x = AfterHeader(c, d)
  OBVIOUS
<1> HIDE DEF d, x
<1>8. /\ Run(rbuf, d.tail, Between(d.tail, md.head), x, md.word, inLen)
      /\ Place(inLen, x, d.current) /\ x \in Nat \X Nat
  BY <1>2, <1>5, <1>6, <1>7, TakeHeader
<1>9. SInv' /\ call'.op = "none"
  BY <1>1, ReadEndStep DEF NoCall
<1>10. InTail' = ch'.tail /\ Left' = ch'.current
  <2>1. ch'.tail \in Offsets /\ ch'.current \in Nat
    BY <1>9 DEF SInv, Types, ChannelTypes
  <2>2. mask(ch'.tail + 0) = ch'.tail
    BY <2>1, MaskValue DEF Offsets
  <2> QED BY <1>9, <2>1, <2>2 DEF InTail, Taken, Left
<1>11. InRun' /\ InPlace'
  BY <1>1, <1>8, <1>10 DEF InRun, InPlace
<1>12. InCall'
  BY <1>1, <1>8, <1>9 DEF InStream, InCall
<1>13. InFresh'
  <2>1. md.state = "OPENED" /\ ch'.state # "OPENING"
    <3>1. ch.state = "OPENED" /\ md.state = "OPENED" /\ ch.last = "OPENED" /\ ch.list = "open"
      BY <1>2 DEF ch_is_open, SMD_SS_OPENED, SInv, Handshake, SMD_SS_CLOSED
    <3>2. c.state = ch.state
      BY <1>0 DEF c, Types, ChannelTypes
    <3>3. d.state = c.state
      BY <1>0, <1>2, <1>5, <1>7, HeaderTaken DEF SInv, WordsOK
    <3> QED BY <1>1, <3>1, <3>2, <3>3
  <2> QED BY <1>1, <2>1 DEF InFresh, SMD_SS_OPENED, SMD_SS_OPENING
<1> QED BY <1>11, <1>12, <1>13 DEF InStream

LEMMA InModemWrites ==
    ASSUME SInv, InStream, ModemWrites
    PROVE  InStream'
<1> USE DEF SMD_SS_CLOSED, SMD_SS_OPENING, SMD_SS_OPENED, SMD_SS_CLOSING
<1>0. Types /\ CallOK /\ WordsOK
  BY DEF SInv
<1> DEFINE h == mask(md.head + 1)
           w == Succ(inLen', md.word)
           t == InTail
           n == Between(t, md.head)
           p == md.word[1]
           k == md.word[2]
<1>1. /\ md.state = "OPENED" /\ ch.state = "OPENED" /\ h # ch.tail
      /\ rbuf' = [rbuf EXCEPT ![md.head] = md.word]
      /\ md' = [md EXCEPT !.head = h, !.word = w, !.flag = TRUE]
      /\ UNCHANGED <<ch, call, nextIn>>
      /\ \/ md.word[2] > 0 /\ inLen' = inLen
         \/ md.word[2] = 0 /\ \E len \in Lens : inLen' = Append(inLen, len)
  BY DEF ModemWrites, ModemSets, ch_is_open
<1>2. /\ nextIn \in Nat \X Nat /\ md.word \in Nat \X Nat
      /\ md.word[2] > 0 => md.word[2] < Header + inLen[md.word[1]]
      /\ InRun /\ InPlace /\ inLen \in Seq(Nat \ {0})
  BY <1>0, <1>1 DEF InStream, InCall, ch_is_open, Types
<1>3. /\ md.word = <<p, k>> /\ p \in Nat /\ k \in Nat
      /\ p = IF k = 0 THEN Len(inLen) + 1 ELSE Len(inLen)
      /\ p > 0
  BY <1>0, <1>2, PairWord DEF WordsOK
<1>4. /\ inLen' \in Seq(Nat \ {0}) /\ p \in DOMAIN inLen' /\ inLen'[p] \in Nat \ {0}
      /\ k < Header + inLen'[p] /\ p = Len(inLen')
      /\ \A q \in DOMAIN inLen : q \in DOMAIN inLen' /\ inLen'[q] = inLen[q]
      /\ Run(rbuf, t, n, nextIn, md.word, inLen')
  <2>1. Run(rbuf, t, n, nextIn, md.word, inLen) /\ n \in Nat
    BY <1>2, InTailFacts DEF InRun
  <2> HIDE DEF p, k, t, n, w
  <2>2. CASE md.word[2] > 0 /\ inLen' = inLen
    <3>1. k # 0 /\ k < Header + inLen[p]
      BY <1>2, <1>3, <2>2 DEF p, k
    <3>2. p = Len(inLen) /\ p > 0
      BY <1>3, <3>1
    <3>3. p \in DOMAIN inLen /\ inLen[p] \in Nat \ {0}
      BY <1>2, <3>2
    <3>4. inLen' = inLen
      BY <2>2
    <3> QED BY <1>2, <2>1, <3>1, <3>2, <3>3, <3>4
  <2>3. CASE md.word[2] = 0 /\ \E len \in Lens : inLen' = Append(inLen, len)
    <3>1. PICK len \in Lens : inLen' = Append(inLen, len)
      BY <2>3
    <3>2. len \in Nat \ {0} /\ Header \in Nat
      BY SmdAssumption
    <3>3. Run(rbuf, t, n, nextIn, md.word, inLen')
      BY <1>2, <2>1, <3>1, <3>2, RunLens
    <3>4. k = 0 /\ p = Len(inLen) + 1
      BY <1>3, <2>3 DEF k
    <3>5. /\ inLen' \in Seq(Nat \ {0}) /\ Len(inLen') = Len(inLen) + 1
          /\ inLen'[Len(inLen) + 1] = len
          /\ \A q \in DOMAIN inLen : q \in DOMAIN inLen' /\ inLen'[q] = inLen[q]
      BY <1>2, <3>1, <3>2
    <3>6. p \in DOMAIN inLen' /\ inLen'[p] = len
      BY <1>2, <3>4, <3>5
    <3> QED BY <3>2, <3>3, <3>4, <3>5, <3>6
  <2> QED BY <1>1, <2>2, <2>3
<1>5. /\ t \in Offsets /\ md.head \in Offsets /\ n \in Nat /\ n < Size
      /\ mask(t + n) = md.head /\ h # t /\ h \in Offsets
      /\ \A i \in 0..(n - 1) : mask(t + i) # md.head /\ mask(t + i) \in Offsets
  <2>1. /\ t \in Offsets /\ md.head \in Offsets /\ ch.tail \in Offsets
        /\ n = Between(ch.tail, md.head) - Taken /\ Taken \in Nat
    BY <1>0, InTailFacts DEF Types, ChannelTypes
  <2>2. h # t
    <3>1. /\ Between(ch.tail, h) = Between(ch.tail, md.head) + 1 /\ h \in Offsets
      BY <1>1, <2>1, HeadMoves
    <3>2. Between(ch.tail, h) < Size /\ n \in Nat
      BY <2>1, <3>1, BetweenPlace
    <3>3. n < Size - 1
      BY <2>1, <3>1, <3>2, SmdAssumption, BetweenPlace
    <3>4. h = IF md.head + 1 < Size THEN md.head + 1 ELSE md.head + 1 - Size
      <4>1. 1 \in 0..Size
        BY SmdAssumption
      <4> QED BY <2>1, <4>1, MaskSum
    <3> HIDE DEF t, h
    <3> QED BY <2>1, <3>3, <3>4, SmdAssumption DEF Between, Offsets
  <2>3. h \in Offsets
    BY <1>1, <2>1, HeadMoves
  <2> QED BY <2>1, <2>2, <2>3, BetweenPlace
<1>6. Between(t, h) = n + 1
  BY <1>5, HeadMoves
<1> HIDE DEF h, t, n, p, k
<1>7. /\ \A i \in 0..(n - 1) : rbuf'[mask(t + i)] = rbuf[mask(t + i)]
      /\ rbuf'[mask(t + n)] = md.word
  BY <1>0, <1>1, <1>5 DEF Types
<1>8. Run(rbuf', t, n, nextIn, <<p, k>>, inLen')
  <2> DEFINE c == rbuf'
             l == inLen'
             b == rbuf
             x == nextIn
             v == md.word
  <2>1. /\ Run(b, t, n, x, v, l) /\ n \in Nat
        /\ \A i \in 0..(n - 1) : c[mask(t + i)] = b[mask(t + i)]
    BY <1>4, <1>5, <1>7
  <2> HIDE DEF b, c, l, x, v
  <2>2. Run(c, t, n, x, v, l)
    BY ONLY <2>1, RunSame
  <2> QED BY <1>3, <2>2 DEF c, l, x, v
<1>9. w = Norm(inLen', <<p, k + 1>>)
  <2>1. Succ(inLen', <<p, k>>) = Norm(inLen', <<p, k + 1>>)
    <3> HIDE DEF w
    <3> QED BY ONLY <1>3, <1>4, SuccWord
  <2> QED BY <1>3, <2>1
<1>10. Run(rbuf', t, n + 1, nextIn, w, inLen')
  <2> DEFINE m == 1
  <2>1. m \in Nat \ {0} /\ k + m <= Header + inLen'[p]
    BY <1>3, <1>4, SmdAssumption
  <2>2. \A i \in 0..(m - 1) : rbuf'[mask(t + (n + i))] = <<p, k + i>>
    <3>1. \A i \in 0..(m - 1) : i = 0
      OBVIOUS
    <3>2. n + 0 = n /\ k + 0 = k
      BY <1>3, <1>5
    <3> QED BY <1>3, <1>7, <3>1, <3>2
  <2>3. w = Norm(inLen', <<p, k + m>>)
    BY <1>9
  <2> HIDE DEF m, w
  <2>4. Run(rbuf', t, n + m, nextIn, Norm(inLen', <<p, k + m>>), inLen')
    BY <1>3, <1>4, <1>5, <1>8, <2>1, <2>2, RunPush
  <2> QED BY <2>3, <2>4 DEF m
<1>11. w \in Nat \X Nat /\ (w[2] > 0 => w[2] < Header + inLen'[w[1]])
  <2>1. w = Norm(inLen', <<p, k + 1>>)
    BY <1>9
  <2> HIDE DEF w
  <2>2. CASE k + 1 < Header + inLen'[p]
    <3>1. w = <<p, k + 1>>
      BY <1>3, <1>4, <2>1, <2>2, SmdAssumption DEF Norm
    <3> QED BY <1>3, <2>2, <3>1
  <2>3. CASE ~ (k + 1 < Header + inLen'[p])
    <3>1. w = <<p + 1, 0>>
      BY <1>3, <1>4, <2>1, <2>3, SmdAssumption DEF Norm
    <3> QED BY <1>3, <3>1
  <2> QED BY <2>2, <2>3
<1> HIDE DEF w
<1>12. md'.state = md.state /\ md'.head = h /\ md'.word = w
  BY <1>0, <1>1 DEF Types
<1>13. InTail' = t /\ Left' = Left
  BY <1>1 DEF InTail, Left, Taken, t
<1>14. InRun'
  BY <1>1, <1>6, <1>10, <1>12, <1>13 DEF InRun
<1>15. InPlace'
  BY <1>1, <1>2, <1>4, <1>13 DEF InPlace, Place
<1>16. InCall'
  BY <1>1, <1>11, <1>12 DEF InStream, InCall
<1>17. InFresh'
  BY <1>1, <1>12 DEF InFresh
<1> QED BY <1>14, <1>15, <1>16, <1>17 DEF InStream

-----------------------------------------------------------------------------
(* The stream to the modem *)

\* Words put behind the others do not touch them.
LEMMA RoomFacts ==
    ASSUME NEW t \in Offsets, NEW h \in Offsets, NEW m \in Nat, m <= Size - 1 - Between(t, h)
    PROVE  /\ mask(h + m) \in Offsets /\ Between(t, mask(h + m)) = Between(t, h) + m
           /\ \A i \in 0..(Between(t, h) - 1), j \in 0..(m - 1) : mask(t + i) # mask(h + j)
           /\ \A i \in 0..(m - 1) : mask(t + (Between(t, h) + i)) = mask(h + i)
<1>1. Size \in Nat /\ Size > 0 /\ t \in 0..(Size - 1) /\ h \in 0..(Size - 1)
  BY SmdAssumption DEF Offsets
<1> DEFINE n == Between(t, h)
<1>2. n \in Nat /\ n < Size /\ mask(t + n) = h /\ n = IF t <= h THEN h - t ELSE h - t + Size
  BY BetweenPlace DEF Between
<1>3. m <= Size - 1 - n
  OBVIOUS
<1> HIDE DEF n
<1>4. m \in 0..Size /\ n + m < Size
  BY <1>1, <1>2, <1>3
<1>5. mask(h + m) \in Offsets /\ Between(t, mask(h + m)) = n + m
  <2> DEFINE u == mask(h + m)
  <2>1. u \in Offsets /\ u = IF h + m < Size THEN h + m ELSE h + m - Size
    BY <1>4, MaskSum
  <2> HIDE DEF u
  <2>2. Between(t, u) = n + m
    BY <1>1, <1>2, <1>4, <2>1 DEF Between, Offsets
  <2> QED BY <2>1, <2>2 DEF u
<1>6. ASSUME NEW i \in 0..(n - 1), NEW j \in 0..(m - 1) PROVE mask(t + i) # mask(h + j)
  <2>1. i \in 0..Size /\ j \in 0..Size
    BY <1>1, <1>2, <1>4
  <2>2. mask(t + i) = IF t + i < Size THEN t + i ELSE t + i - Size
    BY <2>1, MaskSum
  <2>3. mask(h + j) = IF h + j < Size THEN h + j ELSE h + j - Size
    BY <2>1, MaskSum
  <2> QED BY <1>1, <1>2, <1>4, <2>2, <2>3
<1>7. ASSUME NEW i \in 0..(m - 1) PROVE mask(t + (n + i)) = mask(h + i)
  <2>1. i \in Nat /\ n + i <= Size
    BY <1>1, <1>2, <1>4
  <2> QED BY <1>2, <2>1, MaskTwice
<1> QED BY <1>5, <1>6, <1>7 DEF n

\* What the length of a packet is, and which words are at its end
LEMMA LastWord ==
    ASSUME NEW lens \in Seq(Nat \ {0}), NEW k \in Nat
    PROVE  /\ Len(lens) \in Nat
           /\ Norm(lens, <<Len(lens) + 1, k>>) = <<Len(lens) + 1, k>>
           /\ Len(lens) > 0 =>
                 /\ Len(lens) \in DOMAIN lens /\ lens[Len(lens)] \in Nat \ {0}
                 /\ k < Header + lens[Len(lens)] =>
                       Norm(lens, <<Len(lens), k>>) = <<Len(lens), k>>
                 /\ k >= Header + lens[Len(lens)] =>
                       Norm(lens, <<Len(lens), k>>) = <<Len(lens) + 1, 0>>
<1>1. Len(lens) \in Nat /\ DOMAIN lens = 1..Len(lens) /\ Header \in Nat
  BY SmdAssumption
<1>2. Norm(lens, <<Len(lens) + 1, k>>) = <<Len(lens) + 1, k>>
  <2>1. <<Len(lens) + 1, k>>[1] \notin DOMAIN lens
    BY <1>1
  <2> QED BY <2>1 DEF Norm
<1>3. ASSUME Len(lens) > 0
      PROVE  /\ Len(lens) \in DOMAIN lens /\ lens[Len(lens)] \in Nat \ {0}
             /\ k < Header + lens[Len(lens)] =>
                   Norm(lens, <<Len(lens), k>>) = <<Len(lens), k>>
             /\ k >= Header + lens[Len(lens)] =>
                   Norm(lens, <<Len(lens), k>>) = <<Len(lens) + 1, 0>>
  <2> DEFINE p == Len(lens)
  <2>1. p \in DOMAIN lens /\ p \in Nat
    BY <1>1, <1>3
  <2>2. lens[p] \in Nat \ {0}
    BY <2>1
  <2> HIDE DEF p
  <2>3. <<p, k>>[1] = p /\ <<p, k>>[2] = k
    OBVIOUS
  <2>4. k < Header + lens[p] => Norm(lens, <<p, k>>) = <<p, k>>
    BY <1>1, <2>1, <2>2, <2>3 DEF Norm
  <2>5. k >= Header + lens[p] => Norm(lens, <<p, k>>) = <<p + 1, 0>>
    BY <1>1, <2>1, <2>2, <2>3 DEF Norm
  <2> QED BY <2>1, <2>2, <2>4, <2>5 DEF p
<1> QED BY <1>1, <1>2, <1>3

\* The lengths of the packets, for the lemmas on runs
LEMMA LensFacts ==
    ASSUME Lengths
    PROVE  /\ inLen \in Seq(Nat \ {0}) /\ outLen \in Seq(Nat \ {0})
           /\ Len(inLen) \in Nat /\ Len(outLen) \in Nat
<1>1. ASSUME NEW s \in Seq(Lens) PROVE s \in Seq(Nat \ {0}) /\ Len(s) \in Nat
  <2>1. Len(s) \in Nat /\ DOMAIN s = 1..Len(s) /\ s = [i \in 1..Len(s) |-> s[i]]
    OBVIOUS
  <2>2. \A i \in 1..Len(s) : s[i] \in Lens
    OBVIOUS
  <2>3. \A i \in 1..Len(s) : s[i] \in Nat \ {0}
    BY <2>2, SmdAssumption
  <2> QED BY <2>1, <2>3
<1> QED BY <1>1 DEF Lengths

\* The stream's part of the state is as it was.
LEMMA OutSame ==
    ASSUME OutStream, UNCHANGED <<sbuf, outLen, nextOut>>,
           md'.state = md.state, md'.tail = md.tail,
           ch'.state = ch.state, ch'.head = ch.head, ch'.pending = ch.pending,
           \/ call' = call
           \/ /\ call.op \notin {"write", "stored"} /\ call'.op \notin {"write", "stored"}
              /\ call'.word \in Nat \X Nat
    PROVE  OutStream'
<1>1. ch_is_open(md, ch)' <=> ch_is_open(md, ch)
  BY DEF ch_is_open
<1>2. CASE call' = call
  <2>1. Writes' = Writes /\ OutWord' = OutWord /\ Needed' = Needed
    BY <1>2 DEF Writes, OutWord, Needed
  <2>2. OutPending' /\ OutSegment' /\ OutStored'
    BY <1>1, <1>2, <2>1 DEF OutStream, OutPending, OutSegment, OutStored
  <2>3. OutPacket'
    BY <1>1, <1>2, <2>1 DEF OutStream, OutPacket
  <2>4. ch_is_open(md, ch) => OutRun'
    BY <2>1 DEF OutStream, OutRun
  <2> QED BY <1>1, <1>2, <2>2, <2>3, <2>4 DEF OutStream
<1>3. CASE /\ call.op \notin {"write", "stored"} /\ call'.op \notin {"write", "stored"}
           /\ call'.word \in Nat \X Nat
  <2>1. ~ Writes /\ ~ Writes' /\ OutWord' = OutWord
    BY <1>3 DEF Writes, OutWord
  <2>2. OutPending' /\ OutSegment' /\ OutStored' /\ OutPacket'
    BY <1>1, <1>3, <2>1 DEF OutStream, OutPending, OutSegment, OutStored, OutPacket
  <2>3. ch_is_open(md, ch) => OutRun'
    BY <2>1 DEF OutStream, OutRun
  <2> QED BY <1>1, <1>3, <2>2, <2>3 DEF OutStream
<1> QED BY <1>2, <1>3

\* The channel is not open after the step: nothing may be pending.
LEMMA OutShut ==
    ASSUME SInv, OutStream, UNCHANGED <<sbuf, outLen>>, nextOut' \in Nat \X Nat,
           ch'.pending = ch.pending,
           ~ (md'.state = "OPENED" /\ ch'.state = "OPENED"),
           \/ call' = call /\ ~ ch_is_open(md, ch)
           \/ call'.op \notin {"write", "stored"} /\ call'.word \in Nat \X Nat /\ ch.pending = 0
    PROVE  OutStream'
<1>1. ~ ch_is_open(md, ch)'
  BY DEF ch_is_open, SMD_SS_OPENED
<1>2. CASE call' = call /\ ~ ch_is_open(md, ch)
  <2>1. Writes' = Writes /\ Needed' = Needed /\ call.op # "stored"
    BY <1>2 DEF Writes, Needed, SInv, CallOK
  <2>2. OutPending' /\ OutSegment' /\ OutStored'
    BY <1>1, <1>2, <2>1 DEF OutStream, OutPending, OutSegment, OutStored
  <2>3. OutPacket'
    BY <1>1, <1>2, <2>1 DEF OutStream, OutPacket
  <2> QED BY <1>1, <1>2, <2>2, <2>3 DEF OutStream
<1>3. CASE call'.op \notin {"write", "stored"} /\ call'.word \in Nat \X Nat /\ ch.pending = 0
  <2>1. ~ Writes'
    BY <1>3 DEF Writes
  <2>2. OutPending' /\ OutSegment' /\ OutStored' /\ OutPacket'
    BY <1>3, <2>1 DEF OutStream, OutPending, OutSegment, OutStored, OutPacket
  <2> QED BY <1>1, <1>3, <2>2 DEF OutStream
<1> QED BY <1>2, <1>3

\* The two sides have opened the channel: a new session begins.
LEMMA OutOpens ==
    ASSUME SInv, Lengths, OutStream, UNCHANGED <<sbuf, outLen, call>>,
           md'.state = md.state, md'.tail = md.tail,
           md.state = "OPENED", ch.state = "OPENING", ch'.state = "OPENED",
           ch'.head = ch.head, ch'.pending = ch.pending, nextOut' = <<Len(outLen) + 1, 0>>
    PROVE  OutStream'
<1> USE DEF SMD_SS_CLOSED, SMD_SS_OPENING, SMD_SS_OPENED, SMD_SS_CLOSING
<1>0. ~ ch_is_open(md, ch) /\ ch_is_open(md, ch)' /\ call.op # "stored"
  BY DEF ch_is_open, SInv, CallOK
<1>1. /\ ch'.head = 0 /\ md'.tail = 0 /\ Between(md'.tail, ch'.head) = 0
      /\ Size \in Nat /\ Len(outLen) \in Nat
  BY SmdAssumption, LensFacts DEF SInv, Fresh, Between
<1>2. Writes' = Writes /\ Needed' = Needed
  BY DEF Writes, Needed
<1>3. Writes => /\ call.r = 0 /\ call.kind # "segment" /\ call.op = "write"
                /\ call.word = <<Len(outLen) + 1, 0>> /\ Needed <= Size - 1
  <2> SUFFICES ASSUME Writes
               PROVE  /\ call.r = 0 /\ call.kind # "segment" /\ call.op = "write"
                      /\ call.word = <<Len(outLen) + 1, 0>> /\ Needed <= Size - 1
    OBVIOUS
  <2>1. call.op = "write" /\ call.kind # "segment" /\ call.word \in Nat \X Nat
    BY <1>0 DEF Writes, OutStream, OutSegment
  <2>2. call.r = 0 /\ Needed <= Size - 1 /\ call.word[1] = Len(outLen) + 1 /\ call.word[2] = call.r
    BY <1>0, <2>1 DEF OutStream, OutPacket
  <2>3. call.word = <<call.word[1], call.word[2]>>
    BY <2>1, PairWord
  <2> QED BY <2>1, <2>2, <2>3
<1>4. ~ Writes => ch.pending = 0
  BY <1>0 DEF OutStream, OutPending, Writes
<1>5. OutWord' = <<Len(outLen) + 1, 0>>
  <2>1. Norm(outLen, <<Len(outLen) + 1, 0>>) = <<Len(outLen) + 1, 0>>
    BY LensFacts, LastWord
  <2> QED BY <1>2, <1>3, <1>4, <2>1 DEF OutWord
<1>6. OutRun'
  BY <1>1, <1>5 DEF OutRun, Run, Word
<1>7. OutPending' /\ OutSegment' /\ OutStored'
  BY <1>0, <1>2, <1>3 DEF OutStream, OutPending, OutSegment, OutStored
<1>8. OutPacket'
  <2>1. Writes => Needed' <= Size - 1 - Between(md'.tail, ch'.head)
    BY <1>1, <1>2, <1>3
  <2> QED BY <1>0, <1>2, <2>1 DEF OutStream, OutPacket
<1>9. nextOut' \in Nat \X Nat
  BY <1>1
<1> QED BY <1>6, <1>7, <1>8, <1>9 DEF OutStream

LEMMA OutIrq ==
    ASSUME Orderly, SInv, Lengths, OutStream, handle_smd_irq
    PROVE  OutStream'
<1> USE DEF SMD_SS_CLOSED, SMD_SS_OPENING, SMD_SS_OPENED, SMD_SS_CLOSING
<1> DEFINE seen == StateSeen(ch)
           data == ch_is_open(md, ch) /\ md.flag
           c    == IF data THEN update_packet_state(seen) ELSE seen
           f    == md.flag /\ ~ data
<1>0. Types /\ Handshake /\ Fresh /\ CallOK /\ WordsOK
  BY DEF SInv
<1>1. /\ ch.list = "open" /\ ch' = c /\ nextOut' = Opened(ch, c)
      /\ md' = [md EXCEPT !.flag = f]
      /\ UNCHANGED <<sbuf, call, outLen>>
  BY DEF handle_smd_irq
<1>2. ch \in ChannelTypes /\ md.state \in States
  BY <1>0 DEF Types
<1>3. md'.state = md.state /\ md'.tail = md.tail
  <2> HIDE DEF f
  <2> QED BY <1>0, <1>1 DEF Types
<1>4. CASE ch_is_open(md, ch)
  <2>1. seen = ch /\ md.state = "OPENED" /\ ch.state = "OPENED"
    BY <1>0, <1>4 DEF StateSeen, Handshake, ch_is_open
  <2>2. c.head = ch.head /\ c.state = ch.state /\ c.pending = ch.pending
    <3> DEFINE u == update_packet_state(ch)
    <3>1. \A o \in Offsets : Inside(ch.tail, md.head, o) => rbuf[o][1] \in DOMAIN inLen
      BY <1>0, <1>4 DEF WordsOK
    <3>2. u.head = ch.head /\ u.state = ch.state /\ u.pending = ch.pending
      BY <1>0, <1>2, <3>1, HeaderTaken
    <3>3. c = u \/ c = ch
      BY <2>1
    <3> HIDE DEF u, c
    <3> QED BY <3>2, <3>3
  <2> HIDE DEF c, f, data, seen
  <2>3. nextOut' = nextOut
    BY <1>1, <2>1 DEF Opened
  <2> QED BY <1>1, <1>3, <2>2, <2>3, OutSame
<1>5. CASE ~ ch_is_open(md, ch)
  <2>1. ch' = seen /\ nextOut' = Opened(ch, ch')
    BY <1>1, <1>5
  <2>2. CASE md.state = ch.last
    <3>1. ch' = ch /\ nextOut' = nextOut
      BY <2>1, <2>2 DEF StateSeen, Opened
    <3> QED BY <1>1, <1>3, <3>1, OutSame
  <2>3. CASE md.state # ch.last
    <3> DEFINE d == smd_state_change(ch, md.state)
    <3>1. ch' = d
      BY <2>1, <2>3 DEF StateSeen
    <3>2. /\ d \in ChannelTypes /\ d.pending = ch.pending
          /\ md.state = "OPENING" /\ ch.state \in {"CLOSING", "CLOSED"} => d.state = "OPENING"
          /\ md.state = "OPENED" /\ ch.state = "OPENING" =>
                d.state = "OPENED" /\ d.head = ch.head
          /\ md.state = "CLOSED" /\ ch.state = "OPENED" => d.state = "CLOSING"
          /\ ~ (md.state = "OPENING" /\ ch.state \in {"CLOSING", "CLOSED"})
             /\ ~ (md.state = "OPENED" /\ ch.state = "OPENING")
             /\ ~ (md.state = "CLOSED" /\ ch.state = "OPENED")
             /\ ~ (md.state = "CLOSING" /\ ch.state = "CLOSED") => d.state = ch.state
      BY <1>2, StateChange
    <3> HIDE DEF d, c, seen, data, f
    <3>3. ch.state # "CLOSED" /\ ch.state \in States
      BY <1>0, <1>1, <1>2 DEF Handshake, ChannelTypes
    <3>4. CASE md.state = "OPENED" /\ ch.state = "OPENING"
      <4>1. nextOut' = <<Len(outLen) + 1, 0>>
        BY <2>1, <3>1, <3>2, <3>4 DEF Opened
      <4> QED BY <1>1, <1>3, <3>1, <3>2, <3>4, <4>1, OutOpens
    <3>5. CASE ~ (md.state = "OPENED" /\ ch.state = "OPENING")
      <4>1. ~ (md'.state = "OPENED" /\ ch'.state = "OPENED")
        BY <1>2, <1>3, <1>5, <3>1, <3>2, <3>3, <3>5 DEF ch_is_open, States
      <4>2. nextOut' \in Nat \X Nat
        <5>1. nextOut \in Nat \X Nat /\ <<Len(outLen) + 1, 0>> \in Nat \X Nat
          BY LensFacts DEF OutStream
        <5> QED BY <2>1, <5>1 DEF Opened
      <4> QED BY <1>1, <1>3, <1>5, <3>1, <3>2, <4>1, <4>2, OutShut
    <3> QED BY <3>4, <3>5
  <2> QED BY <2>2, <2>3
<1> QED BY <1>4, <1>5

\* The steps that close the channel, or leave it closed
LEMMA OutClosed ==
    ASSUME Orderly, SInv, Lengths, OutStream,
           \/ handle_smd_irq_closing_list \/ finalize_channel_close_fn
           \/ smd_open \/ CloseSet \/ CloseCheck
    PROVE  OutStream'
<1> USE DEF SMD_SS_CLOSED, SMD_SS_OPENING, SMD_SS_OPENED, SMD_SS_CLOSING
<1>0. Handshake /\ CallOK /\ Types
  BY DEF SInv
<1>1. UNCHANGED <<md, sbuf, outLen>>
  BY DEF handle_smd_irq_closing_list, finalize_channel_close_fn, smd_open, CloseSet, CloseCheck
<1>2. nextOut' \in Nat \X Nat
  <2>1. nextOut \in Nat \X Nat /\ <<Len(outLen) + 1, 0>> \in Nat \X Nat
    BY LensFacts DEF OutStream
  <2> QED BY <2>1 DEF handle_smd_irq_closing_list, finalize_channel_close_fn, smd_open,
                      CloseSet, CloseCheck, Opened
<1>3. CASE handle_smd_irq_closing_list
  <2>1. /\ ch.list # "open" /\ call' = call
        /\ ch' = IF ch.list = "closing" THEN StateSeen(ch) ELSE ch
    BY <1>3 DEF handle_smd_irq_closing_list
  <2>2. ch.state = "CLOSED"
    BY <1>0, <2>1 DEF Handshake
  <2>3. ch'.state = "CLOSED" /\ ch'.pending = ch.pending
    <3>1. CASE ch' = ch
      BY <2>2, <3>1
    <3>2. CASE ch' # ch
      <4> DEFINE d == smd_state_change(ch, md.state)
      <4>1. ch' = d /\ ch.list = "closing"
        BY <2>1, <3>2 DEF StateSeen
      <4>2. md.state \in {"OPENED", "CLOSING"} /\ ch \in ChannelTypes /\ md.state \in States
        BY <1>0, <4>1 DEF Handshake, Types
      <4>3. /\ d.pending = ch.pending
            /\ md.state = "CLOSING" /\ ch.state = "CLOSED" => d.state = ch.state
            /\ md.state = "OPENED" /\ ch.state = "CLOSED" => d.state = ch.state
        BY <4>2, StateChange
      <4> HIDE DEF d
      <4> QED BY <2>2, <4>1, <4>2, <4>3
    <3> QED BY <3>1, <3>2
  <2>4. ~ ch_is_open(md, ch)
    BY <2>2 DEF ch_is_open
  <2> QED BY <1>1, <1>2, <2>1, <2>3, <2>4, OutShut
<1>4. CASE finalize_channel_close_fn
  <2>1. ch.list = "to_close" /\ ch' = [ch EXCEPT !.list = "closed"] /\ call' = call
    BY <1>4 DEF finalize_channel_close_fn
  <2>2. ch.state = "CLOSED" /\ ch'.state = "CLOSED" /\ ch'.pending = ch.pending
    BY <1>0, <2>1 DEF Handshake, Types, ChannelTypes
  <2>3. ~ ch_is_open(md, ch)
    BY <2>2 DEF ch_is_open
  <2> QED BY <1>1, <1>2, <2>1, <2>2, <2>3, OutShut
<1>5. CASE smd_open
  <2> DEFINE z == 0
             c == [ch EXCEPT !.list = "open", !.current = z]
  <2>1. call' = call /\ ch.list = "closed" /\ ch' = smd_state_change(c, "OPENING")
    BY <1>5 DEF smd_open
  <2>2. z \in Nat /\ ch.state = "CLOSED" /\ "OPENING" \in States
    BY <1>0, <2>1 DEF Handshake, States
  <2> HIDE DEF z
  <2>3. c \in ChannelTypes /\ c.state = "CLOSED" /\ c.pending = ch.pending
    BY <1>0, <2>2 DEF Types, ChannelTypes, ListNames
  <2> HIDE DEF c
  <2>4. ch'.state = "OPENING" /\ ch'.pending = ch.pending
    BY <2>1, <2>2, <2>3, StateChange
  <2>5. ~ ch_is_open(md, ch)
    BY <2>2 DEF ch_is_open
  <2> QED BY <1>1, <1>2, <2>1, <2>4, <2>5, OutShut
<1>6. CASE CloseSet
  <2>1. /\ ch.pending = 0 /\ call' = [NoCall EXCEPT !.op = "close"]
        /\ ch' = [ch EXCEPT !.list = "none", !.state = "CLOSED"]
    BY <1>6 DEF CloseSet
  <2>2. ch'.state = "CLOSED" /\ ch'.pending = ch.pending
    BY <1>0, <2>1 DEF Types, ChannelTypes
  <2>3. call'.op = "close" /\ call'.word \in Nat \X Nat
    BY <2>1 DEF NoCall
  <2> QED BY <1>1, <1>2, <2>1, <2>2, <2>3, OutShut
<1>7. CASE CloseCheck
  <2>1. /\ call.op = "close" /\ call' = NoCall
        /\ ch' = [ch EXCEPT !.list = IF md.state = "OPENED" THEN "closing" ELSE "closed"]
    BY <1>7 DEF CloseCheck
  <2>2. ch.state = "CLOSED" /\ ch'.state = "CLOSED" /\ ch'.pending = ch.pending
    BY <1>0, <2>1 DEF Types, ChannelTypes, CallOK, Handshake
  <2>3. ch.pending = 0
    BY <2>1, <2>2 DEF OutStream, OutPending, ch_is_open
  <2>4. call'.op = "none" /\ call'.word \in Nat \X Nat
    BY <2>1 DEF NoCall
  <2> QED BY <1>1, <1>2, <2>2, <2>3, <2>4, OutShut
<1> QED BY <1>3, <1>4, <1>5, <1>6, <1>7

\* The steps of the reader, and the modem's changes of state
LEMMA OutOther ==
    ASSUME Orderly, SInv, OutStream,
           \/ ReadCopy \/ ch_read_done \/ ReadEnd \/ Drained
           \/ \E len \in Lens : ReadBegin(len)
           \/ ModemOpens \/ ModemOpened \/ ModemCloses \/ ModemAcks \/ ModemWrites
    PROVE  OutStream'
<1> USE DEF SMD_SS_CLOSED, SMD_SS_OPENING, SMD_SS_OPENED, SMD_SS_CLOSING
<1>0. Types /\ CallOK /\ Handshake
  BY DEF SInv
<1>1. UNCHANGED <<sbuf, outLen, nextOut>>
  BY DEF ReadCopy, ch_read_done, ReadEnd, Drained, ReadBegin, ModemOpens, ModemOpened,
         ModemCloses, ModemAcks, ModemWrites
<1>2. nextOut' \in Nat \X Nat /\ call.word \in Nat \X Nat
  BY <1>1 DEF OutStream
<1>3. CASE ModemOpens
  <2> DEFINE w == <<Len(inLen) + 1, 0>>
  <2>1. /\ md' = [md EXCEPT !.state = "OPENING", !.head = 0, !.tail = 0, !.word = w]
        /\ UNCHANGED <<call, ch>> /\ md.state # "OPENED"
    BY <1>3 DEF ModemOpens, ModemSets
  <2> HIDE DEF w
  <2>2. md'.state = "OPENING" /\ ~ ch_is_open(md, ch)
    BY <1>0, <2>1 DEF Types, ch_is_open
  <2> QED BY <1>1, <1>2, <2>1, <2>2, OutShut
<1>4. CASE ModemOpened \/ ModemCloses \/ ModemAcks
  <2>1. PICK new \in States :
          /\ md' = [md EXCEPT !.state = new] /\ UNCHANGED <<ch, call>>
          /\ \/ md.state = "OPENING" /\ ch.state = "OPENING" /\ new = "OPENED"
             \/ /\ md.state = "OPENED" /\ ch.state = "OPENED" /\ call = NoCall /\ new = "CLOSED"
                /\ ch.pending = 0
             \/ md.state = "OPENED" /\ ch.state = "CLOSED" /\ new = "CLOSING"
    BY <1>4 DEF ModemOpened, ModemCloses, ModemAcks, ModemSets, States
  <2>2. md'.state = new
    BY <1>0, <2>1 DEF Types
  <2>3. CASE md.state = "OPENED" /\ ch.state = "OPENED"
    <3>1. call'.op = "none" /\ ch.pending = 0 /\ new = "CLOSED"
      BY <2>1, <2>3 DEF NoCall
    <3> QED BY <1>1, <1>2, <2>1, <2>2, <3>1, OutShut
  <2>4. CASE ~ (md.state = "OPENED" /\ ch.state = "OPENED")
    <3>1. ~ ch_is_open(md, ch) /\ ~ (new = "OPENED" /\ ch.state = "OPENED")
      BY <2>1, <2>4 DEF ch_is_open
    <3> QED BY <1>1, <1>2, <2>1, <2>2, <3>1, OutShut
  <2> QED BY <2>3, <2>4
<1>5. CASE ModemWrites
  <2> DEFINE h == mask(md.head + 1)
             w == Succ(inLen', md.word)
  <2>1. /\ md' = [md EXCEPT !.head = h, !.word = w, !.flag = TRUE]
        /\ UNCHANGED <<ch, call>>
    BY <1>5 DEF ModemWrites, ModemSets
  <2> HIDE DEF h, w
  <2>2. md'.state = md.state /\ md'.tail = md.tail
    BY <1>0, <2>1 DEF Types
  <2> QED BY <1>1, <2>1, <2>2, OutSame
<1>6. CASE Drained
  <2>1. UNCHANGED <<ch, md, call>>
    BY <1>6 DEF Drained
  <2> QED BY <1>1, <2>1, OutSame
<1>7. CASE \E len \in Lens : ReadBegin(len)
  <2>1. PICK len \in Lens : ReadBegin(len)
    BY <1>7
  <2> DEFINE m == Min({len, ch.current})
  <2>2. /\ call = NoCall /\ call' = [NoCall EXCEPT !.op = "read", !.rest = m]
        /\ UNCHANGED <<ch, md>>
    BY <2>1 DEF ReadBegin
  <2> HIDE DEF m
  <2>3. call.op = "none" /\ call'.op = "read" /\ call'.word \in Nat \X Nat
    BY <2>2 DEF NoCall
  <2> QED BY <1>1, <2>2, <2>3, OutSame
<1>8. CASE ReadCopy
  <2> DEFINE m == Min({ch_read_buffer, call.rest})
  <2>1. /\ call.op = "read" /\ call' = [call EXCEPT !.op = "copied", !.n = m]
        /\ UNCHANGED <<ch, md>>
    BY <1>8 DEF ReadCopy
  <2> HIDE DEF m
  <2>2. call'.op = "copied" /\ call'.word = call.word
    BY <1>0, <2>1 DEF Types, CallFields
  <2> QED BY <1>1, <1>2, <2>1, <2>2, OutSame
<1>9. CASE ch_read_done
  <2> DEFINE t == mask(ch.tail + call.n)
             a == call.rest - call.n
             b == call.r + call.n
  <2>1. /\ call.op = "copied"
        /\ call' = [call EXCEPT !.op = "read", !.rest = a, !.n = 0, !.r = b]
        /\ ch' = [ch EXCEPT !.tail = t]
        /\ UNCHANGED md
    BY <1>9 DEF ch_read_done
  <2> HIDE DEF t, a, b
  <2>2. call'.op = "read" /\ call'.word = call.word
    BY <1>0, <2>1 DEF Types, CallFields
  <2>3. ch'.state = ch.state /\ ch'.head = ch.head /\ ch'.pending = ch.pending
    BY <1>0, <2>1 DEF Types, ChannelTypes
  <2> QED BY <1>1, <1>2, <2>1, <2>2, <2>3, OutSame
<1>10. CASE ReadEnd
  <2> DEFINE y == Minus(ch.current, call.r)
             c == [ch EXCEPT !.current = y]
             d == update_packet_state(c)
  <2>1. call.op = "read" /\ call' = NoCall /\ ch' = d /\ UNCHANGED md
    BY <1>10 DEF ReadEnd
  <2>2. y \in Nat
    BY <1>0, SmdAssumption DEF Minus, Types, ChannelTypes
  <2> HIDE DEF y
  <2>3. /\ c \in ChannelTypes /\ c.tail = ch.tail /\ c.state = ch.state /\ c.head = ch.head
        /\ c.pending = ch.pending
    BY <1>0, <2>2 DEF Types, ChannelTypes
  <2> HIDE DEF c
  <2>4. \A o \in Offsets : Inside(c.tail, md.head, o) => rbuf[o][1] \in DOMAIN inLen
    BY <1>0, <2>1, <2>3 DEF SInv, WordsOK, CallOK
  <2>5. d.state = c.state /\ d.head = c.head /\ d.pending = c.pending
    BY <1>0, <2>3, <2>4, HeaderTaken
  <2> HIDE DEF d
  <2>6. call'.op = "none" /\ call'.word \in Nat \X Nat
    BY <2>1 DEF NoCall
  <2> QED BY <1>1, <2>1, <2>3, <2>5, <2>6, OutSame
<1> QED BY <1>3, <1>4, <1>5, <1>6, <1>7, <1>8, <1>9, <1>10

LEMMA OutModemReads ==
    ASSUME SInv, OutStream, Lengths, ModemReads
    PROVE  OutStream'
<1> USE DEF SMD_SS_CLOSED, SMD_SS_OPENING, SMD_SS_OPENED, SMD_SS_CLOSING
<1>0. Types /\ CallOK
  BY DEF SInv
<1> DEFINE t == md.tail
           u == mask(t + 1)
           n == Between(t, ch.head)
<1>1. /\ md.state = "OPENED" /\ ch.state = "OPENED" /\ t # ch.head
      /\ md' = [md EXCEPT !.tail = u, !.flag = TRUE]
      /\ nextOut' = Succ(outLen, sbuf[t])
      /\ UNCHANGED <<ch, sbuf, call, outLen>>
  BY DEF ModemReads, ModemSets, ch_is_open
<1>2. /\ t \in Offsets /\ ch.head \in Offsets /\ n \in Nat /\ n < Size /\ 1 \in 0..n
      /\ Size \in Nat
  <2>1. t \in Offsets /\ ch.head \in Offsets
    BY <1>0 DEF Types, ChannelTypes
  <2>2. n \in Nat /\ n < Size
    BY <2>1, BetweenPlace
  <2>3. n # 0
    BY <1>1, <2>1, SmdAssumption DEF Between, Offsets
  <2> QED BY <2>1, <2>2, <2>3, SmdAssumption
<1>3. u \in Offsets /\ Between(u, ch.head) = n - 1
  <2>1. 1 \in Nat /\ 1 <= Between(t, ch.head)
    BY <1>2
  <2> QED BY <1>2, <2>1, TailMoves
<1>4. Run(sbuf, t, n, nextOut, OutWord, outLen) /\ outLen \in Seq(Nat \ {0})
  BY <1>1, LensFacts DEF OutStream, OutRun, ch_is_open
<1>5. /\ Valid(outLen, sbuf[t]) /\ Word(sbuf, t, n, OutWord, 1) = Succ(outLen, sbuf[t])
  <2>1. 0 \in 0..(n - 1) /\ 0 + 1 = 1 /\ t + 0 = t
    BY <1>2 DEF Offsets
  <2>2. mask(t) = t
    BY <1>2, MaskValue DEF Offsets
  <2>3. /\ Valid(outLen, sbuf[mask(t + 0)])
        /\ Word(sbuf, t, n, OutWord, 0 + 1) = Succ(outLen, sbuf[mask(t + 0)])
    <3> HIDE DEF n, t
    <3> QED BY <1>4, <2>1 DEF Run
  <2> QED BY <2>1, <2>2, <2>3
<1>6. nextOut' \in Nat \X Nat
  BY <1>1, <1>4, <1>5, ValidWord
<1>7. Run(sbuf, u, n - 1, nextOut', OutWord, outLen)
  <2> DEFINE v == OutWord
             x == nextOut'
             m == 1
  <2>1. /\ Run(sbuf, t, n, nextOut, v, outLen) /\ m \in 0..n /\ x = Word(sbuf, t, n, v, m)
    BY <1>1, <1>2, <1>4, <1>5
  <2> HIDE DEF v, x, m, n, t
  <2>2. Run(sbuf, mask(t + m), n - m, x, v, outLen)
    BY <1>2, <2>1, RunPop
  <2> QED BY <2>2 DEF v, x, m
<1> HIDE DEF u, n
<1>8. md'.state = md.state /\ md'.tail = u
  BY <1>0, <1>1 DEF Types
<1>9. /\ Writes' = Writes /\ OutWord' = OutWord /\ Needed' = Needed
      /\ ch_is_open(md, ch) /\ ch_is_open(md, ch)'
  BY <1>1, <1>8 DEF Writes, OutWord, Needed, ch_is_open
<1>10. OutRun'
  BY <1>1, <1>3, <1>7, <1>8, <1>9 DEF OutRun
<1>11. OutPending' /\ OutSegment' /\ OutStored'
  BY <1>1, <1>9 DEF OutStream, OutPending, OutSegment, OutStored
<1>12. OutPacket'
  <2>1. Writes /\ call.kind # "segment" => Needed' <= Size - 1 - Between(md'.tail, ch'.head)
    <3>1. Writes /\ call.kind # "segment" => Needed <= Size - 1 - n /\ Needed \in Int
      <4>1. Writes /\ call.kind # "segment" => Needed <= Size - 1 - n /\ call.len \in Lens
        BY <1>9 DEF OutStream, OutPacket, n
      <4>2. Header \in Nat /\ call.r \in Nat /\ Lens \subseteq Nat
        BY <1>0, SmdAssumption DEF Types
      <4>3. ASSUME call.len \in Lens PROVE Needed \in Int
        <5>1. call.len \in Nat
          BY <4>2, <4>3
        <5>2. Header + call.len - call.r \in Int /\ Header - call.r \in Int
          BY <4>2, <5>1
        <5> QED BY <5>2 DEF Needed
      <4> QED BY <4>1, <4>3
    <3> QED BY <1>1, <1>2, <1>3, <1>8, <1>9, <3>1
  <2> QED BY <1>1, <1>9, <2>1 DEF OutStream, OutPacket
<1> QED BY <1>1, <1>6, <1>10, <1>11, <1>12 DEF OutStream

LEMMA OutWriteBegin ==
    ASSUME SInv, OutStream, Lengths, NEW kind \in {"packet", "start"}, NEW len \in Lens,
           WriteBegin(kind, len)
    PROVE  OutStream'
<1>0. Types
  BY DEF SInv
<1> DEFINE w == <<Len(outLen) + 1, 0>>
           n == Between(md.tail, ch.head)
<1>1. /\ call = NoCall /\ ch.pending = 0 /\ Len(outLen) < MaxOut
      /\ smd_stream_write_avail >= (IF kind = "start" THEN Header ELSE Header + len)
      /\ call' = [NoCall EXCEPT !.op = "write", !.kind = kind, !.len = len,
                     !.rest = Header, !.word = w]
      /\ ch' = IF kind = "start" THEN [ch EXCEPT !.pending = len] ELSE ch
      /\ UNCHANGED <<md, sbuf, outLen, nextOut>>
  BY DEF WriteBegin, WriteAllowed
<1>2. /\ w \in Nat \X Nat /\ w[1] = Len(outLen) + 1 /\ w[2] = 0 /\ Norm(outLen, w) = w
  <2>1. outLen \in Seq(Nat \ {0}) /\ Len(outLen) \in Nat /\ 0 \in Nat
    BY LensFacts
  <2>2. Norm(outLen, <<Len(outLen) + 1, 0>>) = <<Len(outLen) + 1, 0>>
    BY <2>1, LastWord
  <2> QED BY <2>1, <2>2
<1>3. /\ len \in Nat \ {0} /\ Header \in Nat \ {0} /\ Size \in Nat /\ n \in 0..(Size - 1)
      /\ smd_stream_write_avail = Size - 1 - n
  BY <1>0, SmdAssumption, Avail
<1> HIDE DEF w
<1>4. /\ call'.op = "write" /\ call'.kind = kind /\ call'.len = len /\ call'.rest = Header
      /\ call'.r = 0 /\ call'.word = w /\ call.op = "none"
  BY <1>1 DEF NoCall
<1>5. /\ ch'.head = ch.head /\ ch'.state = ch.state
      /\ ch'.pending = IF kind = "start" THEN len ELSE 0
  BY <1>0, <1>1 DEF Types, ChannelTypes
<1>6. ch_is_open(md, ch)' <=> ch_is_open(md, ch)
  BY <1>1, <1>5 DEF ch_is_open
<1>7. Writes' /\ ~ Writes /\ OutWord' = w /\ OutWord = w
  BY <1>1, <1>2, <1>4 DEF Writes, OutWord, w
<1>8. OutPending' /\ OutSegment' /\ OutStored'
  BY <1>3, <1>4, <1>5, <1>7 DEF OutPending, OutSegment, OutStored
<1>9. OutPacket'
  <2>1. Needed' <= Size - 1 - n /\ Needed' <= Size - 1
    BY <1>1, <1>3, <1>4 DEF Needed
  <2>2. Between(md'.tail, ch'.head) = n
    BY <1>1, <1>5
  <2> QED BY <1>1, <1>2, <1>3, <1>4, <1>5, <1>6, <2>1, <2>2 DEF OutPacket
<1>10. ch_is_open(md, ch) => OutRun'
  BY <1>1, <1>5, <1>7 DEF OutStream, OutRun
<1> QED BY <1>1, <1>2, <1>4, <1>6, <1>8, <1>9, <1>10 DEF OutStream

LEMMA OutSegmentBegin ==
    ASSUME SInv, OutStream, Lengths, NEW len \in Lens, SegmentBegin(len)
    PROVE  OutStream'
<1>0. Types
  BY DEF SInv
<1> DEFINE p == Len(outLen)
           k == Header + outLen[p] - ch.pending
           w == <<p, k>>
<1>1. /\ call = NoCall /\ len <= ch.pending
      /\ call' = [NoCall EXCEPT !.op = "write", !.kind = "segment", !.rest = len, !.word = w]
      /\ UNCHANGED <<ch, md, sbuf, outLen, nextOut>>
  BY DEF SegmentBegin
<1>2. call.op = "none" /\ len \in Nat \ {0} /\ ch.pending \in Nat /\ Header \in Nat
  BY <1>1, SmdAssumption DEF NoCall, OutStream, OutPending
<1>3. ch.pending > 0
  BY <1>1, <1>2
<1>4. ch_is_open(md, ch) /\ p > 0 /\ ch.pending <= outLen[p]
  BY <1>2, <1>3 DEF OutStream, OutPending, Writes
<1>5. p \in DOMAIN outLen /\ outLen[p] \in Nat \ {0} /\ p \in Nat
  BY <1>4, LensFacts, LastWord
<1>6. k \in Nat /\ k < Header + outLen[p]
  BY <1>2, <1>3, <1>4, <1>5
<1>7. w \in Nat \X Nat /\ Norm(outLen, w) = w
  <2> HIDE DEF k
  <2> QED BY <1>4, <1>5, <1>6, LensFacts, LastWord
<1>8. OutWord = w
  BY <1>2, <1>3 DEF OutWord, Writes
<1>9. w = <<Len(outLen), Header + outLen[Len(outLen)] - ch.pending>>
  OBVIOUS
<1>10. w = <<p, k + 0>>
  BY <1>6
<1> HIDE DEF w
<1>11. /\ call'.op = "write" /\ call'.kind = "segment" /\ call'.rest = len /\ call'.r = 0
       /\ call'.word = w
  BY <1>1 DEF NoCall
<1>12. Writes' /\ OutWord' = w
  BY <1>1, <1>7, <1>11 DEF Writes, OutWord
<1>13. OutPending' /\ OutStored' /\ OutPacket'
  BY <1>1, <1>2, <1>4, <1>11, <1>12 DEF OutPending, OutStored, OutPacket, ch_is_open
<1>14. OutSegment'
  BY <1>1, <1>2, <1>4, <1>10, <1>11 DEF OutSegment, ch_is_open
<1>15. OutRun'
  BY <1>1, <1>4, <1>8, <1>12 DEF OutStream, OutRun
<1> QED BY <1>1, <1>7, <1>11, <1>13, <1>14, <1>15 DEF OutStream

\* The next word goes behind the last one, whatever the call: how many of its
\* words the packet can still take.
LEMMA CallWord ==
    ASSUME SInv, Lengths, OutStream, Writes, NEW p, p = call.word[1], NEW k, k = call.word[2]
    PROVE  /\ call.word = <<p, k>> /\ p \in Nat /\ k \in Nat /\ call.rest \in Nat
           /\ IF call.kind # "segment" /\ call.r = 0 /\ call.op = "write"
              THEN /\ p = Len(outLen) + 1 /\ k = 0 /\ call.len \in Lens /\ Len(outLen) < MaxOut
                   /\ call.rest <= Header + call.len
              ELSE /\ p = Len(outLen) /\ p \in DOMAIN outLen /\ outLen[p] \in Nat \ {0}
                   /\ k + call.rest <= Header + outLen[p]
<1>1. call.word \in Nat \X Nat /\ call.rest \in Nat /\ call.r \in Nat /\ Header \in Nat
  BY SmdAssumption DEF OutStream, SInv, Types
<1>2. call.word = <<p, k>> /\ p \in Nat /\ k \in Nat
  BY <1>1, PairWord
<1>3. CASE call.kind = "segment"
  <2>1. /\ call.r + call.rest <= ch.pending /\ Len(outLen) > 0 /\ ch.pending \in Nat
        /\ p = Len(outLen) /\ k = Header + outLen[Len(outLen)] - ch.pending + call.r
    BY <1>3 DEF OutStream, OutSegment, OutPending
  <2>2. p \in DOMAIN outLen /\ outLen[p] \in Nat \ {0}
    BY <2>1, LensFacts, LastWord
  <2>3. k + call.rest <= Header + outLen[p]
    BY <1>1, <2>1, <2>2
  <2> QED BY <1>1, <1>2, <1>3, <2>1, <2>2, <2>3
<1>4. CASE call.kind # "segment"
  <2>1. /\ call.kind \in {"packet", "start"} /\ call.len \in Lens /\ k = call.r
        /\ IF call.r = 0 /\ call.op = "write"
           THEN p = Len(outLen) + 1 /\ Len(outLen) < MaxOut
           ELSE p = Len(outLen) /\ Len(outLen) > 0 /\ outLen[p] = call.len
        /\ call.kind = "packet" =>
              /\ call.r < Header => call.rest = Header - call.r
              /\ call.r = Header => call.rest \in {0, call.len}
              /\ call.r > Header => call.rest = Header + call.len - call.r
        /\ call.kind = "start" => call.rest = Header - call.r
    BY <1>4 DEF OutStream, OutPacket
  <2>2. call.len \in Nat \ {0}
    BY <2>1, SmdAssumption
  <2>3. k + call.rest <= Header + call.len
    BY <1>1, <2>1, <2>2
  <2>4. CASE call.r = 0 /\ call.op = "write"
    BY <1>1, <1>2, <1>4, <2>1, <2>2, <2>3, <2>4
  <2>5. CASE ~ (call.r = 0 /\ call.op = "write")
    <3>1. p \in DOMAIN outLen /\ outLen[p] \in Nat \ {0}
      BY <2>1, <2>5, LensFacts, LastWord
    <3> QED BY <1>1, <1>2, <2>1, <2>3, <2>5, <3>1
  <2> QED BY <2>4, <2>5
<1> QED BY <1>3, <1>4

LEMMA OutWriteCopy ==
    ASSUME SInv, OutStream, Lengths, WriteCopy
    PROVE  OutStream' /\ Lengths'
<1>0. Types /\ CallOK
  BY DEF SInv
<1> DEFINE m == Min({ch_write_buffer, call.rest})
           p == call.word[1]
           k == call.word[2]
           t == md.tail
           h == ch.head
           n == Between(t, h)
<1>1. /\ call.op = "write" /\ ch_is_open(md, ch) /\ m > 0
      /\ sbuf' = [o \in 0..(Size - 1) |->
                    IF o \in h..(h + m - 1) THEN <<p, k + o - h>> ELSE sbuf[o]]
      /\ call' = [call EXCEPT !.op = "stored", !.n = m]
      /\ outLen' = IF call.word = <<Len(outLen) + 1, 0>> THEN Append(outLen, call.len) ELSE outLen
      /\ UNCHANGED <<ch, md, nextOut, inLen>>
  BY DEF WriteCopy
<1>2. /\ m \in Nat /\ m <= call.rest /\ t \in Offsets /\ h \in Offsets /\ Size \in Nat
      /\ m <= Size - 1 - n /\ h + m <= Size /\ n \in Nat /\ n < Size
  <2>1. /\ ch_write_buffer \in Nat /\ n \in 0..(Size - 1) /\ ch_write_buffer <= Size - 1 - n
    BY <1>0, Avail
  <2>2. m \in Nat /\ m <= ch_write_buffer /\ m <= call.rest
    BY <1>0, <2>1, MinTwo DEF Types
  <2>3. t \in Offsets /\ h \in Offsets /\ Size \in Nat
    BY <1>0, SmdAssumption DEF Types, ChannelTypes
  <2>4. ch_write_buffer + h <= Size
    BY <2>3 DEF ch_write_buffer, Offsets
  <2> HIDE DEF m, n, h, t
  <2> QED BY <2>1, <2>2, <2>3, <2>4 DEF Offsets
<1> HIDE DEF m
<1>3. /\ call'.op = "stored" /\ call'.n = m /\ call'.kind = call.kind /\ call'.r = call.r
      /\ call'.rest = call.rest /\ call'.len = call.len /\ call'.word = call.word
  BY <1>0, <1>1 DEF Types, CallFields
<1>4. Writes /\ Writes' /\ Needed' = Needed /\ ch_is_open(md, ch)'
  BY <1>1, <1>3 DEF Writes, Needed, ch_is_open
<1>5. /\ call.word = <<p, k>> /\ p \in Nat /\ k \in Nat /\ call.rest \in Nat
      /\ IF call.kind # "segment" /\ call.r = 0
         THEN /\ p = Len(outLen) + 1 /\ k = 0 /\ call.len \in Lens /\ Len(outLen) < MaxOut
              /\ call.rest <= Header + call.len
         ELSE /\ p = Len(outLen) /\ p \in DOMAIN outLen /\ outLen[p] \in Nat \ {0}
              /\ k + call.rest <= Header + outLen[p]
  BY <1>1, <1>4, CallWord
<1>6. outLen \in Seq(Nat \ {0}) /\ Len(outLen) \in Nat /\ outLen \in Seq(Lens) /\ Lens \subseteq Nat \ {0}
  BY LensFacts, SmdAssumption DEF Lengths
<1>7. /\ outLen' \in Seq(Lens) /\ outLen' \in Seq(Nat \ {0}) /\ Len(outLen') <= MaxOut
      /\ p = Len(outLen') /\ p > 0 /\ p \in DOMAIN outLen'
      /\ call.kind # "segment" /\ call.r = 0 => outLen'[p] = call.len
      /\ ~ (call.kind # "segment" /\ call.r = 0) => outLen' = outLen
      /\ k < Header + outLen'[p] /\ Norm(outLen', call.word) = call.word
      /\ Run(sbuf, t, n, nextOut, call.word, outLen')
  <2>1. Run(sbuf, t, n, nextOut, OutWord, outLen)
    BY <1>1 DEF OutStream, OutRun
  <2>2. Header \in Nat \ {0}
    BY SmdAssumption
  <2>3. OutWord = Norm(outLen, call.word)
    BY <1>4 DEF OutWord
  <2> HIDE DEF n, p, k, t, h
  <2>4. CASE call.kind # "segment" /\ call.r = 0
    <3>1. call.word = <<Len(outLen) + 1, 0>> /\ k = 0 /\ p = Len(outLen) + 1 /\ call.len \in Lens
      BY <1>5, <2>4
    <3>2. outLen' = Append(outLen, call.len) /\ call.len \in Nat \ {0}
      BY <1>1, <1>6, <3>1
    <3>3. OutWord = call.word
      BY <1>6, <2>3, <3>1, LastWord
    <3>4. Run(sbuf, t, n, nextOut, call.word, outLen')
      BY <1>2, <1>6, <2>1, <3>2, <3>3, RunLens
    <3>5. /\ outLen' \in Seq(Lens) /\ outLen' \in Seq(Nat \ {0}) /\ Len(outLen') = Len(outLen) + 1
          /\ outLen'[Len(outLen) + 1] = call.len
      BY <1>6, <3>1, <3>2
    <3>6. p = Len(outLen') /\ p > 0 /\ outLen'[p] = call.len /\ p \in DOMAIN outLen'
      BY <1>6, <3>1, <3>5
    <3>7. Len(outLen') <= MaxOut
      BY <1>5, <1>6, <2>4, <3>5, SmdAssumption
    <3>8. k < Header + outLen'[p]
      BY <2>2, <3>1, <3>2, <3>6
    <3>9. Norm(outLen', <<p, k>>) = <<p, k>>
      <4> DEFINE l == outLen'
      <4>1. l \in Seq(Nat \ {0}) /\ p \in DOMAIN l /\ k \in Nat /\ k < Header + l[p]
        BY <1>5, <3>5, <3>6, <3>8
      <4> HIDE DEF l
      <4>2. Norm(l, <<p, k>>) = <<p, k>>
        BY ONLY <4>1, SuccWord
      <4> QED BY <4>2 DEF l
    <3>10. Norm(outLen', call.word) = call.word
      BY <1>5, <3>9
    <3> QED BY <2>4, <3>4, <3>5, <3>6, <3>7, <3>8, <3>10
  <2>5. CASE ~ (call.kind # "segment" /\ call.r = 0)
    <3>1. p = Len(outLen) /\ p \in DOMAIN outLen /\ k + call.rest <= Header + outLen[p]
          /\ outLen[p] \in Nat \ {0}
      BY <1>5, <2>5
    <3>2. call.word # <<Len(outLen) + 1, 0>>
      BY <1>5, <1>6, <3>1
    <3>3. outLen' = outLen
      BY <1>1, <3>2
    <3>4. k < Header + outLen[p] /\ p > 0
      <4>1. /\ k \in Nat /\ call.rest \in Nat /\ m \in Nat /\ m > 0 /\ m <= call.rest
            /\ k + call.rest <= Header + outLen[p] /\ Header \in Nat /\ outLen[p] \in Nat
        BY <1>1, <1>2, <1>5, <2>2, <3>1
      <4>2. k < Header + outLen[p]
        BY ONLY <4>1
      <4>3. p \in 1..Len(outLen)
        BY <1>6, <3>1
      <4> QED BY <1>6, <4>2, <4>3
    <3>5. Norm(outLen, call.word) = call.word
      <4>1. Norm(outLen, <<p, k>>) = <<p, k>>
        BY ONLY <1>5, <1>6, <3>1, <3>4, SuccWord
      <4> QED BY <1>5, <4>1
    <3> QED BY <1>6, <2>1, <2>3, <2>5, <3>1, <3>3, <3>4, <3>5 DEF Lengths
  <2> QED BY <2>4, <2>5
<1>8. Lengths'
  BY <1>1, <1>7 DEF Lengths
<1>9. /\ DOMAIN sbuf' = Offsets
      /\ \A i \in 0..(n - 1) : sbuf'[mask(t + i)] = sbuf[mask(t + i)]
      /\ \A i \in 0..(m - 1) : sbuf'[mask(h + i)] = <<p, k + i>>
  <2>1. \A i \in 0..(m - 1) : mask(h + i) = h + i /\ h + i \in 0..(Size - 1)
    <3> SUFFICES ASSUME NEW i \in 0..(m - 1)
                 PROVE  mask(h + i) = h + i /\ h + i \in 0..(Size - 1)
      OBVIOUS
    <3>1. h + i \in 0..(Size - 1) /\ i \in 0..Size /\ h + i < Size
      BY <1>2 DEF Offsets
    <3> QED BY <1>2, <3>1, MaskSum
  <2>2. \A i \in 0..(m - 1) : sbuf'[mask(h + i)] = <<p, k + i>>
    <3> SUFFICES ASSUME NEW i \in 0..(m - 1) PROVE sbuf'[mask(h + i)] = <<p, k + i>>
      OBVIOUS
    <3> DEFINE o == h + i
    <3>1. o \in 0..(Size - 1) /\ mask(h + i) = o /\ o \in h..(h + m - 1) /\ k + o - h = k + i
      <4>1. mask(h + i) = o /\ o \in 0..(Size - 1)
        BY <2>1
      <4>2. h \in Int /\ m \in Nat /\ k \in Int /\ i \in 0..(m - 1)
        BY <1>2, <1>5 DEF Offsets
      <4> HIDE DEF h, k
      <4>3. o \in h..(h + m - 1) /\ k + o - h = k + i
        BY <4>2
      <4> QED BY <4>1, <4>3
    <3> HIDE DEF o
    <3>2. sbuf'[o] = <<p, k + o - h>>
      BY <1>1, <3>1
    <3> QED BY <3>1, <3>2
  <2>3. \A i \in 0..(n - 1) : sbuf'[mask(t + i)] = sbuf[mask(t + i)]
    <3> SUFFICES ASSUME NEW i \in 0..(n - 1) PROVE sbuf'[mask(t + i)] = sbuf[mask(t + i)]
      OBVIOUS
    <3> DEFINE o == mask(t + i)
    <3>1. o \in Offsets /\ \A j \in 0..(m - 1) : o # mask(h + j)
      BY <1>2, BetweenPlace, RoomFacts
    <3> HIDE DEF o
    <3>2. o \in 0..(Size - 1) /\ o \notin h..(h + m - 1)
      <4>1. o \in 0..(Size - 1)
        BY <3>1 DEF Offsets
      <4>2. ASSUME o \in h..(h + m - 1) PROVE FALSE
        <5> DEFINE j == o - h
        <5>1. j \in 0..(m - 1) /\ h + j = o
          BY <1>2, <4>1, <4>2 DEF Offsets
        <5> HIDE DEF j
        <5> QED BY <2>1, <3>1, <5>1
      <4> QED BY <4>1, <4>2
    <3>3. sbuf'[o] = sbuf[o]
      BY <1>1, <3>2
    <3> QED BY <3>3 DEF o
  <2>4. DOMAIN sbuf' = Offsets
    BY <1>1 DEF Offsets
  <2> QED BY <2>2, <2>3, <2>4
<1>10. OutWord' = call.word
  <2>1. OutWord' = Norm(outLen', call'.word)
    BY <1>4 DEF OutWord
  <2> QED BY <1>3, <1>7, <2>1
<1>11. OutRun'
  <2> DEFINE b == sbuf
             c == sbuf'
             l == outLen'
             v == call.word
             x == nextOut
  <2>1. /\ Run(b, t, n, x, v, l) /\ n \in Nat
        /\ \A i \in 0..(n - 1) : c[mask(t + i)] = b[mask(t + i)]
    BY <1>2, <1>7, <1>9
  <2> HIDE DEF b, c, l, v, x, n, t, h
  <2>2. Run(c, t, n, x, v, l)
    BY ONLY <2>1, RunSame
  <2>3. n = Between(md'.tail, ch'.head) /\ t = md'.tail /\ nextOut' = nextOut
    BY <1>1 DEF n, t, h
  <2> QED BY <1>10, <2>2, <2>3 DEF OutRun, c, l, v, x
<1>12. OutStored'
  BY <1>1, <1>2, <1>3, <1>9 DEF OutStored
<1>13. OutSegment'
  <2>1. call.kind = "segment" => outLen' = outLen
    BY <1>7
  <2> QED BY <1>1, <1>3, <1>4, <2>1 DEF OutStream, OutSegment
<1>14. OutPacket'
  <2> SUFFICES ASSUME call.kind # "segment" PROVE OutPacket'
    BY <1>3 DEF OutPacket
  <2>1. /\ call.kind \in {"packet", "start"} /\ call.len \in Lens /\ call.word[2] = call.r
        /\ call.r # 0 => outLen[Len(outLen)] = call.len
        /\ call.kind = "packet" =>
              /\ ch.pending = 0
              /\ call.r < Header => call.rest = Header - call.r
              /\ call.r = Header => call.rest \in {0, call.len}
              /\ call.r > Header => call.rest = Header + call.len - call.r
        /\ call.kind = "start" => ch.pending = call.len /\ call.rest = Header - call.r
        /\ Needed <= Size - 1 - Between(md.tail, ch.head)
    BY <1>1, <1>4 DEF OutStream, OutPacket
  <2>2. call.word[1] = Len(outLen') /\ Len(outLen') > 0 /\ outLen'[Len(outLen')] = call.len
    <3>1. CASE call.r = 0
      BY <1>7, <3>1
    <3>2. CASE call.r # 0
      <4>1. outLen' = outLen
        BY <1>7, <3>2
      <4> QED BY <1>7, <2>1, <3>2, <4>1
    <3> QED BY <3>1, <3>2
  <2> QED BY <1>1, <1>3, <1>4, <2>1, <2>2 DEF OutPacket
<1>15. OutPending'
  <2>1. call.kind = "segment" => outLen' = outLen /\ Len(outLen) > 0 /\ ch.pending <= outLen[Len(outLen)]
    BY <1>4, <1>7 DEF OutStream, OutSegment
  <2>2. ch.pending \in Nat
    BY DEF OutStream, OutPending
  <2> QED BY <1>1, <1>3, <1>4, <2>1, <2>2 DEF OutPending
<1>16. call'.word \in Nat \X Nat /\ nextOut' \in Nat \X Nat
  BY <1>1, <1>3 DEF OutStream
<1> QED BY <1>8, <1>9, <1>11, <1>12, <1>13, <1>14, <1>15, <1>16 DEF OutStream

LEMMA OutWriteDone ==
    ASSUME SInv, OutStream, Lengths, ch_write_done
    PROVE  OutStream'
<1>0. Types /\ CallOK
  BY DEF SInv
<1> DEFINE m == call.n
           p == call.word[1]
           k == call.word[2]
           t == md.tail
           h == ch.head
           n == Between(t, h)
           g == mask(h + m)
           w == <<p, k + m>>
           a == call.rest - m
           b == call.r + m
<1>1. /\ call.op = "stored"
      /\ call' = [call EXCEPT !.op = "write", !.rest = a, !.n = 0, !.r = b, !.word = w]
      /\ ch' = [ch EXCEPT !.head = g]
      /\ UNCHANGED <<md, sbuf, outLen, nextOut>>
  BY DEF ch_write_done
<1>2. /\ m \in Nat \ {0} /\ m <= call.rest /\ call.rest \in Nat /\ call.r \in Nat
      /\ t \in Offsets /\ h \in Offsets /\ m <= Size - 1 - n /\ Size \in Nat
      /\ n \in Nat /\ n < Size
  <2>1. m \in Nat /\ m > 0
    BY <1>0, <1>1 DEF Types, OutStream, OutStored
  <2>2. t \in Offsets /\ h \in Offsets
    BY <1>0 DEF Types, ChannelTypes
  <2>3. n \in Nat /\ n < Size
    BY <2>2, BetweenPlace
  <2> QED BY <1>0, <1>1, <2>1, <2>2, <2>3, SmdAssumption DEF Types, CallOK
<1>3. ch_is_open(md, ch) /\ Writes
  BY <1>0, <1>1 DEF CallOK, Writes
<1>4. /\ call.word = <<p, k>> /\ p \in Nat /\ k \in Nat
      /\ p = Len(outLen) /\ p \in DOMAIN outLen /\ outLen[p] \in Nat \ {0}
      /\ k + call.rest <= Header + outLen[p]
  BY <1>1, <1>3, CallWord
<1>5. outLen \in Seq(Nat \ {0}) /\ Header \in Nat \ {0}
  BY LensFacts, SmdAssumption
<1>6. k + m <= Header + outLen[p] /\ k < Header + outLen[p] /\ k + m \in Nat
  <2> DEFINE x == outLen[p]
             y == call.rest
  <2>1. /\ x \in Nat /\ y \in Nat /\ m \in Nat \ {0} /\ m <= y /\ k \in Nat /\ Header \in Nat
        /\ k + y <= Header + x
    BY <1>2, <1>4, <1>5
  <2> HIDE DEF x, y, m, k
  <2>2. k + m <= Header + x /\ k < Header + x /\ k + m \in Nat
    BY ONLY <2>1
  <2> QED BY <2>2 DEF x
<1>7. /\ g \in Offsets /\ Between(t, g) = n + m
      /\ \A i \in 0..(m - 1) : sbuf[mask(t + (n + i))] = <<p, k + i>>
  <2>1. /\ g \in Offsets /\ Between(t, g) = n + m
        /\ \A i \in 0..(m - 1) : mask(t + (n + i)) = mask(h + i)
    BY <1>2, RoomFacts
  <2>2. \A i \in 0..(m - 1) : sbuf[mask(h + i)] = <<p, k + i>>
    BY <1>1 DEF OutStream, OutStored
  <2> HIDE DEF g, m, n, t, h, p, k
  <2> QED BY <2>1, <2>2
<1>8. Run(sbuf, t, n, nextOut, <<p, k>>, outLen)
  <2>1. OutWord = <<p, k>>
    <3>1. OutWord = Norm(outLen, call.word)
      BY <1>3 DEF OutWord
    <3>2. Norm(outLen, <<p, k>>) = <<p, k>>
      BY <1>4, <1>5, <1>6, SuccWord
    <3> QED BY <1>4, <3>1, <3>2
  <2> QED BY <1>3, <2>1 DEF OutStream, OutRun
<1> HIDE DEF m, p, k, t, h, n, g
<1>9. Run(sbuf, t, n + m, nextOut, Norm(outLen, w), outLen)
  BY <1>2, <1>4, <1>5, <1>6, <1>7, <1>8, RunPush
<1>10. w \in Nat \X Nat /\ w[1] = p /\ w[2] = k + m
  BY <1>4, <1>6
<1>11. a \in Nat /\ b \in Nat /\ a = call.rest - m /\ b = call.r + m /\ b > 0 /\ a + b = call.rest + call.r
  BY <1>2
<1> HIDE DEF a, b, w
<1>12. /\ call'.op = "write" /\ call'.rest = a /\ call'.n = 0 /\ call'.r = b /\ call'.word = w
       /\ call'.kind = call.kind /\ call'.len = call.len
  BY <1>0, <1>1 DEF Types, CallFields
<1>13. ch'.head = g /\ ch'.state = ch.state /\ ch'.pending = ch.pending
  BY <1>0, <1>1 DEF Types, ChannelTypes
<1>14. Writes' /\ ch_is_open(md, ch)' /\ OutWord' = Norm(outLen, w)
  BY <1>1, <1>3, <1>12, <1>13 DEF Writes, ch_is_open, OutWord
<1>15. OutRun'
  BY <1>1, <1>7, <1>9, <1>13, <1>14 DEF OutRun, t
<1>16. OutStored'
  BY <1>12 DEF OutStored
<1>17. OutPending'
  BY <1>1, <1>3, <1>12, <1>13, <1>14 DEF OutStream, OutPending
<1>18. OutSegment'
  <2> SUFFICES ASSUME call.kind = "segment" PROVE OutSegment'
    BY <1>12 DEF OutSegment
  <2>1. /\ call.r + call.rest <= ch.pending /\ ch.pending \in Nat
        /\ Len(outLen) > 0 /\ ch.pending <= outLen[Len(outLen)]
        /\ k = Header + outLen[Len(outLen)] - ch.pending + call.r
    BY <1>3 DEF OutStream, OutSegment, OutPending, k
  <2>2. w = <<Len(outLen), Header + outLen[Len(outLen)] - ch.pending + b>>
    <3>1. k + m = Header + outLen[Len(outLen)] - ch.pending + b
      <4> DEFINE x == outLen[Len(outLen)]
                 y == ch.pending
                 z == call.r
      <4>1. /\ k = Header + x - y + z /\ b = z + m /\ z \in Nat /\ m \in Nat /\ y \in Nat
            /\ x \in Nat /\ Header \in Nat
        BY <1>2, <1>4, <1>5, <1>11, <2>1
      <4> HIDE DEF x, y, z
      <4>2. k + m = Header + x - y + b
        BY ONLY <4>1
      <4> QED BY <4>2 DEF x, y
    <3> QED BY <1>4, <3>1 DEF w
  <2>3. b + a <= ch.pending
    BY <1>2, <1>11, <2>1
  <2> QED BY <1>1, <1>12, <1>13, <1>14, <2>1, <2>2, <2>3 DEF OutSegment
<1>19. OutPacket'
  <2> SUFFICES ASSUME call.kind # "segment" PROVE OutPacket'
    BY <1>12 DEF OutPacket
  <2>1. /\ call.kind \in {"packet", "start"} /\ call.len \in Lens /\ call.word[2] = call.r
        /\ Len(outLen) > 0 /\ outLen[Len(outLen)] = call.len
        /\ call.kind = "packet" =>
              /\ ch.pending = 0
              /\ call.r < Header => call.rest = Header - call.r
              /\ call.r = Header => call.rest \in {0, call.len}
              /\ call.r > Header => call.rest = Header + call.len - call.r
        /\ call.kind = "start" => ch.pending = call.len /\ call.rest = Header - call.r
        /\ Needed <= Size - 1 - n
    BY <1>1, <1>3 DEF OutStream, OutPacket, n, t, h
  <2>2. call.len \in Nat \ {0} /\ k = call.r
    BY <2>1, SmdAssumption DEF k
  <2>3. /\ call.kind = "packet" =>
              /\ b < Header => a = Header - b
              /\ b = Header => a \in {0, call.len}
              /\ b > Header => a = Header + call.len - b
        /\ call.kind = "start" => a = Header - b
    <3> DEFINE r == call.r
               rest == call.rest
               len == call.len
    <3>1. /\ r \in Nat /\ m \in Nat \ {0} /\ rest \in Nat /\ m <= rest /\ len \in Nat \ {0}
          /\ Header \in Nat /\ a = rest - m /\ b = r + m
      BY <1>2, <1>5, <1>11, <2>2
    <3>2. /\ call.kind = "packet" =>
                /\ r < Header => rest = Header - r
                /\ r = Header => rest \in {0, len}
                /\ r > Header => rest = Header + len - r
          /\ call.kind = "start" => rest = Header - r
      BY <2>1
    <3> HIDE DEF r, rest, len
    <3>3. ASSUME r < Header => rest = Header - r, r = Header => rest \in {0, len},
                 r > Header => rest = Header + len - r
          PROVE  /\ b < Header => a = Header - b
                 /\ b = Header => a \in {0, len}
                 /\ b > Header => a = Header + len - b
      BY ONLY <3>1, <3>3
    <3>4. rest = Header - r => a = Header - b
      BY ONLY <3>1
    <3>5. call.kind = "packet" =>
             /\ b < Header => a = Header - b
             /\ b = Header => a \in {0, len}
             /\ b > Header => a = Header + len - b
      BY ONLY <3>2, <3>3
    <3>6. call.kind = "start" => a = Header - b
      BY ONLY <3>2, <3>4
    <3> QED BY <3>5, <3>6 DEF len
  <2>4. Needed' <= Size - 1 - (n + m)
    <3>1. CASE call.kind = "start"
      <4>1. Needed = Header - call.r /\ Needed' = Header - b
        BY <1>12, <3>1 DEF Needed
      <4>2. Header - call.r <= Size - 1 - n
        BY <2>1, <4>1
      <4> DEFINE r == call.r
      <4>3. Header - r <= Size - 1 - n /\ r \in Nat /\ b = r + m
        BY <1>2, <1>11, <4>2
      <4> HIDE DEF r
      <4> QED BY <1>2, <1>5, <4>1, <4>3
    <3>2. CASE call.kind # "start"
      <4>1. Needed = Header + call.len - call.r /\ Needed' = Header + call.len - b
        BY <1>12, <3>2 DEF Needed
      <4>2. Header + call.len - call.r <= Size - 1 - n
        BY <2>1, <4>1
      <4> DEFINE r == call.r
                 len == call.len
      <4>3. /\ Header + len - r <= Size - 1 - n /\ r \in Nat /\ len \in Nat /\ b = r + m
            /\ Needed' = Header + len - b
        BY <1>2, <1>11, <2>2, <4>1, <4>2
      <4> HIDE DEF r, len
      <4> QED BY <1>2, <1>5, <4>3
    <3> QED BY <3>1, <3>2
  <2>5. Between(md'.tail, ch'.head) = n + m
    BY <1>1, <1>7, <1>13 DEF t
  <2>6. w[2] = b /\ w[1] = Len(outLen) /\ b # 0
    BY <1>4, <1>10, <1>11, <2>2
  <2> QED BY <1>1, <1>12, <1>13, <1>14, <2>1, <2>3, <2>4, <2>5, <2>6 DEF OutPacket
<1> QED BY <1>1, <1>10, <1>12, <1>15, <1>16, <1>17, <1>18, <1>19 DEF OutStream

\* smd_packet_write and smd_write_start have found room for all that they
\* write, so the loop ends early only when the channel is not open, and then
\* before its first word.
LEMMA WholeWrite ==
    ASSUME SInv, Lengths, OutStream, WriteEnd, call.kind # "segment"
    PROVE  /\ ch_is_open(md, ch) => call.rest = 0
           /\ ~ ch_is_open(md, ch) => call.r = 0 /\ call.rest = Header
<1>0. Types
  BY DEF SInv
<1>1. /\ call.op = "write" /\ Writes
      /\ call.rest = 0 \/ ch_write_buffer = 0 \/ ~ ch_is_open(md, ch)
  BY DEF WriteEnd, Writes
<1>2. /\ call.kind \in {"packet", "start"} /\ call.len \in Lens
      /\ call.kind = "packet" =>
            /\ call.r < Header => call.rest = Header - call.r
            /\ call.r = Header => call.rest \in {0, call.len}
            /\ call.r > Header => call.rest = Header + call.len - call.r
      /\ call.kind = "start" => call.rest = Header - call.r
      /\ IF ch_is_open(md, ch) THEN Needed <= Size - 1 - Between(md.tail, ch.head)
         ELSE call.r = 0
  BY <1>1 DEF OutStream, OutPacket
<1>3. call.len \in Nat \ {0} /\ call.r \in Nat /\ call.rest \in Nat /\ Header \in Nat \ {0}
  BY <1>0, <1>2, SmdAssumption DEF Types
<1>4. call.rest <= Needed /\ Needed \in Int
  <2> DEFINE r == call.r
             rest == call.rest
             len == call.len
  <2>1. r \in Nat /\ rest \in Nat /\ len \in Nat /\ Header \in Nat
    BY <1>3
  <2>2. CASE call.kind = "start"
    <3>1. rest = Header - r /\ Needed = Header - r
      BY <1>2, <2>2 DEF Needed
    <3> HIDE DEF r, rest
    <3> QED BY <2>1, <3>1 DEF rest
  <2>3. CASE call.kind = "packet"
    <3>1. /\ Needed = Header + len - r
          /\ r < Header => rest = Header - r
          /\ r = Header => rest \in {0, len}
          /\ r > Header => rest = Header + len - r
      BY <1>2, <2>3 DEF Needed
    <3> HIDE DEF r, rest, len
    <3>2. rest <= Needed /\ Needed \in Int
      BY <2>1, <3>1
    <3> QED BY <3>2 DEF rest
  <2> QED BY <1>2, <2>2, <2>3
<1>5. ASSUME ~ ch_is_open(md, ch) PROVE call.r = 0 /\ call.rest = Header
  <2>1. call.r = 0
    BY <1>2, <1>5
  <2>2. call.rest = Header - call.r
    BY <1>2, <1>3, <2>1
  <2> QED BY <1>3, <2>1, <2>2
<1>6. ASSUME ch_is_open(md, ch), call.rest # 0 PROVE FALSE
  <2>1. ch_write_buffer = 0
    BY <1>1, <1>6
  <2>2. /\ ch.head \in 0..(Size - 1) /\ md.tail \in 0..(Size - 1) /\ Size \in Nat
    BY <1>0, SmdAssumption DEF Types, ChannelTypes, Offsets
  <2>3. Between(md.tail, ch.head) = Size - 1
    BY <2>1, <2>2 DEF ch_write_buffer, Between
  <2>4. Needed <= 0
    BY <1>2, <1>4, <1>6, <2>2, <2>3
  <2> QED BY <1>3, <1>4, <1>6, <2>4
<1> QED BY <1>5, <1>6

LEMMA OutWriteEnd ==
    ASSUME SInv, OutStream, Lengths, WriteEnd
    PROVE  OutStream'
<1>0. Types
  BY DEF SInv
<1> DEFINE more == call.kind = "packet" /\ call.rest = 0 /\ call.r = Header
           z == 0
           q == ch.pending - call.r
<1>1. /\ call.op = "write" /\ Writes
      /\ call' = IF more THEN [call EXCEPT !.rest = call.len] ELSE NoCall
      /\ ch' = CASE call.kind = "segment" -> [ch EXCEPT !.pending = q]
                 [] call.kind = "start" /\ call.rest > 0 -> [ch EXCEPT !.pending = z]
                 [] OTHER -> ch
      /\ UNCHANGED <<md, sbuf, outLen, nextOut>>
  BY DEF WriteEnd, Writes
<1>2. /\ outLen \in Seq(Nat \ {0}) /\ Len(outLen) \in Nat /\ Header \in Nat \ {0}
      /\ ch.pending \in Nat /\ call.r \in Nat /\ call.rest \in Nat
  BY <1>0, LensFacts, SmdAssumption DEF Types, OutStream, OutPending
<1>3. nextOut' \in Nat \X Nat /\ DOMAIN sbuf' = Offsets
  BY <1>1 DEF OutStream
<1>4. CASE more
  <2>1. call' = [call EXCEPT !.rest = call.len] /\ ch' = ch
    BY <1>1, <1>4
  <2>2. /\ call'.op = call.op /\ call'.kind = call.kind /\ call'.rest = call.len
        /\ call'.n = call.n /\ call'.r = call.r /\ call'.len = call.len
        /\ call'.word = call.word
    BY <1>0, <2>1 DEF Types, CallFields
  <2>3. /\ Writes' /\ OutWord' = OutWord /\ Needed' = Needed
        /\ ch_is_open(md, ch)' = ch_is_open(md, ch)
    BY <1>1, <2>1, <2>2 DEF Writes, OutWord, Needed, ch_is_open
  <2>4. OutPending' /\ OutSegment' /\ OutStored'
    BY <1>1, <1>4, <2>1, <2>2, <2>3 DEF OutStream, OutPending, OutSegment, OutStored
  <2>5. OutPacket'
    <3>1. call.r = Header /\ call.kind = "packet" /\ ~ (Header < Header) /\ ~ (Header > Header)
      BY <1>2, <1>4
    <3> QED BY <1>1, <1>2, <2>1, <2>2, <2>3, <3>1 DEF OutStream, OutPacket
  <2>6. ch_is_open(md, ch) => OutRun'
    BY <1>1, <2>1, <2>3 DEF OutStream, OutRun
  <2>7. call'.word \in Nat \X Nat
    BY <2>2 DEF OutStream
  <2> QED BY <1>3, <2>3, <2>4, <2>5, <2>6, <2>7 DEF OutStream
<1>5. CASE ~ more
  <2>1. call' = NoCall /\ call'.op = "none" /\ call'.word \in Nat \X Nat /\ ~ Writes'
    BY <1>1, <1>5 DEF NoCall, Writes
  <2>2. /\ ch'.head = ch.head /\ ch'.state = ch.state
        /\ call.kind = "segment" => ch'.pending = q
        /\ call.kind = "start" /\ call.rest > 0 => ch'.pending = 0
        /\ call.kind # "segment" /\ ~ (call.kind = "start" /\ call.rest > 0) =>
              ch'.pending = ch.pending
    <3>1. z = 0
      OBVIOUS
    <3> HIDE DEF z, q
    <3>2. CASE call.kind = "segment"
      BY <1>0, <1>1, <3>2 DEF Types, ChannelTypes
    <3>3. CASE call.kind = "start" /\ call.rest > 0
      BY <1>0, <1>1, <3>1, <3>3 DEF Types, ChannelTypes
    <3>4. CASE call.kind # "segment" /\ ~ (call.kind = "start" /\ call.rest > 0)
      BY <1>1, <3>4
    <3> QED BY <3>2, <3>3, <3>4
  <2>3. ch_is_open(md, ch)' <=> ch_is_open(md, ch)
    BY <1>1, <2>2 DEF ch_is_open
  <2>4. OutSegment' /\ OutStored' /\ OutPacket'
    BY <2>1 DEF OutSegment, OutStored, OutPacket
  <2>5. CASE ~ ch_is_open(md, ch)
    <3>1. call.kind # "segment"
      BY <1>1, <2>5 DEF OutStream, OutSegment
    <3>2. call.rest = Header
      BY <2>5, <3>1, WholeWrite
    <3>3. ch'.pending = 0
      <4>1. CASE call.kind = "start"
        BY <1>2, <2>2, <3>2, <4>1
      <4>2. CASE call.kind # "start"
        BY <1>1, <2>2, <3>1, <4>2 DEF OutStream, OutPacket
      <4> QED BY <4>1, <4>2
    <3>4. OutPending'
      BY <3>3 DEF OutPending
    <3> QED BY <1>3, <2>1, <2>3, <2>4, <2>5, <3>4 DEF OutStream
  <2>6. CASE ch_is_open(md, ch)
    <3> DEFINE p == Len(outLen)
    <3>1. /\ ch'.pending \in Nat /\ p > 0 /\ p \in DOMAIN outLen /\ outLen[p] \in Nat \ {0}
          /\ ch'.pending <= outLen[p]
          /\ call.word = <<p, Header + outLen[p] - ch'.pending>>
      <4>1. CASE call.kind = "segment"
        <5>1. /\ call.r + call.rest <= ch.pending /\ p > 0 /\ ch.pending <= outLen[p]
              /\ call.word = <<p, Header + outLen[p] - ch.pending + call.r>>
              /\ ch'.pending = q
          BY <1>1, <2>2, <4>1 DEF OutStream, OutSegment
        <5>2. p \in DOMAIN outLen /\ outLen[p] \in Nat \ {0}
          BY <1>2, <5>1, LastWord
        <5> DEFINE x == outLen[p]
                   y == ch.pending
                   r == call.r
                   s == call.rest
        <5>3. /\ x \in Nat /\ y \in Nat /\ r \in Nat /\ s \in Nat /\ Header \in Nat
              /\ r + s <= y /\ y <= x /\ q = y - r
          BY <1>2, <5>1, <5>2
        <5> HIDE DEF x, y, r, s, q
        <5>4. q \in Nat /\ q <= x /\ Header + x - y + r = Header + x - q
          BY ONLY <5>3
        <5> QED BY <5>1, <5>2, <5>4 DEF x, y, r
      <4>2. CASE call.kind # "segment"
        <5>1. call.rest = 0 /\ ch'.pending = ch.pending
          BY <1>2, <2>2, <2>6, <4>2, WholeWrite
        <5>2. /\ call.kind \in {"packet", "start"} /\ call.len \in Lens /\ call.word[2] = call.r
              /\ call.word \in Nat \X Nat
              /\ IF call.r = 0
                 THEN call.word[1] = Len(outLen) + 1
                 ELSE call.word[1] = p /\ p > 0 /\ outLen[p] = call.len
              /\ call.kind = "packet" =>
                    /\ ch.pending = 0
                    /\ call.r < Header => call.rest = Header - call.r
                    /\ call.r = Header => call.rest \in {0, call.len}
                    /\ call.r > Header => call.rest = Header + call.len - call.r
              /\ call.kind = "start" => ch.pending = call.len /\ call.rest = Header - call.r
          BY <1>1, <4>2 DEF OutStream, OutPacket
        <5>3. call.len \in Nat \ {0}
          BY <5>2, SmdAssumption
        <5>4. call.r # 0 /\ call.r = Header + call.len - ch.pending
          <6> DEFINE r == call.r
                     len == call.len
                     y == ch.pending
          <6>1. r \in Nat /\ len \in Nat /\ Header \in Nat \ {0} /\ y \in Nat
            BY <1>2, <5>3
          <6>2. CASE call.kind = "start"
            <7>1. 0 = Header - r /\ y = len
              BY <5>1, <5>2, <6>2
            <7> HIDE DEF r, len, y
            <7>2. r # 0 /\ r = Header + len - y
              BY <6>1, <7>1
            <7> QED BY <7>2 DEF r, len, y
          <6>3. CASE call.kind = "packet"
            <7>1. /\ y = 0 /\ r # Header
                  /\ r < Header => 0 = Header - r
                  /\ r > Header => 0 = Header + len - r
              BY <1>5, <5>1, <5>2, <6>3
            <7> HIDE DEF r, len, y
            <7>2. r # 0 /\ r = Header + len - y
              BY <6>1, <7>1
            <7> QED BY <7>2 DEF r, len, y
          <6> QED BY <5>2, <6>2, <6>3
        <5>5. p > 0 /\ outLen[p] = call.len /\ call.word[1] = p
          BY <5>2, <5>4
        <5>6. p \in DOMAIN outLen /\ outLen[p] \in Nat \ {0}
          BY <1>2, <5>5, LastWord
        <5>7. call.word = <<p, Header + outLen[p] - ch.pending>>
          <6>1. call.word = <<call.word[1], call.word[2]>>
            BY <5>2, PairWord
          <6> QED BY <5>2, <5>4, <5>5, <6>1
        <5>8. ch.pending <= outLen[p]
          BY <1>2, <5>2, <5>3, <5>5
        <5> QED BY <1>2, <5>1, <5>5, <5>6, <5>7, <5>8
      <4> QED BY <4>1, <4>2
    <3> DEFINE j == Header + outLen[p] - ch'.pending
    <3>2. OutPending'
      BY <1>1, <2>1, <2>3, <2>6, <3>1 DEF OutPending
    <3>3. OutWord' = OutWord
      <4>1. OutWord = Norm(outLen, call.word)
        BY <1>1 DEF OutWord
      <4>2. OutWord' = IF ch'.pending = 0 THEN <<p + 1, 0>> ELSE <<p, j>>
        BY <1>1, <2>1 DEF OutWord
      <4>3. /\ j \in Nat /\ call.word = <<p, j>>
            /\ ch'.pending = 0 => j >= Header + outLen[p]
            /\ ch'.pending # 0 => j < Header + outLen[p]
        BY <1>2, <3>1
      <4> HIDE DEF j
      <4>4. /\ j < Header + outLen[p] => Norm(outLen, <<p, j>>) = <<p, j>>
            /\ j >= Header + outLen[p] => Norm(outLen, <<p, j>>) = <<p + 1, 0>>
        BY <1>2, <3>1, <4>3, LastWord
      <4> QED BY <4>1, <4>2, <4>3, <4>4
    <3>4. OutRun'
      BY <1>1, <2>2, <2>6, <3>3 DEF OutStream, OutRun
    <3> QED BY <1>3, <2>1, <2>4, <3>2, <3>4 DEF OutStream
  <2> QED BY <2>5, <2>6
<1> QED BY <1>4, <1>5

-----------------------------------------------------------------------------
(* The theorems about the streams *)

StreamInv == SInv /\ Lengths /\ InStream /\ OutStream

LEMMA InitStreamInv == Init => StreamInv
<1> USE DEF SMD_SS_CLOSED, SMD_SS_OPENING, SMD_SS_OPENED, SMD_SS_CLOSING
<1> SUFFICES ASSUME Init PROVE StreamInv
  OBVIOUS
<1>1. SInv
  BY InitSInv
<1>2. Lengths
  BY SmdAssumption DEF Init, Lengths
<1>3. InStream
  BY DEF Init, InStream, InCall, InFresh, NoCall, ch_is_open
<1>4. OutStream
  <2>1. ch.pending = 0 /\ call.op = "none" /\ call.word \in Nat \X Nat
    BY DEF Init, NoCall
  <2>2. OutPending /\ OutPacket /\ OutSegment /\ OutStored
    BY <2>1 DEF OutPending, OutPacket, OutSegment, OutStored, Writes
  <2>3. DOMAIN sbuf = Offsets /\ nextOut \in Nat \X Nat /\ ~ ch_is_open(md, ch)
    BY DEF Init, Offsets, ch_is_open
  <2> QED BY <2>1, <2>2, <2>3 DEF OutStream
<1> QED BY <1>1, <1>2, <1>3, <1>4 DEF StreamInv

\* Only WriteCopy and the modem's writes begin a packet.
LEMMA LengthsStep ==
    ASSUME SInv, Lengths, OutStream, Next
    PROVE  Lengths'
<1>1. CASE WriteCopy
  BY <1>1, OutWriteCopy
<1>2. CASE ModemWrites
  <2>1. /\ outLen' = outLen
        /\ \/ inLen' = inLen
           \/ Len(inLen) < MaxIn /\ \E len \in Lens : inLen' = Append(inLen, len)
    BY <1>2 DEF ModemWrites
  <2>2. CASE inLen' = inLen
    BY <2>1, <2>2 DEF Lengths
  <2>3. CASE Len(inLen) < MaxIn /\ \E len \in Lens : inLen' = Append(inLen, len)
    <3>1. PICK len \in Lens : inLen' = Append(inLen, len)
      BY <2>3
    <3>2. inLen \in Seq(Lens) /\ Len(inLen) \in Nat /\ MaxIn \in Nat
      BY SmdAssumption DEF Lengths
    <3>3. inLen' \in Seq(Lens) /\ Len(inLen') = Len(inLen) + 1
      BY <3>1, <3>2
    <3>4. Len(inLen') <= MaxIn
      BY <2>3, <3>2, <3>3
    <3> QED BY <2>1, <3>3, <3>4 DEF Lengths
  <2> QED BY <2>1, <2>2, <2>3
<1>3. CASE ~ WriteCopy /\ ~ ModemWrites
  <2>1. UNCHANGED <<inLen, outLen>>
    BY <1>3 DEF Next, Interrupt, handle_smd_irq, handle_smd_irq_closing_list,
         finalize_channel_close_fn, Reading, ReadCopy, ch_read_done, ReadEnd, Writing,
         ch_write_done, WriteEnd, CloseCheck, Drained, Client, smd_open, CloseSet,
         ReadBegin, SegmentBegin, WriteBegin, Modem, ModemOpens, ModemOpened, ModemCloses,
         ModemAcks, ModemReads
  <2> QED BY <2>1 DEF Lengths
<1> QED BY <1>1, <1>2, <1>3

LEMMA NextStreamInv == Orderly /\ StreamInv /\ [Next]_vars => StreamInv'
<1> SUFFICES ASSUME Orderly, StreamInv, [Next]_vars PROVE StreamInv'
  OBVIOUS
<1>0. SInv /\ Lengths /\ InStream /\ OutStream
  BY DEF StreamInv
<1>1. SInv'
  BY <1>0, NextSInv
<1>2. CASE UNCHANGED vars
  <2>1. UNCHANGED <<ch, md, rbuf, sbuf, call, inLen, outLen, nextIn, nextOut>>
    BY <1>2 DEF vars
  <2>2. Lengths'
    BY <1>0, <2>1 DEF Lengths
  <2>3. InStream'
    BY <1>0, <2>1, InSame
  <2>4. OutStream'
    BY <1>0, <2>1, OutSame
  <2> QED BY <1>1, <2>2, <2>3, <2>4 DEF StreamInv
<1>3. CASE Next
  <2>1. Lengths'
    BY <1>0, <1>3, LengthsStep
  <2>2. InStream'
    <3>1. CASE Interrupt
      BY <1>0, <1>1, <3>1, InIrq, InClosed DEF Interrupt
    <3>2. CASE finalize_channel_close_fn \/ CloseCheck
      BY <1>0, <1>1, <3>2, InClosed
    <3>3. CASE Reading
      BY <1>0, <3>3, InReadCopy, InReadDone, InReadEnd DEF Reading
    <3>4. CASE Writing \/ Drained
      BY <1>0, <3>4, InOther DEF Writing
    <3>5. CASE Client
      <4>1. CASE smd_open \/ CloseSet
        BY <1>0, <1>1, <4>1, InClosed
      <4>2. CASE \E len \in Lens : ReadBegin(len)
        BY <1>0, <4>2, InReadBegin
      <4>3. CASE \/ \E len \in Lens : SegmentBegin(len)
                 \/ \E kind \in {"packet", "start"}, len \in Lens : WriteBegin(kind, len)
        BY <1>0, <4>3, InOther
      <4> QED BY <3>5, <4>1, <4>2, <4>3 DEF Client
    <3>6. CASE Modem
      BY <1>0, <3>6, InModemState, InModemWrites, InOther DEF Modem
    <3> QED BY <1>3, <3>1, <3>2, <3>3, <3>4, <3>5, <3>6 DEF Next
  <2>3. OutStream'
    <3>1. CASE Interrupt
      BY <1>0, <3>1, OutIrq, OutClosed DEF Interrupt
    <3>2. CASE finalize_channel_close_fn \/ CloseCheck
      BY <1>0, <3>2, OutClosed
    <3>3. CASE Reading \/ Drained
      BY <1>0, <3>3, OutOther DEF Reading
    <3>4. CASE Writing
      BY <1>0, <3>4, OutWriteCopy, OutWriteDone, OutWriteEnd DEF Writing
    <3>5. CASE Client
      <4>1. CASE smd_open \/ CloseSet
        BY <1>0, <4>1, OutClosed
      <4>2. CASE \E len \in Lens : ReadBegin(len)
        BY <1>0, <4>2, OutOther
      <4>3. CASE \E len \in Lens : SegmentBegin(len)
        BY <1>0, <4>3, OutSegmentBegin
      <4>4. CASE \E kind \in {"packet", "start"}, len \in Lens : WriteBegin(kind, len)
        BY <1>0, <4>4, OutWriteBegin
      <4> QED BY <3>5, <4>1, <4>2, <4>3, <4>4 DEF Client
    <3>6. CASE Modem
      BY <1>0, <3>6, OutOther, OutModemReads DEF Modem
    <3> QED BY <1>3, <3>1, <3>2, <3>3, <3>4, <3>5, <3>6 DEF Next
  <2> QED BY <1>1, <2>1, <2>2, <2>3 DEF StreamInv
<1> QED BY <1>2, <1>3

\* A run is what StreamsIntact calls the continuation of a stream.
LEMMA RunContinues ==
    ASSUME NEW b, NEW t \in Offsets, NEW n \in Nat, NEW w, NEW v, NEW lens,
           Run(b, t, n, w, v, lens)
    PROVE  Continues(b, t, n, w, lens)
<1> SUFFICES ASSUME n > 0
             PROVE  /\ b[t] = w
                    /\ \A i \in 1..(n - 1) : b[mask(t + i)] = Succ(lens, b[mask(t + i - 1)])
  BY DEF Continues
<1>1. b[t] = w
  <2>1. t + 0 = t /\ 0 < n
    BY DEF Offsets
  <2>2. mask(t) = t
    BY MaskValue DEF Offsets
  <2> QED BY <2>1, <2>2 DEF Run, Word
<1>2. ASSUME NEW i \in 1..(n - 1)
      PROVE  b[mask(t + i)] = Succ(lens, b[mask(t + i - 1)])
  <2> DEFINE j == i - 1
  <2>1. j \in 0..(n - 1) /\ j + 1 = i /\ t + i - 1 = t + j /\ i < n
    BY DEF Offsets
  <2> HIDE DEF j
  <2>2. Word(b, t, n, v, j + 1) = Succ(lens, b[mask(t + j)])
    BY <2>1, RunWord
  <2> QED BY <2>1, <2>2 DEF Word
<1> QED BY <1>1, <1>2

\* The last word of a run that ends at v, the word that follows
LEMMA RunLast ==
    ASSUME NEW b, NEW t \in Offsets, NEW h \in Offsets, t # h, NEW w, NEW v,
           NEW lens \in Seq(Nat \ {0}), Run(b, t, Between(t, h), w, v, lens), NEW x,
           x = b[mask(h + Size - 1)]
    PROVE  /\ x = <<x[1], x[2]>> /\ x[1] \in DOMAIN lens /\ x[1] \in Nat /\ x[2] \in Nat
           /\ x[2] < Header + lens[x[1]]
           /\ v = IF x[2] + 1 < Header + lens[x[1]] THEN <<x[1], x[2] + 1>> ELSE <<x[1] + 1, 0>>
<1> DEFINE n == Between(t, h)
           j == n - 1
<1>1. Size \in Nat /\ Size > 1 /\ t \in 0..(Size - 1) /\ h \in 0..(Size - 1)
  BY SmdAssumption DEF Offsets
<1>2. n \in Nat /\ n > 0 /\ n < Size /\ n = IF t <= h THEN h - t ELSE h - t + Size
  BY <1>1 DEF Between
<1> HIDE DEF n
<1>3. j \in 0..(n - 1) /\ j + 1 = n /\ ~ (j + 1 < n) /\ j \in 0..Size
  BY <1>1, <1>2
<1>4. mask(t + j) = mask(h + Size - 1)
  <2>1. mask(t + j) = IF t + j < Size THEN t + j ELSE t + j - Size
    BY <1>3, MaskSum
  <2> DEFINE y == h + Size - 1
  <2>2. y \in Int /\ (y < Size => y \in Offsets) /\ (~ y < Size => y \in Size..(2 * Size - 1))
    BY <1>1 DEF Offsets
  <2> HIDE DEF y
  <2>3. (y < Size => mask(y) = y) /\ (~ y < Size => mask(y) = y - Size)
    BY <2>2, MaskValue
  <2>4. mask(t + j) = mask(y)
    BY <1>1, <1>2, <2>1, <2>3 DEF y
  <2> QED BY <2>4 DEF y
<1>5. Run(b, t, n, w, v, lens)
  BY DEF n
<1> HIDE DEF j
<1>6. Valid(lens, x) /\ v = Succ(lens, x)
  <2>1. /\ Valid(lens, b[mask(t + j)])
        /\ Word(b, t, n, v, j + 1) = Succ(lens, b[mask(t + j)])
    BY <1>2, <1>3, <1>5, RunWord
  <2>2. Word(b, t, n, v, j + 1) = v
    BY <1>3 DEF Word
  <2> QED BY <1>4, <2>1, <2>2
<1>7. /\ x = <<x[1], x[2]>> /\ x[1] \in DOMAIN lens /\ x[1] \in Nat /\ x[2] \in Nat
      /\ x[2] < Header + lens[x[1]]
  BY <1>6, ValidWord
<1> QED BY <1>6, <1>7 DEF Succ

LEMMA StreamsIntactHolds == StreamInv => StreamsIntact
<1> SUFFICES ASSUME StreamInv, ch_is_open(md, ch) PROVE StreamsIntact
  BY DEF StreamsIntact
<1>0. SInv /\ Lengths /\ InStream /\ OutStream /\ Types
  BY DEF StreamInv, SInv
<1>1. /\ InTail \in Offsets /\ md.head \in Offsets /\ md.tail \in Offsets /\ ch.head \in Offsets
      /\ inLen \in Seq(Nat \ {0}) /\ outLen \in Seq(Nat \ {0}) /\ Len(outLen) \in Nat
  BY <1>0, InTailFacts, LensFacts DEF Types, ChannelTypes
<1>2. Continues(rbuf, InTail, mask(md.head - InTail + Size), nextIn, inLen)
  <2>1. /\ mask(md.head - InTail + Size) = Between(InTail, md.head)
        /\ Between(InTail, md.head) \in Nat
    BY <1>1, MaskDifference, BetweenPlace
  <2>2. Run(rbuf, InTail, Between(InTail, md.head), nextIn, md.word, inLen)
    BY <1>0 DEF InStream, InRun
  <2> DEFINE t == InTail
             n == Between(t, md.head)
             w == nextIn
             v == md.word
  <2>3. t \in Offsets /\ n \in Nat /\ Run(rbuf, t, n, w, v, inLen)
    BY <1>1, <2>1, <2>2
  <2> HIDE DEF t, n, w, v
  <2>4. Continues(rbuf, t, n, w, inLen)
    BY <2>3, RunContinues
  <2> QED BY <2>1, <2>4 DEF t, n, w
<1>3. Run(sbuf, md.tail, Between(md.tail, ch.head), nextOut, OutWord, outLen)
  BY <1>0 DEF OutStream, OutRun
<1>4. Continues(sbuf, md.tail, mask(ch.head - md.tail + Size), nextOut, outLen)
  <2>1. /\ mask(ch.head - md.tail + Size) = Between(md.tail, ch.head)
        /\ Between(md.tail, ch.head) \in Nat
    BY <1>1, MaskDifference, BetweenPlace
  <2> DEFINE t == md.tail
             n == Between(t, ch.head)
             w == nextOut
             v == OutWord
  <2>2. t \in Offsets /\ n \in Nat /\ Run(sbuf, t, n, w, v, outLen)
    BY <1>1, <1>3, <2>1
  <2> HIDE DEF t, n, w, v
  <2>3. Continues(sbuf, t, n, w, outLen)
    BY <2>2, RunContinues
  <2> QED BY <2>1, <2>3 DEF t, n, w
<1>5. IF Left = 0 THEN nextIn[2] = 0
      ELSE nextIn[1] \in DOMAIN inLen /\ nextIn[2] = Header + inLen[nextIn[1]] - Left
  BY <1>0 DEF InStream, InPlace, Place
<1>6. ASSUME call = NoCall, ch.head # md.tail
      PROVE  sbuf[mask(ch.head + Size - 1)] =
                <<Len(outLen), Header + outLen[Len(outLen)] - ch.pending - 1>>
  <2> DEFINE x == sbuf[mask(ch.head + Size - 1)]
             p == Len(outLen)
             q == x[1]
             j == x[2]
             y == ch.pending
  <2>1. /\ x = <<q, j>> /\ q \in DOMAIN outLen /\ q \in Nat /\ j \in Nat
        /\ j < Header + outLen[q]
        /\ OutWord = IF j + 1 < Header + outLen[q] THEN <<q, j + 1>> ELSE <<q + 1, 0>>
    BY <1>1, <1>3, <1>6, RunLast
  <2>2. ~ Writes /\ y \in Nat /\ Header \in Nat \ {0}
    BY <1>0, <1>6, SmdAssumption DEF Writes, NoCall, OutStream, OutPending
  <2>3. OutWord = IF y = 0 THEN <<p + 1, 0>> ELSE <<p, Header + outLen[p] - y>>
    BY <2>2 DEF OutWord
  <2> HIDE DEF x, q, j, y
  <2>4. CASE y = 0
    <3>1. <<p + 1, 0>> = IF j + 1 < Header + outLen[q] THEN <<q, j + 1>> ELSE <<q + 1, 0>>
      BY <2>1, <2>3, <2>4
    <3>2. outLen[q] \in Nat /\ p \in Nat
      BY <1>1, <2>1
    <3>3. ~ (j + 1 < Header + outLen[q]) /\ q + 1 = p + 1
      BY <2>1, <3>1
    <3>4. q = p /\ j = Header + outLen[p] - 1
      BY <2>1, <2>2, <3>2, <3>3
    <3>5. Header + outLen[p] - 1 = Header + outLen[p] - y - 1
      BY <2>2, <2>4, <3>2, <3>4
    <3> QED BY <2>1, <3>4, <3>5 DEF x, y
  <2>5. CASE y # 0
    <3>1. p > 0 /\ y <= outLen[p]
      BY <1>0, <2>2, <2>5 DEF OutStream, OutPending, y
    <3>2. p \in DOMAIN outLen /\ outLen[p] \in Nat
      BY <1>1, <3>1, LastWord
    <3>3. <<p, Header + outLen[p] - y>> =
             IF j + 1 < Header + outLen[q] THEN <<q, j + 1>> ELSE <<q + 1, 0>>
      BY <2>1, <2>3, <2>5
    <3> DEFINE k == Header + outLen[p] - y
    <3>4. k # 0 /\ k \in Nat
      BY <2>2, <3>1, <3>2
    <3>5. <<p, k>> = IF j + 1 < Header + outLen[q] THEN <<q, j + 1>> ELSE <<q + 1, 0>>
      BY <3>3
    <3> HIDE DEF k
    <3>6. p = q /\ k = j + 1
      BY <3>4, <3>5
    <3>7. j = Header + outLen[p] - y - 1
      BY <2>1, <2>2, <3>2, <3>6 DEF k
    <3> QED BY <2>1, <3>6, <3>7 DEF x, y
  <2> QED BY <2>4, <2>5
<1>7. /\ InTail = mask(ch.tail + (IF call.op = "copied" THEN call.n ELSE 0))
      /\ Left = ch.current - (IF call.op \in {"read", "copied"}
                              THEN call.r + (IF call.op = "copied" THEN call.n ELSE 0) ELSE 0)
  BY DEF InTail, Left, Taken
<1> QED BY <1>2, <1>4, <1>5, <1>6, <1>7 DEF StreamsIntact

(***************************************************************************)
(* Both streams of the channel stay intact, for FIFOs, headers and packets *)
(* of every size and any number of sessions: while the channel is open the *)
(* FIFOs hold exactly the words that are due, current_packet is what is    *)
(* left of the reader's packet, and the writer leaves off at the end of a  *)
(* packet or of a segment of the one that is pending.                      *)
(***************************************************************************)
THEOREM SmdStreamsIntact == Orderly => (Spec => []StreamsIntact)
<1> SUFFICES ASSUME Orderly PROVE Spec => []StreamsIntact
  OBVIOUS
<1>1. Init => StreamInv
  BY InitStreamInv
<1>2. StreamInv /\ [Next]_vars => StreamInv'
  BY NextStreamInv
<1>3. StreamInv => StreamsIntact
  BY StreamsIntactHolds
<1> QED BY <1>1, <1>2, <1>3, PTL DEF Spec

(***************************************************************************)
(* What msm_smd.h promises of writes to packet channels holds as long as   *)
(* no call overlaps the end of a session: once the header is out,          *)
(* smd_packet_write writes the whole packet, because it has looked for     *)
(* room for all of it and the modem only makes room.                       *)
(***************************************************************************)
THEOREM SmdNeverPartial == Orderly => (Spec => NeverPartial)
<1> SUFFICES ASSUME Orderly PROVE Spec => NeverPartial
  OBVIOUS
<1>1. Init => StreamInv
  BY InitStreamInv
<1>2. StreamInv /\ [Next]_vars => StreamInv'
  BY NextStreamInv
<1>3. StreamInv /\ [Next]_vars =>
         [WriteEnd /\ call.kind = "packet" /\ call' = NoCall /\ call.r >= Header
             => call.rest = 0]_vars
  <2> SUFFICES ASSUME StreamInv, WriteEnd, call.kind = "packet", call.r >= Header
               PROVE  call.rest = 0
    OBVIOUS
  <2>1. SInv /\ Lengths /\ OutStream /\ call.kind # "segment"
    BY DEF StreamInv
  <2>2. /\ ch_is_open(md, ch) => call.rest = 0
        /\ ~ ch_is_open(md, ch) => call.r = 0
    BY <2>1, WholeWrite
  <2>3. Header \in Nat \ {0}
    BY SmdAssumption
  <2> QED BY <2>2, <2>3
<1> QED BY <1>1, <1>2, <1>3, PTL DEF Spec, NeverPartial

-----------------------------------------------------------------------------
(* The types, once the packets are no longer than some length *)

LensBounded == \E m \in Nat : Lens \subseteq 0..m
Longest == Max({0} \cup Lens)

\* A non-empty set of naturals up to n has a maximum, and Max is it.
LEMMA NatMax ==
    ASSUME NEW n \in Nat, NEW S, S \subseteq 0..n, S # {}
    PROVE  Max(S) \in S /\ \A y \in S : y <= Max(S)
<1> DEFINE T == {n - x : x \in S}
<1>1. T \subseteq Nat /\ T # {}
  <2>1. PICK x \in S : TRUE
    OBVIOUS
  <2>2. n - x \in T
    OBVIOUS
  <2> QED BY <2>2
<1>2. Min(T) \in T /\ \A u \in T : Min(T) <= u
  BY <1>1, NatMin
<1>3. PICK x \in S : Min(T) = n - x
  BY <1>2
<1>4. \A y \in S : n - x <= n - y
  BY <1>2, <1>3
<1>5. \A y \in S : x >= y
  BY <1>4
<1> QED BY <1>5 DEF Max

LEMMA LongestPacket ==
    ASSUME LensBounded
    PROVE  Longest \in Nat /\ Header \in Nat \ {0} /\ \A l \in Lens : l \in Nat /\ l <= Longest
<1>1. PICK m \in Nat : Lens \subseteq 0..m
  BY DEF LensBounded
<1> DEFINE S == {0} \cup Lens
<1>2. S \subseteq 0..m /\ S # {}
  BY <1>1
<1> HIDE DEF S
<1>3. Max(S) \in S /\ \A y \in S : y <= Max(S)
  BY <1>2, NatMax
<1>4. Longest = Max(S) /\ 0 \in S /\ Lens \subseteq S
  BY DEF Longest, S
<1>5. Longest \in S /\ \A y \in S : y <= Longest
  BY <1>3, <1>4
<1>6. S \subseteq Nat
  BY <1>2
<1>7. Longest \in Nat /\ \A l \in Lens : l \in Nat /\ l <= Longest
  BY ONLY <1>4, <1>5, <1>6, Zenon
<1> QED BY <1>7, SmdAssumption

\* Which pairs are words of at most n packets
LEMMA WordOfPair ==
    ASSUME LensBounded, NEW n \in Nat, NEW p \in Nat, NEW k \in Nat,
           p <= n + 1, k <= Header + Longest
    PROVE  <<p, k>> \in Words(n)
<1>1. Longest \in Nat /\ Header \in Nat
  BY LongestPacket
<1>2. p \in 0..(n + 1) /\ k \in 0..(Header + Longest)
  BY <1>1
<1> QED BY <1>2 DEF Words, Longest

\* Words of packets that have been begun, and the first word of the next one
LEMMA WordOfPacket ==
    ASSUME LensBounded, NEW n \in Nat, NEW lens \in Seq(Lens), Len(lens) <= n
    PROVE  /\ <<Len(lens) + 1, 0>> \in Words(n)
           /\ \A p \in DOMAIN lens : \A k \in Nat : k <= Header + lens[p] => <<p, k>> \in Words(n)
           /\ \A w : Valid(lens, w) => w \in Words(n)
<1>1. Longest \in Nat /\ Header \in Nat /\ \A l \in Lens : l \in Nat /\ l <= Longest
  BY LongestPacket
<1>2. Len(lens) \in Nat /\ DOMAIN lens = 1..Len(lens)
  OBVIOUS
<1>3. <<Len(lens) + 1, 0>> \in Words(n)
  <2> DEFINE p == Len(lens) + 1
             k == 0
  <2>1. p \in Nat /\ k \in Nat /\ p <= n + 1 /\ k <= Header + Longest
    BY <1>1, <1>2
  <2> HIDE DEF p, k
  <2>2. <<p, k>> \in Words(n)
    BY <2>1, WordOfPair
  <2> QED BY <2>2 DEF p, k
<1>4. ASSUME NEW p \in DOMAIN lens, NEW k \in Nat, k <= Header + lens[p]
      PROVE  <<p, k>> \in Words(n)
  <2>1. lens[p] \in Lens /\ p \in Nat /\ p <= n + 1
    BY <1>2
  <2>2. k <= Header + Longest
    BY <1>1, <1>4, <2>1
  <2> QED BY <2>1, <2>2, WordOfPair
<1>5. ASSUME NEW w, Valid(lens, w)
      PROVE  w \in Words(n)
  <2>1. w \in Nat \X Nat /\ w[1] \in DOMAIN lens /\ w[2] < Header + lens[w[1]]
    BY <1>5 DEF Valid
  <2>2. w = <<w[1], w[2]>> /\ w[2] \in Nat
    BY <2>1, PairWord
  <2>3. lens[w[1]] \in Nat
    BY <1>1, <2>1
  <2>4. w[2] <= Header + lens[w[1]]
    BY <1>1, <2>1, <2>2, <2>3
  <2>5. <<w[1], w[2]>> \in Words(n)
    BY <1>4, <2>1, <2>2, <2>4
  <2> QED BY <2>2, <2>5
<1> QED BY <1>3, <1>4, <1>5

\* A run begins with a word of its packets, unless it is empty.
LEMMA RunFirst ==
    ASSUME NEW b, NEW t, NEW n \in Nat, NEW w, NEW v, NEW lens, Run(b, t, n, w, v, lens)
    PROVE  w = v \/ Valid(lens, w)
<1> DEFINE z == 0
<1>1. Word(b, t, n, v, z) = w
  BY DEF Run
<1>2. z < n => z \in 0..(n - 1)
  OBVIOUS
<1> HIDE DEF z
<1>3. CASE z < n
  <2>1. Valid(lens, b[mask(t + z)])
    BY <1>2, <1>3, RunWord
  <2>2. w = b[mask(t + z)]
    BY <1>1, <1>3 DEF Word
  <2> QED BY <2>1, <2>2
<1>4. CASE ~ (z < n)
  BY <1>1, <1>4 DEF Word
<1> QED BY <1>3, <1>4

\* The words that are due on an open channel, and the one the modem writes next
LEMMA WordsInBounds ==
    ASSUME LensBounded, StreamInv
    PROVE  /\ md.word \in Words(MaxIn)
           /\ ch.pending \in 0..Longest
           /\ ch_is_open(md, ch) => nextIn \in Words(MaxIn) /\ nextOut \in Words(MaxOut)
<1>0. /\ SInv /\ Lengths /\ InStream /\ OutStream /\ MaxIn \in Nat /\ MaxOut \in Nat
      /\ inLen \in Seq(Lens) /\ outLen \in Seq(Lens) /\ Len(inLen) <= MaxIn /\ Len(outLen) <= MaxOut
  BY SmdAssumption DEF StreamInv, Lengths
<1>1. /\ inLen \in Seq(Nat \ {0}) /\ outLen \in Seq(Nat \ {0})
      /\ Len(inLen) \in Nat /\ Len(outLen) \in Nat
  BY <1>0, LensFacts
<1>2. Longest \in Nat /\ Header \in Nat \ {0} /\ \A l \in Lens : l \in Nat /\ l <= Longest
  BY LongestPacket
<1>3. md.word \in Words(MaxIn)
  <2> DEFINE p == md.word[1]
             k == md.word[2]
  <2>1. md.word = <<p, k>> /\ p \in Nat /\ k \in Nat
    BY <1>0, PairWord DEF InStream, InCall
  <2>2. /\ p = (IF k = 0 THEN Len(inLen) + 1 ELSE Len(inLen)) /\ p > 0
        /\ k > 0 => k < Header + inLen[p]
    BY <1>0 DEF InStream, InCall, SInv, WordsOK
  <2> HIDE DEF p, k
  <2>3. CASE k = 0
    BY <1>0, <2>1, <2>2, <2>3, WordOfPacket
  <2>4. CASE k # 0
    <3>1. p \in DOMAIN inLen /\ inLen[p] \in Nat
      BY <1>1, <2>1, <2>2, <2>4
    <3>2. k <= Header + inLen[p]
      BY <1>2, <2>1, <2>2, <2>4, <3>1
    <3> QED BY <1>0, <2>1, <3>1, <3>2, WordOfPacket
  <2> QED BY <2>3, <2>4
<1>4. ASSUME Len(outLen) > 0
      PROVE  Len(outLen) \in DOMAIN outLen /\ outLen[Len(outLen)] \in Lens
  BY <1>0, <1>1, <1>4
<1>5. ch.pending \in 0..Longest
  <2>1. ch.pending \in Nat
    BY <1>0 DEF OutStream, OutPending
  <2>2. CASE ch.pending > 0 /\ ~ (Writes /\ call.kind # "segment")
    <3>1. Len(outLen) > 0 /\ ch.pending <= outLen[Len(outLen)]
      BY <1>0, <2>2 DEF OutStream, OutPending
    <3> QED BY <1>2, <1>4, <2>1, <3>1
  <2>3. CASE Writes /\ call.kind # "segment"
    <3>1. ch.pending = 0 \/ ch.pending \in Lens
      BY <1>0, <2>3 DEF OutStream, OutPacket
    <3> QED BY <1>2, <2>1, <3>1
  <2> QED BY <1>2, <2>1, <2>2, <2>3
<1>6. OutWord \in Words(MaxOut)
  <2>1. CASE Writes
    <3> DEFINE p == call.word[1]
               k == call.word[2]
    <3>1. /\ call.word = <<p, k>> /\ p \in Nat /\ k \in Nat /\ call.rest \in Nat
          /\ \/ p = Len(outLen) + 1 /\ k = 0
             \/ /\ p = Len(outLen) /\ p \in DOMAIN outLen /\ outLen[p] \in Nat \ {0}
                /\ k + call.rest <= Header + outLen[p]
      BY <1>0, <2>1, CallWord
    <3>2. OutWord = Norm(outLen, <<p, k>>)
      BY <2>1, <3>1 DEF OutWord
    <3> HIDE DEF p, k
    <3>3. CASE p = Len(outLen) + 1 /\ k = 0
      <4>1. OutWord = <<Len(outLen) + 1, k>>
        BY <1>1, <3>1, <3>2, <3>3, LastWord
      <4> QED BY <1>0, <3>3, <4>1, WordOfPacket
    <3>4. CASE /\ p = Len(outLen) /\ p \in DOMAIN outLen /\ outLen[p] \in Nat \ {0}
               /\ k + call.rest <= Header + outLen[p]
      <4>1. k <= Header + outLen[p] /\ Len(outLen) > 0
        BY <1>1, <1>2, <3>1, <3>4
      <4>2. OutWord = <<p, k>> \/ OutWord = <<Len(outLen) + 1, 0>>
        <5>1. k < Header + outLen[p] \/ k >= Header + outLen[p]
          BY <1>2, <3>1, <3>4
        <5> QED BY <1>1, <3>1, <3>2, <3>4, <4>1, <5>1, LastWord
      <4> QED BY <1>0, <3>1, <3>4, <4>1, <4>2, WordOfPacket
    <3> QED BY <3>1, <3>3, <3>4
  <2>2. CASE ~ Writes /\ ch.pending = 0
    BY <1>0, <2>2, WordOfPacket DEF OutWord
  <2>3. CASE ~ Writes /\ ch.pending # 0
    <3> DEFINE p == Len(outLen)
               k == Header + outLen[p] - ch.pending
    <3>1. p > 0 /\ ch.pending <= outLen[p] /\ ch.pending \in Nat
      BY <1>0, <2>3 DEF OutStream, OutPending
    <3>2. p \in DOMAIN outLen /\ outLen[p] \in Nat
      BY <1>2, <1>4, <3>1
    <3>3. k \in Nat /\ k <= Header + outLen[p]
      BY <1>2, <3>1, <3>2
    <3>4. OutWord = <<p, k>>
      BY <2>3 DEF OutWord
    <3> HIDE DEF p, k
    <3> QED BY <1>0, <3>2, <3>3, <3>4, WordOfPacket
  <2> QED BY <2>1, <2>2, <2>3
<1>7. ASSUME ch_is_open(md, ch)
      PROVE  nextIn \in Words(MaxIn) /\ nextOut \in Words(MaxOut)
  <2>1. nextIn = md.word \/ Valid(inLen, nextIn)
    <3>1. Run(rbuf, InTail, Between(InTail, md.head), nextIn, md.word, inLen)
      BY <1>0, <1>7 DEF InStream, InRun
    <3>2. Between(InTail, md.head) \in Nat
      BY <1>0, InTailFacts
    <3> QED BY <3>1, <3>2, RunFirst
  <2>2. nextOut = OutWord \/ Valid(outLen, nextOut)
    <3>1. Run(sbuf, md.tail, Between(md.tail, ch.head), nextOut, OutWord, outLen)
      BY <1>0, <1>7 DEF OutStream, OutRun
    <3>2. md.tail \in Offsets /\ ch.head \in Offsets
      BY <1>0 DEF SInv, Types, ChannelTypes
    <3>3. Between(md.tail, ch.head) \in Nat
      BY <3>2, BetweenPlace
    <3> QED BY <3>1, <3>3, RunFirst
  <2> QED BY <1>0, <1>3, <1>6, <2>1, <2>2, WordOfPacket
<1> QED BY <1>3, <1>5, <1>7

\* What the streams say nothing about: the words due while the channel is not
\* open, the words that have been taken out of the FIFOs, and current_packet
Bounds ==
    /\ ~ ch_is_open(md, ch) => nextIn \in Words(MaxIn) /\ nextOut \in Words(MaxOut)
    /\ rbuf \in [Offsets -> Words(MaxIn)] /\ sbuf \in [Offsets -> Words(MaxOut)]
    /\ ch.current <= Longest

LEMMA InitBounds == LensBounded /\ Init => Bounds
<1> SUFFICES ASSUME LensBounded, Init PROVE Bounds
  OBVIOUS
<1>1. Longest \in Nat /\ Header \in Nat \ {0} /\ MaxIn \in Nat /\ MaxOut \in Nat
  BY LongestPacket, SmdAssumption
<1>2. ASSUME NEW n \in Nat PROVE <<0, 0>> \in Words(n) /\ <<1, 0>> \in Words(n)
  BY <1>1 DEF Words, Longest
<1>3. rbuf \in [Offsets -> Words(MaxIn)] /\ sbuf \in [Offsets -> Words(MaxOut)]
  BY <1>1, <1>2 DEF Init, Offsets
<1>4. ch.current = 0 /\ nextIn = <<1, 0>> /\ nextOut = <<1, 0>>
  BY DEF Init
<1> QED BY <1>1, <1>2, <1>3, <1>4 DEF Bounds

\* A step after which the channel is not open has not moved on in a stream.
LEMMA NotOpenWords ==
    ASSUME StreamInv, Next, ~ (md'.state = SMD_SS_OPENED /\ ch'.state = SMD_SS_OPENED)
    PROVE  /\ nextIn' \in {nextIn, <<Len(inLen) + 1, 0>>}
           /\ nextOut' \in {nextOut, <<Len(outLen) + 1, 0>>}
<1>0. SInv /\ Types /\ CallOK /\ Handshake /\ WordsOK
  BY DEF StreamInv, SInv
<1>1. CASE handle_smd_irq
  <2> DEFINE seen == StateSeen(ch)
             data == ch_is_open(md, ch) /\ md.flag
             c    == IF data THEN update_packet_state(seen) ELSE seen
             f    == md.flag /\ ~ data
  <2>1. /\ ch' = c /\ md' = [md EXCEPT !.flag = f]
        /\ nextIn' = AfterHeader(seen, c) /\ nextOut' = Opened(ch, c)
    BY <1>1 DEF handle_smd_irq
  <2>2. nextOut' \in {nextOut, <<Len(outLen) + 1, 0>>}
    BY <2>1 DEF Opened
  <2>3. CASE data
    <3>1. seen = ch
      BY <1>0, <2>3 DEF StateSeen, Handshake, ch_is_open
    <3>2. ch \in ChannelTypes /\ c = update_packet_state(ch)
      BY <1>0, <2>3, <3>1 DEF Types
    <3> HIDE DEF c, seen
    <3>3. c.state = ch.state
      BY <1>0, <2>3, <3>2, HeaderTaken DEF WordsOK
    <3> HIDE DEF f
    <3>4. md'.state = md.state
      BY <1>0, <2>1 DEF Types
    <3> QED BY <2>1, <2>3, <3>3, <3>4 DEF ch_is_open
  <2>4. CASE ~ data
    <3>1. AfterHeader(seen, c) = nextIn
      BY <2>4 DEF AfterHeader
    <3> QED BY <2>1, <2>2, <3>1
  <2> QED BY <2>3, <2>4
<1>2. CASE handle_smd_irq_closing_list
  BY <1>2 DEF handle_smd_irq_closing_list, Opened
<1>3. CASE ReadCopy \/ ReadEnd
  <2>1. ch_is_open(md, ch) /\ md' = md
    BY <1>0, <1>3 DEF CallOK, ReadCopy, ReadEnd
  <2>2. CASE ReadCopy
    BY <2>1, <2>2 DEF ReadCopy, ch_is_open
  <2>3. CASE ReadEnd
    <3> DEFINE x == Minus(ch.current, call.r)
               c == [ch EXCEPT !.current = x]
    <3>1. ch' = update_packet_state(c)
      BY <2>3 DEF ReadEnd
    <3>2. x \in Nat
      BY <1>0, SmdAssumption DEF Types, ChannelTypes, Minus
    <3> HIDE DEF x
    <3>3. c \in ChannelTypes /\ c.tail = ch.tail /\ c.state = ch.state
      BY <1>0, <3>2 DEF Types, ChannelTypes
    <3> HIDE DEF c
    <3>4. \A o \in Offsets : Inside(c.tail, md.head, o) => rbuf[o][1] \in DOMAIN inLen
      BY <1>0, <2>1, <3>3 DEF WordsOK
    <3>5. ch'.state = ch.state
      BY <1>0, <3>1, <3>3, <3>4, HeaderTaken
    <3> QED BY <2>1, <3>5 DEF ch_is_open
  <2> QED BY <1>3, <2>2, <2>3
<1>4. CASE ModemReads
  <2>1. ch_is_open(md, ch) /\ ch' = ch
        /\ md' = [md EXCEPT !.tail = mask(md.tail + 1), !.flag = TRUE]
    BY <1>4 DEF ModemReads, ModemSets
  <2>2. md'.state = md.state
    BY <1>0, <2>1 DEF Types
  <2> QED BY <2>1, <2>2 DEF ch_is_open
<1>5. CASE ModemOpens
  BY <1>5 DEF ModemOpens
<1>6. CASE /\ ~ Interrupt /\ ~ ReadCopy /\ ~ ReadEnd
           /\ ~ ModemReads /\ ~ ModemOpens
  BY <1>6 DEF Next, finalize_channel_close_fn, Reading, ch_read_done, Writing, WriteCopy,
       ch_write_done, WriteEnd, CloseCheck, Drained, Client, smd_open, CloseSet,
       ReadBegin, SegmentBegin, WriteBegin, Modem, ModemOpened, ModemCloses,
       ModemAcks, ModemWrites
<1> QED BY <1>1, <1>2, <1>3, <1>4, <1>5, <1>6 DEF Interrupt

\* A packet whose header is taken has one of the lengths.
LEMMA HeaderBounds ==
    ASSUME LensBounded, Types, Lengths, NEW c \in ChannelTypes, c.current <= Longest,
           NEW d, d = update_packet_state(c),
           \A o \in Offsets : Inside(c.tail, md.head, o) => rbuf[o][1] \in DOMAIN inLen
    PROVE  d.current <= Longest
<1>0. c.tail \in Offsets /\ md.head \in Offsets /\ Header \in Nat \ {0}
  BY SmdAssumption DEF Types, ChannelTypes
<1>1. CASE d = c
  BY <1>1
<1>2. CASE ~ (mask(md.head - c.tail + Size) < Header)
           /\ d = [c EXCEPT !.tail = mask(@ + Header), !.current = inLen[rbuf[c.tail][1]]]
  <2> DEFINE t == mask(c.tail + Header)
             p == rbuf[c.tail][1]
             x == inLen[p]
  <2>1. d = [c EXCEPT !.tail = t, !.current = x]
    BY <1>2
  <2>2. Header <= Between(c.tail, md.head)
    <3>1. mask(md.head - c.tail + Size) = Between(c.tail, md.head) /\ Between(c.tail, md.head) \in Offsets
      BY <1>0, MaskDifference
    <3> QED BY <1>0, <1>2, <3>1 DEF Offsets
  <2>3. Inside(c.tail, md.head, c.tail)
    BY <1>0, <2>2, SmdAssumption DEF Between, Inside, Offsets
  <2>4. p \in DOMAIN inLen
    BY <1>0, <2>3
  <2>5. x \in Lens
    BY <2>4 DEF Lengths
  <2>6. x <= Longest
    BY <2>5, LongestPacket
  <2> HIDE DEF t, x
  <2>7. d.current = x
    BY <2>1 DEF ChannelTypes
  <2> QED BY <2>6, <2>7
<1> QED BY <1>1, <1>2 DEF update_packet_state

\* current_packet is never more than a packet, nor does it go below 0.
LEMMA CurrentBounds ==
    ASSUME LensBounded, StreamInv, ch.current <= Longest, Next
    PROVE  ch'.current <= Longest
<1> USE DEF SMD_SS_CLOSED, SMD_SS_OPENING, SMD_SS_OPENED, SMD_SS_CLOSING
<1>0. /\ SInv /\ Types /\ CallOK /\ Handshake /\ WordsOK /\ Lengths /\ InStream
      /\ ch \in ChannelTypes /\ ch.current \in Nat
  BY DEF StreamInv, SInv, Types, ChannelTypes
<1>1. Longest \in Nat
  BY LongestPacket
<1>2. ASSUME NEW c \in ChannelTypes, NEW new \in States, c.current <= Longest
      PROVE  smd_state_change(c, new).current <= Longest
  <2> DEFINE d == smd_state_change(c, new)
  <2>1. d.current = c.current \/ d.current = 0
    <3> HIDE DEF d
    <3>1. d = smd_state_change(c, new)
      BY DEF d
    <3> QED BY <3>1, StateChange
  <2> QED BY <1>1, <1>2, <2>1
<1>3. StateSeen(ch).current <= Longest
  BY <1>0, <1>2 DEF StateSeen, Types
<1>4. CASE handle_smd_irq
  <2> DEFINE seen == StateSeen(ch)
             data == ch_is_open(md, ch) /\ md.flag
             c    == IF data THEN update_packet_state(seen) ELSE seen
  <2>1. ch' = c
    BY <1>4 DEF handle_smd_irq
  <2>2. CASE data
    <3>1. seen = ch
      BY <1>0, <2>2 DEF StateSeen, Handshake, ch_is_open
    <3>2. c = update_packet_state(ch)
      BY <2>2, <3>1
    <3> HIDE DEF c
    <3>3. c.current <= Longest
      BY <1>0, <2>2, <3>2, HeaderBounds DEF WordsOK
    <3> QED BY <2>1, <3>3
  <2>3. CASE ~ data
    BY <1>3, <2>1, <2>3
  <2> QED BY <2>2, <2>3
<1>5. CASE handle_smd_irq_closing_list
  BY <1>3, <1>5 DEF handle_smd_irq_closing_list
<1>6. CASE smd_open
  <2> DEFINE z == 0
             c == [ch EXCEPT !.list = "open", !.current = z]
  <2>1. ch' = smd_state_change(c, SMD_SS_OPENING)
    BY <1>6 DEF smd_open
  <2>2. z \in Nat /\ z <= Longest
    BY <1>1
  <2> HIDE DEF z
  <2>3. c \in ChannelTypes /\ c.current = z
    BY <1>0, <2>2 DEF ChannelTypes, ListNames
  <2> HIDE DEF c
  <2>4. SMD_SS_OPENING \in States
    BY DEF States
  <2> QED BY <1>2, <2>1, <2>2, <2>3, <2>4
<1>7. CASE ReadEnd
  <2> DEFINE x == Minus(ch.current, call.r)
             c == [ch EXCEPT !.current = x]
  <2>1. ch' = update_packet_state(c) /\ call.op = "read"
    BY <1>7 DEF ReadEnd
  <2>2. call.r + call.rest <= ch.current /\ call.r \in Nat /\ call.rest \in Nat
    BY <1>0, <2>1 DEF InStream, InCall, Types
  <2>3. x \in Nat /\ x <= Longest
    BY <1>0, <1>1, <2>2 DEF Minus
  <2> HIDE DEF x
  <2>4. c \in ChannelTypes /\ c.tail = ch.tail /\ c.current = x
    BY <1>0, <2>3 DEF ChannelTypes
  <2> HIDE DEF c
  <2>5. ch_is_open(md, ch)
    BY <1>0, <2>1 DEF CallOK
  <2>6. \A o \in Offsets : Inside(c.tail, md.head, o) => rbuf[o][1] \in DOMAIN inLen
    BY <1>0, <2>4, <2>5 DEF WordsOK
  <2> QED BY <1>0, <2>1, <2>3, <2>4, <2>6, HeaderBounds
<1>8. CASE /\ ~ Interrupt /\ ~ smd_open /\ ~ ReadEnd
  <2>1. ch'.current = ch.current
    <3> USE DEF ChannelTypes
    <3>1. CASE finalize_channel_close_fn \/ CloseSet \/ CloseCheck
      BY <1>0, <3>1 DEF finalize_channel_close_fn, CloseSet, CloseCheck
    <3>2. CASE ch_read_done \/ ch_write_done
      BY <1>0, <3>2 DEF ch_read_done, ch_write_done
    <3>3. CASE WriteEnd
      BY <1>0, <3>3 DEF WriteEnd
    <3>4. CASE \E kind \in {"packet", "start"}, len \in Lens : WriteBegin(kind, len)
      BY <1>0, <3>4 DEF WriteBegin
    <3>5. CASE \/ ReadCopy \/ WriteCopy \/ Drained \/ Modem
               \/ \E len \in Lens : ReadBegin(len) \/ SegmentBegin(len)
      BY <3>5 DEF ReadCopy, WriteCopy, Drained, Modem, ModemOpens, ModemOpened, ModemCloses,
           ModemAcks, ModemWrites, ModemReads, ReadBegin, SegmentBegin
    <3> QED BY <1>8, <3>1, <3>2, <3>3, <3>4, <3>5 DEF Next, Reading, Writing, Client
  <2> QED BY <2>1
<1> QED BY <1>4, <1>5, <1>6, <1>7, <1>8 DEF Interrupt

\* The FIFOs hold words that the modem, and the client, have put in.
LEMMA FifoBounds ==
    ASSUME LensBounded, StreamInv, Bounds, Next
    PROVE  rbuf' \in [Offsets -> Words(MaxIn)] /\ sbuf' \in [Offsets -> Words(MaxOut)]
<1>0. /\ SInv /\ Lengths /\ OutStream /\ Types
      /\ rbuf \in [Offsets -> Words(MaxIn)] /\ sbuf \in [Offsets -> Words(MaxOut)]
  BY DEF StreamInv, SInv, Bounds
<1>1. CASE ModemWrites
  <2>1. rbuf' = [rbuf EXCEPT ![md.head] = md.word] /\ sbuf' = sbuf
    BY <1>1 DEF ModemWrites
  <2>2. md.word \in Words(MaxIn)
    BY WordsInBounds
  <2> QED BY <1>0, <2>1, <2>2
<1>2. CASE WriteCopy
  <2> DEFINE m == Min({ch_write_buffer, call.rest})
             p == call.word[1]
             k == call.word[2]
             h == ch.head
  <2>1. /\ sbuf' = [o \in Offsets |->
                      IF o \in h..(h + m - 1) THEN <<p, k + o - h>> ELSE sbuf[o]]
        /\ rbuf' = rbuf /\ call.op = "write"
    BY <1>2 DEF WriteCopy, Offsets
  <2>2. m \in Nat /\ m <= call.rest /\ h \in Nat /\ call.rest \in Nat
    <3>1. ch_write_buffer \in Nat
      BY <1>0, Avail
    <3>2. h \in Nat /\ call.rest \in Nat
      BY <1>0, SmdAssumption DEF Types, ChannelTypes, Offsets
    <3> QED BY <3>1, <3>2, MinTwo
  <2>3. Writes
    BY <2>1 DEF Writes
  <2>4. /\ p \in Nat /\ k \in Nat
        /\ \/ p = Len(outLen) + 1 /\ k = 0 /\ call.len \in Lens /\ call.rest <= Header + call.len
           \/ /\ p = Len(outLen) /\ p \in DOMAIN outLen /\ outLen[p] \in Nat \ {0}
              /\ k + call.rest <= Header + outLen[p]
    BY <1>0, <2>3, CallWord
  <2>5. Longest \in Nat /\ Header \in Nat /\ \A l \in Lens : l \in Nat /\ l <= Longest
    BY LongestPacket
  <2> HIDE DEF m, p, k, h
  <2>6. p <= MaxOut + 1 /\ k + call.rest <= Header + Longest
    <3>1. Len(outLen) \in Nat /\ Len(outLen) <= MaxOut /\ MaxOut \in Nat /\ outLen \in Seq(Lens)
      BY <1>0, SmdAssumption DEF Lengths
    <3>2. p \in DOMAIN outLen => outLen[p] \in Lens
      BY <3>1
    <3> QED BY <2>2, <2>4, <2>5, <3>1, <3>2
  <2>7. ASSUME NEW o \in Offsets
        PROVE  (IF o \in h..(h + m - 1) THEN <<p, k + o - h>> ELSE sbuf[o]) \in Words(MaxOut)
    <3>1. CASE o \in h..(h + m - 1)
      <4> DEFINE j == k + o - h
      <4>1. j \in Nat /\ j <= Header + Longest
        BY <2>2, <2>4, <2>5, <2>6, <3>1
      <4> HIDE DEF j
      <4>2. <<p, j>> \in Words(MaxOut)
        BY <2>4, <2>6, <4>1, WordOfPair, SmdAssumption
      <4> QED BY <3>1, <4>2 DEF j
    <3> QED BY <1>0, <3>1
  <2> QED BY <1>0, <2>1, <2>7
<1>3. CASE ~ ModemWrites /\ ~ WriteCopy
  <2>1. UNCHANGED <<rbuf, sbuf>>
    BY <1>3 DEF Next, Interrupt, handle_smd_irq, handle_smd_irq_closing_list,
         finalize_channel_close_fn, Reading, ReadCopy, ch_read_done, ReadEnd, Writing,
         ch_write_done, WriteEnd, CloseCheck, Drained, Client, smd_open, CloseSet,
         ReadBegin, SegmentBegin, WriteBegin, Modem, ModemOpens, ModemOpened, ModemCloses,
         ModemAcks, ModemReads
  <2> QED BY <1>0, <2>1
<1> QED BY <1>1, <1>2, <1>3

LEMMA NextBounds == LensBounded /\ StreamInv /\ Bounds /\ [Next]_vars => Bounds'
<1> SUFFICES ASSUME LensBounded, StreamInv, Bounds, [Next]_vars PROVE Bounds'
  OBVIOUS
<1>1. CASE UNCHANGED vars
  <2>1. UNCHANGED <<ch, md, rbuf, sbuf, nextIn, nextOut>>
    BY <1>1 DEF vars
  <2> QED BY <2>1 DEF Bounds, ch_is_open
<1>2. CASE Next
  <2>1. ch'.current <= Longest
    BY <1>2, CurrentBounds DEF Bounds
  <2>2. rbuf' \in [Offsets -> Words(MaxIn)] /\ sbuf' \in [Offsets -> Words(MaxOut)]
    BY <1>2, FifoBounds
  <2>3. ASSUME ~ (md'.state = SMD_SS_OPENED /\ ch'.state = SMD_SS_OPENED)
        PROVE  nextIn' \in Words(MaxIn) /\ nextOut' \in Words(MaxOut)
    <3>1. nextIn \in Words(MaxIn) /\ nextOut \in Words(MaxOut)
      BY WordsInBounds DEF Bounds
    <3>2. <<Len(inLen) + 1, 0>> \in Words(MaxIn) /\ <<Len(outLen) + 1, 0>> \in Words(MaxOut)
      BY WordOfPacket, SmdAssumption DEF StreamInv, Lengths
    <3>3. /\ nextIn' \in {nextIn, <<Len(inLen) + 1, 0>>}
          /\ nextOut' \in {nextOut, <<Len(outLen) + 1, 0>>}
      BY <1>2, <2>3, NotOpenWords
    <3> QED BY <3>1, <3>2, <3>3
  <2> QED BY <2>1, <2>2, <2>3 DEF Bounds, ch_is_open
<1> QED BY <1>1, <1>2

LEMMA BoundsTypes == LensBounded /\ StreamInv /\ Bounds => TypeOK
<1> SUFFICES ASSUME LensBounded, StreamInv, Bounds PROVE TypeOK
  OBVIOUS
<1>0. Types /\ Longest \in Nat
  BY LongestPacket DEF StreamInv, SInv
<1>1. /\ md.word \in Words(MaxIn) /\ ch.pending \in 0..Longest
      /\ nextIn \in Words(MaxIn) /\ nextOut \in Words(MaxOut)
  BY WordsInBounds DEF Bounds
<1>2. rbuf \in [0..(Size - 1) -> Words(MaxIn)] /\ sbuf \in [0..(Size - 1) -> Words(MaxOut)]
  BY DEF Bounds, Offsets
<1>3. ch.current \in 0..Longest
  BY <1>0 DEF Types, ChannelTypes, Bounds
<1>4. {ch.tail, ch.head, md.tail, md.head} \subseteq 0..(Size - 1)
  BY <1>0 DEF Types, ChannelTypes, Offsets
<1>5. /\ ch.list \in ListNames /\ ch.last \in States /\ ch.state \in States
      /\ md.state \in States /\ call.op \in Ops
  BY <1>0 DEF Types, ChannelTypes
<1> QED BY <1>1, <1>2, <1>3, <1>4, <1>5 DEF TypeOK, ListNames, Ops, Longest

(***************************************************************************)
(* As long as no call overlaps the end of a session and packets have some  *)
(* greatest length, every index stays inside its FIFO, current_packet and  *)
(* pending_pkt_sz stay lengths of packets (the unsigned subtraction at the *)
(* end of smd_packet_read never wraps), and no word in a FIFO or due next  *)
(* lies beyond the packets that may be sent or beyond a packet's end.      *)
(***************************************************************************)
THEOREM SmdTypeOK == Orderly /\ LensBounded => (Spec => []TypeOK)
<1> SUFFICES ASSUME Orderly, LensBounded PROVE Spec => []TypeOK
  OBVIOUS
<1> DEFINE I == StreamInv /\ Bounds
<1>1. Init => I
  BY InitStreamInv, InitBounds
<1>2. I /\ [Next]_vars => I'
  BY NextStreamInv, NextBounds
<1>3. I => TypeOK
  BY BoundsTypes
<1> QED BY <1>1, <1>2, <1>3, PTL DEF Spec
=============================================================================
