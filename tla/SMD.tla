-------------------------------- MODULE SMD --------------------------------
(***************************************************************************)
(* A packet channel of arch/arm/mach-msm/smd.c: two FIFOs in memory that   *)
(* the phone's processor ("apps") shares with the modem, the handshake by  *)
(* which both sides open and close the channel, and the packet layer.      *)
(*                                                                         *)
(* The modem runs on another processor, so each of its accesses may fall   *)
(* between two of ours; the interrupt handler and a client's call          *)
(* interleave except where smd_lock is held.  What the modem does is not   *)
(* in this repository: it follows the handshake that the driver expects.   *)
(*                                                                         *)
(* FIFOs hold words.  A word is the pair <<p, k>>, the k-th word of packet *)
(* number p of its direction; words 0 .. Header - 1 are the header.        *)
(***************************************************************************)
EXTENDS Integers, Sequences, FiniteSetsExt

CONSTANTS
    Size,           \* fifo_size, a power of two
    Header,         \* SMD_HEADER_SIZE
    Lens,           \* lengths of packets
    MaxIn, MaxOut,  \* bounds on the packets of the modem and of the client
    Orderly         \* do closes wait for the packets and calls under way, and
                    \* does the modem make one change of state at a time?

ASSUME SmdAssumption ==
    /\ Header \in Nat \ {0} /\ Size \in Nat /\ Size > Header
    /\ Lens \subseteq Nat \ {0}
    /\ MaxIn \in Nat /\ MaxOut \in Nat
    /\ Orderly \in BOOLEAN

VARIABLES
    ch,      \* struct smd_channel and what this side writes of the halves
    md,      \* what the modem writes of the halves, and its next word;
             \* flag stands for fHEAD and fTAIL
    rbuf,    \* recv_data
    sbuf,    \* send_data
    irq,     \* an interrupt of the modem is pending
    call,    \* the client's call that is under way
    event,   \* the client was notified and has not found the FIFO empty since
    inLen, outLen,     \* lengths of the packets begun, per direction
    nextIn, nextOut    \* the word the client, and the modem, has to get next

vars == <<ch, md, rbuf, sbuf, irq, call, event, inLen, outLen, nextIn, nextOut>>

SMD_SS_CLOSED  == "CLOSED"
SMD_SS_OPENING == "OPENING"
SMD_SS_OPENED  == "OPENED"
SMD_SS_CLOSING == "CLOSING"

mask(n) == n % Size

\* The word behind <<p, k>> in a stream of packets with the lengths lens
Succ(lens, w) ==
    IF w[1] \in DOMAIN lens /\ w[2] + 1 < Header + lens[w[1]]
    THEN <<w[1], w[2] + 1>> ELSE <<w[1] + 1, 0>>

-----------------------------------------------------------------------------
(* The FIFOs. *)

\* Mutant of smd_stream_read_avail: no mask
ReadAvailNoMask == IF md.head >= ch.tail THEN md.head - ch.tail ELSE 0

smd_stream_read_avail == mask(md.head - ch.tail + Size)
smd_stream_write_avail == Size - 1 - mask(ch.head - md.tail + Size)

smd_packet_read_avail == Min({smd_stream_read_avail, ch.current})

ch_is_open(m, c) == m.state = SMD_SS_OPENED /\ c.state = SMD_SS_OPENED

\* Words that can be read, or written, without going round the end
ch_read_buffer == IF ch.tail <= md.head THEN md.head - ch.tail ELSE Size - ch.tail

ch_write_buffer ==
    IF ch.head < md.tail
    THEN md.tail - ch.head - 1
    ELSE IF md.tail = 0 THEN Size - ch.head - 1 ELSE Size - ch.head

\* Takes the header of the next packet.  Neither side sends empty packets.
update_packet_state(c) ==
    IF c.current > 0 \/ mask(md.head - c.tail + Size) < Header
    THEN c
    ELSE [c EXCEPT !.tail = mask(@ + Header), !.current = inLen[rbuf[c.tail][1]]]

\* What taking the header does to the word that is due
AfterHeader(c, d) ==
    IF d.tail = c.tail THEN nextIn ELSE <<rbuf[c.tail][1], Header>>

-----------------------------------------------------------------------------
(* The handshake and the interrupt. *)

\* Mutant of smd_state_change: the end of the session keeps the packet
StateChangeKeepsPacket(c, new) ==
    LET d == [c EXCEPT !.last = new]
    IN  CASE new = SMD_SS_OPENING /\ c.state \in {SMD_SS_CLOSING, SMD_SS_CLOSED}
               -> [d EXCEPT !.tail = 0, !.head = 0, !.state = SMD_SS_OPENING]
          [] new = SMD_SS_OPENED /\ c.state = SMD_SS_OPENING
               -> [d EXCEPT !.state = SMD_SS_OPENED]
          [] new = SMD_SS_CLOSED /\ c.state = SMD_SS_OPENED
               -> [d EXCEPT !.state = SMD_SS_CLOSING]
          [] new = SMD_SS_CLOSING /\ c.state = SMD_SS_CLOSED
               -> [d EXCEPT !.list = "to_close"]
          [] OTHER -> d

smd_state_change(c, new) ==
    LET d == [c EXCEPT !.last = new]
    IN  CASE new = SMD_SS_OPENING /\ c.state \in {SMD_SS_CLOSING, SMD_SS_CLOSED}
               -> [d EXCEPT !.tail = 0, !.head = 0, !.state = SMD_SS_OPENING]
          [] new = SMD_SS_OPENED /\ c.state = SMD_SS_OPENING
               -> [d EXCEPT !.state = SMD_SS_OPENED]
          [] new = SMD_SS_CLOSED /\ c.state = SMD_SS_OPENED
               -> [d EXCEPT !.state = SMD_SS_CLOSING, !.current = 0]
          [] new = SMD_SS_CLOSING /\ c.state = SMD_SS_CLOSED
               -> [d EXCEPT !.list = "to_close"]
          [] OTHER -> d

StateSeen(c) == IF md.state # c.last THEN smd_state_change(c, md.state) ELSE c

\* smd_lock is held by the client's call
Locked == call.op = "close"

\* The word that is due to the modem in a new session
Opened(c, d) ==
    IF c.state # SMD_SS_OPENED /\ d.state = SMD_SS_OPENED
    THEN <<Len(outLen) + 1, 0>> ELSE nextOut

\* Channels on smd_ch_list_modem.  The interrupt is shared by all channels, so
\* the handler may run without an interrupt for this one.
handle_smd_irq ==
    LET seen == StateSeen(ch)
        data == ch_is_open(md, ch) /\ md.flag
        c    == IF data THEN update_packet_state(seen) ELSE seen
    IN  /\ ~ Locked /\ ch.list = "open"
        /\ irq' = FALSE
        /\ ch' = c
        /\ md' = [md EXCEPT !.flag = @ /\ ~ data]
        /\ event' = (event \/ data)
        /\ nextIn' = AfterHeader(seen, c)
        /\ nextOut' = Opened(ch, c)
        /\ UNCHANGED <<rbuf, sbuf, call, inLen, outLen>>

\* A channel on no list of the handler is not looked at.
handle_smd_irq_closing_list ==
    /\ ~ Locked /\ ch.list # "open"
    /\ irq' = FALSE
    /\ ch' = IF ch.list = "closing" THEN StateSeen(ch) ELSE ch
    /\ nextOut' = Opened(ch, ch')
    /\ UNCHANGED <<md, rbuf, sbuf, call, event, inLen, outLen, nextIn>>

finalize_channel_close_fn ==
    /\ ch.list = "to_close"
    /\ ch' = [ch EXCEPT !.list = "closed"]
    /\ UNCHANGED <<md, rbuf, sbuf, irq, call, event, inLen, outLen, nextIn, nextOut>>

-----------------------------------------------------------------------------
(* The client: open and close. *)

NoCall == [op |-> "none", kind |-> "none", rest |-> 0, n |-> 0, r |-> 0,
           len |-> 0, word |-> <<0, 0>>]

\* No call overlaps the end of a session.
Quiet == Orderly => md.state = ch.last

smd_open ==
    /\ call = NoCall /\ ch.list = "closed"
    /\ ch' = smd_state_change([ch EXCEPT !.list = "open", !.current = 0],
                              SMD_SS_OPENING)
    /\ UNCHANGED <<md, rbuf, sbuf, irq, call, event, inLen, outLen, nextIn, nextOut>>

\* Mutant of CloseCheck: the channel also waits for a modem that is opening
CloseWaitsForOpening ==
    /\ call.op = "close"
    /\ call' = NoCall
    /\ ch' = [ch EXCEPT !.list = IF md.state = SMD_SS_CLOSED
                                 THEN "closed" ELSE "closing"]
    /\ UNCHANGED <<md, rbuf, sbuf, irq, event, inLen, outLen, nextIn, nextOut>>

\* smd_close, under smd_lock: the state is set, then the modem's is looked at
CloseSet ==
    /\ call = NoCall /\ ch.list = "open" /\ (Orderly => ch.pending = 0)
    /\ call' = [NoCall EXCEPT !.op = "close"]
    /\ ch' = [ch EXCEPT !.list = "none", !.state = SMD_SS_CLOSED]
    /\ event' = FALSE
    /\ UNCHANGED <<md, rbuf, sbuf, irq, inLen, outLen, nextIn, nextOut>>

CloseCheck ==
    /\ call.op = "close"
    /\ call' = NoCall
    /\ ch' = [ch EXCEPT !.list = IF md.state = SMD_SS_OPENED
                                 THEN "closing" ELSE "closed"]
    /\ UNCHANGED <<md, rbuf, sbuf, irq, event, inLen, outLen, nextIn, nextOut>>

-----------------------------------------------------------------------------
(* The client: smd_packet_read, in process context. *)

\* Clients call smd_read when smd_read_avail says that there is something.
ReadBegin(len) ==
    /\ call = NoCall /\ ch.list = "open" /\ Quiet /\ smd_packet_read_avail > 0
    /\ call' = [NoCall EXCEPT !.op = "read", !.rest = Min({len, ch.current})]
    /\ UNCHANGED <<ch, md, rbuf, sbuf, irq, event, inLen, outLen, nextIn, nextOut>>

\* The loop of ch_read: ch_read_buffer and the copy, then ch_read_done
ReadCopy ==
    LET n == Min({ch_read_buffer, call.rest})
    IN  /\ call.op = "read" /\ n > 0
        /\ call' = [call EXCEPT !.op = "copied", !.n = n]
        /\ nextIn' = Succ(inLen, rbuf[ch.tail + n - 1])
        /\ UNCHANGED <<ch, md, rbuf, sbuf, irq, event, inLen, outLen, nextOut>>

ch_read_done ==
    /\ call.op = "copied" /\ call.n <= smd_stream_read_avail
    /\ call' = [call EXCEPT !.op = "read", !.rest = @ - call.n,
                            !.n = 0, !.r = @ + call.n]
    /\ ch' = [ch EXCEPT !.tail = mask(@ + call.n)]
    /\ UNCHANGED <<md, rbuf, sbuf, irq, event, inLen, outLen, nextIn, nextOut>>

\* current_packet is unsigned: less than 0 is a very large packet
Minus(a, b) == IF a < b THEN 2 * Size ELSE a - b

\* Mutant of ReadEnd: the header of the next packet is left for an interrupt
ReadEndNoUpdate ==
    /\ call.op = "read" /\ Min({ch_read_buffer, call.rest}) = 0
    /\ call' = NoCall
    /\ ch' = [ch EXCEPT !.current = Minus(@, call.r)]
    /\ UNCHANGED <<md, rbuf, sbuf, irq, event, inLen, outLen, nextIn, nextOut>>

ReadEnd ==
    LET c == [ch EXCEPT !.current = Minus(@, call.r)]
        d == update_packet_state(c)
    IN  /\ call.op = "read" /\ Min({ch_read_buffer, call.rest}) = 0
        /\ call' = NoCall
        /\ ch' = d
        /\ nextIn' = AfterHeader(c, d)
        /\ UNCHANGED <<md, rbuf, sbuf, irq, event, inLen, outLen, nextOut>>

\* A client that was notified reads until nothing is left.
Drained ==
    /\ event /\ call = NoCall /\ smd_packet_read_avail = 0
    /\ event' = FALSE
    /\ UNCHANGED <<ch, md, rbuf, sbuf, irq, call, inLen, outLen, nextIn, nextOut>>

-----------------------------------------------------------------------------
(* The client: smd_packet_write, smd_write_start and smd_write_segment. *)

\* -ENOMEM and -EAGAIN otherwise
WriteAllowed(kind, len) ==
    smd_stream_write_avail >= (IF kind = "start" THEN Header ELSE Header + len)

WriteBegin(kind, len) ==
    /\ call = NoCall /\ ch.list = "open" /\ Quiet /\ ch.pending = 0
    /\ Len(outLen) < MaxOut
    /\ WriteAllowed(kind, len)
    /\ call' = [NoCall EXCEPT !.op = "write", !.kind = kind, !.len = len,
                   !.rest = Header, !.word = <<Len(outLen) + 1, 0>>]
    /\ ch' = IF kind = "start" THEN [ch EXCEPT !.pending = len] ELSE ch
    /\ UNCHANGED <<md, rbuf, sbuf, irq, event, inLen, outLen, nextIn, nextOut>>

SegmentBegin(len) ==
    /\ call = NoCall /\ ch.list = "open" /\ Quiet /\ len <= ch.pending
    /\ LET p == Len(outLen)
       IN  call' = [NoCall EXCEPT !.op = "write", !.kind = "segment", !.rest = len,
                      !.word = <<p, Header + outLen[p] - ch.pending>>]
    /\ UNCHANGED <<ch, md, rbuf, sbuf, irq, event, inLen, outLen, nextIn, nextOut>>

\* The loop of smd_stream_write: the room, the test, the copy ...
WriteCopy ==
    LET n == Min({ch_write_buffer, call.rest})
        k == call.word[2]
    IN  /\ call.op = "write" /\ n > 0 /\ ch_is_open(md, ch)
        /\ sbuf' = [o \in 0..(Size - 1) |->
                      IF o \in ch.head..(ch.head + n - 1)
                      THEN <<call.word[1], k + o - ch.head>> ELSE sbuf[o]]
        /\ call' = [call EXCEPT !.op = "stored", !.n = n]
        /\ outLen' = IF call.word = <<Len(outLen) + 1, 0>>
                     THEN Append(outLen, call.len) ELSE outLen
        /\ UNCHANGED <<ch, md, rbuf, irq, event, inLen, nextIn, nextOut>>

\* Mutant of ch_write_done: no mask
WriteDoneNoMask ==
    /\ call.op = "stored" /\ call.n <= smd_stream_write_avail
    /\ ch' = [ch EXCEPT !.head = @ + call.n]
    /\ call' = [call EXCEPT !.op = "write", !.rest = @ - call.n, !.n = 0,
                   !.r = @ + call.n, !.word = <<@[1], @[2] + call.n>>]
    /\ UNCHANGED <<md, rbuf, sbuf, irq, event, inLen, outLen, nextIn, nextOut>>

\* ... and ch_write_done
ch_write_done ==
    /\ call.op = "stored" /\ call.n <= smd_stream_write_avail
    /\ ch' = [ch EXCEPT !.head = mask(@ + call.n)]
    /\ call' = [call EXCEPT !.op = "write", !.rest = @ - call.n, !.n = 0,
                   !.r = @ + call.n, !.word = <<@[1], @[2] + call.n>>]
    /\ UNCHANGED <<md, rbuf, sbuf, irq, event, inLen, outLen, nextIn, nextOut>>

\* The loop is over: the payload follows a whole header of smd_packet_write
WriteEnd ==
    LET more == call.kind = "packet" /\ call.rest = 0 /\ call.r = Header
    IN  /\ call.op = "write"
        /\ call.rest = 0 \/ ch_write_buffer = 0 \/ ~ ch_is_open(md, ch)
        /\ call' = IF more THEN [call EXCEPT !.rest = call.len] ELSE NoCall
        /\ ch' = CASE call.kind = "segment" -> [ch EXCEPT !.pending = @ - call.r]
                   [] call.kind = "start" /\ call.rest > 0 -> [ch EXCEPT !.pending = 0]
                   [] OTHER -> ch
        /\ UNCHANGED <<md, rbuf, sbuf, irq, event, inLen, outLen, nextIn, nextOut>>

-----------------------------------------------------------------------------
(* The modem.  It tells us of each change by an interrupt. *)

ModemSets(m) == md' = m /\ irq' = TRUE

\* An orderly modem has seen us take its last interrupt.
Told == Orderly => ~ irq

ModemOpens ==
    /\ Told
    /\ \/ md.state = SMD_SS_CLOSED /\ ch.state # SMD_SS_OPENED
       \/ md.state = SMD_SS_CLOSING /\ (Orderly => ch.state = SMD_SS_OPENING)
    /\ ModemSets([md EXCEPT !.state = SMD_SS_OPENING, !.head = 0, !.tail = 0,
                     !.word = <<Len(inLen) + 1, 0>>])
    /\ nextIn' = <<Len(inLen) + 1, 0>>
    /\ UNCHANGED <<ch, rbuf, sbuf, call, event, inLen, outLen, nextOut>>

ModemOpened ==
    /\ Told
    /\ md.state = SMD_SS_OPENING /\ ch.state = SMD_SS_OPENING
    /\ ModemSets([md EXCEPT !.state = SMD_SS_OPENED])
    /\ UNCHANGED <<ch, rbuf, sbuf, call, event, inLen, outLen, nextIn, nextOut>>

ModemCloses ==
    /\ Told
    /\ md.state = SMD_SS_OPENED
    /\ Orderly => ch.state = SMD_SS_OPENED /\ call = NoCall /\ ch.pending = 0
    /\ ModemSets([md EXCEPT !.state = SMD_SS_CLOSED])
    /\ UNCHANGED <<ch, rbuf, sbuf, call, event, inLen, outLen, nextIn, nextOut>>

\* The answer to our smd_close
ModemAcks ==
    /\ Told
    /\ md.state = SMD_SS_OPENED /\ ch.state = SMD_SS_CLOSED
    /\ ModemSets([md EXCEPT !.state = SMD_SS_CLOSING])
    /\ UNCHANGED <<ch, rbuf, sbuf, call, event, inLen, outLen, nextIn, nextOut>>

\* One word of a packet, then fHEAD
ModemWrites ==
    /\ ch_is_open(md, ch) /\ mask(md.head + 1) # ch.tail
    /\ rbuf' = [rbuf EXCEPT ![md.head] = md.word]
    /\ \/ md.word[2] > 0 /\ UNCHANGED inLen
       \/ /\ md.word[2] = 0 /\ Len(inLen) < MaxIn
          /\ \E len \in Lens : inLen' = Append(inLen, len)
    /\ ModemSets([md EXCEPT !.head = mask(@ + 1), !.word = Succ(inLen', @),
                            !.flag = TRUE])
    /\ UNCHANGED <<ch, sbuf, call, event, outLen, nextIn, nextOut>>

\* One word, then fTAIL
ModemReads ==
    /\ ch_is_open(md, ch) /\ md.tail # ch.head
    /\ nextOut' = Succ(outLen, sbuf[md.tail])
    /\ ModemSets([md EXCEPT !.tail = mask(@ + 1), !.flag = TRUE])
    /\ UNCHANGED <<ch, rbuf, sbuf, call, event, inLen, outLen, nextIn>>

-----------------------------------------------------------------------------
Init ==
    /\ ch = [list |-> "closed", last |-> SMD_SS_CLOSED, state |-> SMD_SS_CLOSED,
             current |-> 0, pending |-> 0, tail |-> 0, head |-> 0]
    /\ md = [state |-> SMD_SS_CLOSED, head |-> 0, tail |-> 0, flag |-> FALSE,
             word |-> <<1, 0>>]
    /\ rbuf = [o \in 0..(Size - 1) |-> <<0, 0>>]
    /\ sbuf = [o \in 0..(Size - 1) |-> <<0, 0>>]
    /\ irq = FALSE /\ call = NoCall /\ event = FALSE
    /\ inLen = <<>> /\ outLen = <<>>
    /\ nextIn = <<1, 0>> /\ nextOut = <<1, 0>>

Interrupt == handle_smd_irq \/ handle_smd_irq_closing_list

Reading == ReadCopy \/ ch_read_done \/ ReadEnd
Writing == WriteCopy \/ ch_write_done \/ WriteEnd

Client ==
    \/ smd_open \/ CloseSet
    \/ \E len \in Lens : ReadBegin(len) \/ SegmentBegin(len)
    \/ \E kind \in {"packet", "start"}, len \in Lens : WriteBegin(kind, len)

Modem ==
    \/ ModemOpens \/ ModemOpened \/ ModemCloses \/ ModemAcks
    \/ ModemWrites \/ ModemReads

Next ==
    \/ Interrupt \/ finalize_channel_close_fn
    \/ Reading \/ Writing \/ CloseCheck \/ Drained
    \/ Client
    \/ Modem

Spec == Init /\ [][Next]_vars

\* Interrupts are delivered, the close work runs, calls come to their end, a
\* client that was notified reads, and the modem answers a close.
Fairness ==
    /\ WF_vars(irq /\ Interrupt)
    /\ WF_vars(finalize_channel_close_fn)
    /\ WF_vars(Reading \/ Writing \/ CloseCheck)
    /\ SF_vars(event /\ (Drained \/ \E len \in Lens : ReadBegin(len)))
    /\ WF_vars(ModemAcks)

FairSpec == Spec /\ Fairness

-----------------------------------------------------------------------------
States == {SMD_SS_CLOSED, SMD_SS_OPENING, SMD_SS_OPENED, SMD_SS_CLOSING}
Words(n) == (0..(n + 1)) \X (0..(Header + Max({0} \cup Lens)))

TypeOK ==
    /\ ch.list \in {"closed", "open", "none", "closing", "to_close"}
    /\ ch.last \in States /\ ch.state \in States /\ md.state \in States
    /\ ch.current \in {0, 2 * Size} \cup 0..Max({0} \cup Lens)
    /\ ch.pending \in {0} \cup 0..Max({0} \cup Lens)
    /\ {ch.tail, ch.head, md.tail, md.head} \subseteq 0..(Size - 1)
    /\ rbuf \in [0..(Size - 1) -> Words(MaxIn)]
    /\ sbuf \in [0..(Size - 1) -> Words(MaxOut)]
    /\ {nextIn, md.word} \subseteq Words(MaxIn) /\ nextOut \in Words(MaxOut)
    /\ call.op \in {"none", "close", "read", "copied", "write", "stored"}

(***************************************************************************)
(* The BUG_ONs of ch_read_done and ch_write_done (smd.c:573 and 667): the  *)
(* words copied are still there, the room filled is still free, when the   *)
(* index moves on.  They are tested without smd_lock, so they must hold at *)
(* every moment between the copy and the move.                             *)
(***************************************************************************)
NoBug ==
    /\ call.op = "copied" => call.n <= smd_stream_read_avail
    /\ call.op = "stored" => call.n <= smd_stream_write_avail

\* n words in b from offset o on continue a stream at word w.
Continues(b, o, n, w, lens) ==
    n > 0 => /\ b[o] = w
             /\ \A i \in 1..(n - 1) : b[mask(o + i)] = Succ(lens, b[mask(o + i - 1)])

(***************************************************************************)
(* While the channel is open, whatever sessions came before, both FIFOs    *)
(* hold exactly the words that are due, in order; current_packet is what   *)
(* is left of the packet the reader is in; and the writer leaves off at    *)
(* the end of a packet, or of a segment of the packet that is pending.     *)
(***************************************************************************)
StreamsIntact ==
    ch_is_open(md, ch) =>
        LET t == mask(ch.tail + (IF call.op = "copied" THEN call.n ELSE 0))
            r == call.r + (IF call.op = "copied" THEN call.n ELSE 0)
        IN  /\ Continues(rbuf, t, mask(md.head - t + Size), nextIn, inLen)
            /\ Continues(sbuf, md.tail, mask(ch.head - md.tail + Size), nextOut, outLen)
            /\ LET left == ch.current - (IF call.op \in {"read", "copied"} THEN r ELSE 0)
               IN  IF left = 0 THEN nextIn[2] = 0
                   ELSE /\ nextIn[1] \in DOMAIN inLen
                        /\ nextIn[2] = Header + inLen[nextIn[1]] - left
            /\ call = NoCall /\ nextOut[1] <= Len(outLen) =>
                  LET last == sbuf[mask(ch.head + Size - 1)]
                  IN  ch.head # md.tail =>
                        last = <<Len(outLen), Header + outLen[Len(outLen)] - ch.pending - 1>>

(***************************************************************************)
(* include/mach/msm_smd.h:47: "Write to packet channels will never do a    *)
(* partial write -- it will return the requested length written or an      *)
(* error."  smd_packet_write returns what the second smd_stream_write      *)
(* wrote, so once the header is out the rest must be too.                  *)
(***************************************************************************)
NeverPartial ==
    [][ WriteEnd /\ call.kind = "packet" /\ call' = NoCall /\ call.r >= Header
          => call.rest = 0 ]_vars

(***************************************************************************)
(* No data interrupt is lost: a packet that the modem has written whole is *)
(* read by a client that reads when it is notified until nothing is left,  *)
(* unless the channel is closed first.                                     *)
(***************************************************************************)
PacketsArrive ==
    \A p \in 1..MaxIn :
        (ch_is_open(md, ch) /\ md.word[1] > p /\ nextIn[1] <= p)
            ~> (~ ch_is_open(md, ch) \/ nextIn[1] > p)

(***************************************************************************)
(* A channel that was closed becomes available to smd_open again.          *)
(***************************************************************************)
CloseCompletes == (ch.list \notin {"open", "closed"}) ~> (ch.list = "closed")
=============================================================================
