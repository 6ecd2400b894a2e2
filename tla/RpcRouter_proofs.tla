-------------------------- MODULE RpcRouter_proofs --------------------------
(***************************************************************************)
(* Proofs, for any number of clients, calls, and any quota, of the safety  *)
(* properties of RpcRouter.                                                *)
(***************************************************************************)
EXTENDS RpcRouter, TLAPS, FiniteSetTheorems

Pcs == {"idle", "w_restart", "quota", "send", "r_restart", "wait", "take",
        "tag", "got", "other", "called", "dropped", "serve"}

ThreadStates == [pc : Pcs, asleep : BOOLEAN, xid : Xids \cup {0}, confirm : BOOLEAN]
Packets == [cmd : {"DATA"}, ept : Epts, type : {"call", "reply"}, xid : Xids,
            confirm : BOOLEAN]
Msgs == Packets \cup {HELLO, NEW_SERVER, RESUME_TX}

Replies == [pend : SUBSET Xids, lock : BOOLEAN, avail : Nat,
            cnt : 0..RPCROUTER_PEND_REPLIES_MAX]

\* The types of all variables, of which TypeOK says a part
ThreadTypes ==
    /\ th \in [Epts -> ThreadStates]
    /\ restart \in [Epts -> SUBSET {NTFY, SVR}]
    /\ missed \subseteq Clients

QueueTypes ==
    /\ read_q \in [Epts -> Seq(Packets)]
    /\ readLock \in [Epts -> BOOLEAN]
    /\ reply \in Replies

LinkTypes ==
    /\ r \in [tx_quota_cntr : Nat, abort : BOOLEAN]
    /\ link \in {"up", "closed", "local", "remote", "down"}
    /\ known \in BOOLEAN
    /\ inq \in Seq(Msgs) /\ outq \in Seq(Msgs) /\ work \in Msgs \cup {Nothing}
    /\ modem \in [todo : SUBSET (Epts \X Xids), rcv : Nat]
    /\ Len(outq) <= Room

Types == ThreadTypes /\ QueueTypes /\ LinkTypes

\* What is in a packet that the router has in hand
LEMMA DataInHand ==
    ASSUME NEW m \in Msgs \cup {Nothing}, m.cmd = "DATA"
    PROVE  m \in Packets
BY DEF Msgs, HELLO, NEW_SERVER, RESUME_TX, Nothing

\* The ways in which th changes keep its type.
LEMMA ThreadMoves ==
    ASSUME th \in [Epts -> ThreadStates], NEW e \in Epts
    PROVE  /\ \A p \in Pcs : Goes(e, p) => th' \in [Epts -> ThreadStates]
           /\ Sleeps(e) => th' \in [Epts -> ThreadStates]
           /\ [th EXCEPT ![e] = Idle] \in [Epts -> ThreadStates]
           /\ \A ps : Woken(th, ps) \in [Epts -> ThreadStates]
<1>1. Idle \in ThreadStates
  BY DEF Idle, ThreadStates, Pcs
<1>2. ASSUME NEW p \in Pcs, Goes(e, p) PROVE th' \in [Epts -> ThreadStates]
  <2>1. th[e] \in ThreadStates
    OBVIOUS
  <2>2. [[th[e] EXCEPT !.pc = p] EXCEPT !.asleep = FALSE] \in ThreadStates
    BY <2>1 DEF ThreadStates
  <2>3. th' = [th EXCEPT ![e] = [[th[e] EXCEPT !.pc = p] EXCEPT !.asleep = FALSE]]
    BY <1>2 DEF Goes
  <2> QED BY <2>2, <2>3
<1>3. Sleeps(e) => th' \in [Epts -> ThreadStates]
  BY DEF Sleeps, ThreadStates
<1>4. \A ps : Woken(th, ps) \in [Epts -> ThreadStates]
  BY DEF Woken, ThreadStates
<1> QED BY <1>1, <1>2, <1>3, <1>4

\* As does the way a reply's end changes reply.
LEMMA ReplyUpdate ==
    ASSUME NEW p \in Replies, NEW n \in Nat, NEW b \in BOOLEAN
    PROVE  [p EXCEPT !.avail = n, !.lock = b] \in Replies
BY Zenon DEF Replies

\* A write that fails, and -ENETRESET, which also clears the client's mark
LEMMA FailTypes ==
    ASSUME Types, NEW e \in Epts, WriteFails(e), th[e].xid \in Xids
    PROVE  th' \in [Epts -> ThreadStates] /\ QueueTypes'
<1>1. th' \in [Epts -> ThreadStates]
  BY ThreadMoves DEF WriteFails, Types, ThreadTypes
<1>2. reply' \in Replies
  BY DEF WriteFails, Types, QueueTypes, Replies
<1> QED BY <1>1, <1>2 DEF WriteFails, Types, QueueTypes

\* The server's tag: what it holds of the call it works on
TagHeld == th[Server].pc \in {"w_restart", "quota", "send"}

\* A thread that works on a call has the call's id.
CallIds ==
    \A e \in Epts :
        th[e].pc \in {"tag", "called", "serve", "w_restart", "quota", "send"}
            => th[e].xid \in Xids

(***************************************************************************)
(* Every tag that was allocated is free, pending or with the server's      *)
(* thread, so reply_cnt bounds the tags; and nothing resets the server's   *)
(* endpoint, which is not connected.                                       *)
(***************************************************************************)
TagsCounted ==
    /\ restart[Server] = RESTART_NORMAL
    /\ IsFiniteSet(reply.pend)
    /\ th[Server].pc \in {"called", "serve"} => th[Server].xid \in reply.pend
    /\ reply.avail + Cardinality(reply.pend) + (IF TagHeld THEN 1 ELSE 0) <= reply.cnt

\* The third alternative of Send: the packet goes out
SendsPacket(e) ==
    /\ known /\ restart[e] = RESTART_NORMAL /\ Len(outq) < Room
    /\ outq' = IF link = "up"
               THEN Append(outq, Data(e, IF e = Server THEN "reply" ELSE "call",
                                      th[e].xid, th[e].confirm))
               ELSE outq
    /\ IF e = Server
       THEN /\ th' = [th EXCEPT ![e] = Idle]
            /\ reply' = [reply EXCEPT !.avail = @ + 1, !.lock = reply.pend # {}]
       ELSE /\ th' = [th EXCEPT ![e].pc = "r_restart", ![e].confirm = FALSE]
            /\ UNCHANGED reply
    /\ UNCHANGED <<restart, read_q, readLock, missed>>

\* A packet is sent, or the write fails with -ENETRESET.
LEMMA SendCases ==
    ASSUME NEW e, Send(e)
    PROVE  \/ NetReset(e) /\ (UNCHANGED restart \/ ClearNotify(e)) /\ UNCHANGED outq
           \/ SendsPacket(e)
BY DEF Send, SendsPacket

\* Writing keeps the types: the xid of a tag that becomes pending again is one.
LEMMA TypesWrite ==
    ASSUME Types, CallIds, NEW e \in Epts,
           Write(e) \/ WriteInterrupted(e)
    PROVE  Types'
<1> USE DEF Types
<1>s. Server \in Epts /\ Clients \subseteq Epts
  BY DEF Epts
<1>1. CASE WaitForRestart(e, "w_restart", "quota")
  <2>1. /\ UNCHANGED <<r, outq, modemVars>>
        /\ Runs(e, "w_restart")
    BY <1>1 DEF WaitForRestart
  <2>2. CASE Goes(e, "quota") /\ UNCHANGED <<restart, queueVars, missed>>
    BY <2>1, <2>2, ThreadMoves DEF Pcs, ThreadTypes, QueueTypes, LinkTypes, queueVars, modemVars
  <2>3. CASE ClearNotify(e) /\ NetReset(e)
    <3>1. th' \in [Epts -> ThreadStates] /\ QueueTypes'
      BY <2>1, <2>3, FailTypes DEF NetReset, CallIds, Runs
    <3> QED BY <2>1, <2>3, <3>1 DEF NetReset, ClearNotify, ThreadTypes, LinkTypes, modemVars
  <2>4. CASE Sleeps(e) /\ UNCHANGED <<restart, queueVars, missed>>
    BY <2>1, <2>4, ThreadMoves DEF ThreadTypes, QueueTypes, LinkTypes, queueVars, modemVars
  <2> QED BY <1>1, <2>2, <2>3, <2>4 DEF WaitForRestart
<1>2. CASE TakeQuota(e)
  <2>1. /\ UNCHANGED <<outq, modemVars>>
        /\ Runs(e, "quota")
    BY <1>2 DEF TakeQuota
  <2>2. CASE ClearNotify(e) /\ NetReset(e) /\ UNCHANGED r
    <3>1. th' \in [Epts -> ThreadStates] /\ QueueTypes'
      BY <2>1, <2>2, FailTypes DEF NetReset, CallIds, Runs
    <3> QED BY <2>1, <2>2, <3>1 DEF NetReset, ClearNotify, ThreadTypes, LinkTypes, modemVars
  <2>3. CASE /\ r' = [r EXCEPT !.tx_quota_cntr = @ + 1]
             /\ th' = [th EXCEPT ![e].pc = "send",
                          ![e].confirm = (r'.tx_quota_cntr = Quota)]
             /\ UNCHANGED <<restart, queueVars, missed>>
    <3>1. r' \in [tx_quota_cntr : Nat, abort : BOOLEAN]
      BY <2>3 DEF LinkTypes
    <3>2. [[th[e] EXCEPT !.pc = "send"] EXCEPT !.confirm = (r'.tx_quota_cntr = Quota)]
            \in ThreadStates
      BY DEF ThreadTypes, ThreadStates, Pcs
    <3>3. th' \in [Epts -> ThreadStates]
      BY <2>3, <3>2 DEF ThreadTypes
    <3> QED BY <2>1, <2>3, <3>1, <3>3 DEF ThreadTypes, QueueTypes, LinkTypes, queueVars, modemVars
  <2>4. CASE Sleeps(e) /\ UNCHANGED <<restart, queueVars, r, missed>>
    BY <2>1, <2>4, ThreadMoves DEF ThreadTypes, QueueTypes, LinkTypes, queueVars, modemVars
  <2> QED BY <1>2, <2>2, <2>3, <2>4 DEF TakeQuota
<1>3. CASE Send(e)
  <2>1. UNCHANGED <<r, modemVars>> /\ Runs(e, "send")
    BY <1>3 DEF Send
  <2>2. CASE NetReset(e) /\ (UNCHANGED restart \/ ClearNotify(e)) /\ UNCHANGED outq
    <3>1. th' \in [Epts -> ThreadStates] /\ QueueTypes'
      BY <2>1, <2>2, FailTypes DEF NetReset, CallIds, Runs
    <3> QED BY <2>1, <2>2, <3>1 DEF NetReset, ClearNotify, ThreadTypes, LinkTypes, modemVars
  <2>3. CASE SendsPacket(e)
    <3> DEFINE d == Data(e, IF e = Server THEN "reply" ELSE "call", th[e].xid, th[e].confirm)
    <3>1. /\ Len(outq) < Room /\ outq' \in {outq, Append(outq, d)}
          /\ UNCHANGED <<restart, read_q, readLock, missed>>
      BY <2>3 DEF SendsPacket
    <3>2. d \in Msgs
      <4>1. th[e].xid \in Xids /\ th[e].confirm \in BOOLEAN
        BY <2>1 DEF CallIds, Runs, ThreadTypes, ThreadStates
      <4> QED BY <4>1 DEF Data, Msgs, Packets
    <3> HIDE DEF d
    <3>3. outq' \in Seq(Msgs) /\ Len(outq') <= Room
      BY <3>1, <3>2, RpcAssumption, SMTT(30) DEF LinkTypes
    <3>4. th' \in [Epts -> ThreadStates]
      <4>1. [[th[e] EXCEPT !.pc = "r_restart"] EXCEPT !.confirm = FALSE] \in ThreadStates
        BY DEF ThreadTypes, ThreadStates, Pcs
      <4> QED BY <2>3, <4>1, ThreadMoves DEF SendsPacket, ThreadTypes
    <3>5. reply' \in Replies
      <4> DEFINE b == reply.pend # {}
      <4>1. b \in BOOLEAN
        OBVIOUS
      <4>2. reply' \in {reply, [reply EXCEPT !.avail = @ + 1, !.lock = b]}
        BY <2>3 DEF SendsPacket
      <4>3. reply \in Replies
        BY DEF QueueTypes
      <4> HIDE DEF b
      <4>4. reply.avail + 1 \in Nat
        BY <4>3 DEF Replies
      <4>5. [reply EXCEPT !.avail = reply.avail + 1, !.lock = b] \in Replies
        BY <4>1, <4>3, <4>4, ReplyUpdate
      <4> QED BY <4>2, <4>3, <4>5
    <3> QED BY <2>1, <3>1, <3>3, <3>4, <3>5 DEF ThreadTypes, QueueTypes, LinkTypes, modemVars
  <2>4. \/ NetReset(e) /\ (UNCHANGED restart \/ ClearNotify(e)) /\ UNCHANGED outq
        \/ SendsPacket(e)
    BY <1>3, SendCases
  <2> QED BY <2>2, <2>3, <2>4
<1>4. CASE WriteInterrupted(e)
  <2>1. th' \in [Epts -> ThreadStates] /\ QueueTypes'
    BY <1>4, FailTypes DEF WriteInterrupted, CallIds
  <2> QED BY <1>4, <2>1 DEF WriteInterrupted, ThreadTypes, LinkTypes, modemVars
<1> QED BY <1>1, <1>2, <1>3, <1>4 DEF Write

\* Serve is the server's own part of reading and replying.
LEMMA TypesServe ==
    ASSUME Types, CallIds, Serve \/ \E e \in Clients : CallStart(e)
    PROVE  Types'
<1> USE DEF Types
<1>s. Server \in Epts /\ Clients \subseteq Epts
  BY DEF Epts
<1>1. CASE ServerReads
  BY <1>s, <1>1, ThreadMoves
     DEF ServerReads, Pcs, ThreadTypes, QueueTypes, LinkTypes, queueVars, modemVars
<1>2. CASE ReadTag
  <2>1. th[Server].xid \in Xids
    BY <1>s, <1>2 DEF ReadTag, Runs, CallIds
  <2>2. th' \in [Epts -> ThreadStates]
    BY <1>s, <1>2, ThreadMoves DEF ReadTag, Pcs, ThreadTypes
  <2>3. reply' \in Replies
    <3>1. CASE UNCHANGED reply
      BY <3>1 DEF QueueTypes
    <3>2. CASE /\ reply.avail > 0 \/ reply.cnt < RPCROUTER_PEND_REPLIES_MAX
               /\ reply' = [pend |-> reply.pend \cup {th[Server].xid}, lock |-> TRUE,
                       avail |-> IF reply.avail > 0 THEN reply.avail - 1 ELSE 0,
                       cnt |-> IF reply.avail > 0 THEN reply.cnt ELSE reply.cnt + 1]
      BY <2>1, <3>2, RpcAssumption DEF QueueTypes, Replies
    <3> QED BY <1>2, <3>1, <3>2 DEF ReadTag
  <2> QED BY <1>2, <2>2, <2>3
     DEF ReadTag, ThreadTypes, QueueTypes, LinkTypes, modemVars
<1>3. CASE ReplyStart
  <2>1. th' \in [Epts -> ThreadStates]
    BY <1>s, <1>3, ThreadMoves DEF ReplyStart, Pcs, ThreadTypes
  <2>2. reply' \in Replies
    BY <1>3 DEF ReplyStart, QueueTypes, Replies
  <2> QED BY <1>3, <2>1, <2>2
     DEF ReplyStart, ThreadTypes, QueueTypes, LinkTypes, modemVars
<1>4. ASSUME NEW e \in Clients, CallStart(e) PROVE Types'
  <2>1. PICK x \in Xids : th' = [th EXCEPT ![e] = [Idle EXCEPT !.pc = "w_restart", !.xid = x]]
    BY <1>4 DEF CallStart
  <2>2. [Idle EXCEPT !.pc = "w_restart", !.xid = x] \in ThreadStates
    BY DEF Idle, ThreadStates, Pcs
  <2>3. th' \in [Epts -> ThreadStates]
    BY <1>s, <2>1, <2>2 DEF ThreadTypes
  <2> QED BY <1>4, <2>3
     DEF CallStart, ThreadTypes, QueueTypes, LinkTypes, queueVars, modemVars
<1> QED BY <1>1, <1>2, <1>3, <1>4 DEF Serve

\* So does reading: only a client's endpoint is reset, so no tag is made up.
LEMMA TypesRead ==
    ASSUME Types, TagsCounted, NEW e \in Epts, Read(e) \/ ReadGivesUp(e)
    PROVE  Types'
<1> USE DEF Types
<1>s. Server \in Epts /\ Clients \subseteq Epts
  BY DEF Epts
\* The three ways in which a thread leaves without a packet
<1>w. ASSUME UNCHANGED <<r, outq, modemVars>>,
             \/ /\ \/ th' = [th EXCEPT ![e] = Idle]
                   \/ Sleeps(e)
                   \/ \E p \in Pcs : Goes(e, p)
                /\ UNCHANGED <<restart, queueVars, missed>>
             \/ ClearNotify(e) /\ NetReset(e) /\ restart[e] # RESTART_NORMAL
      PROVE  Types'
  <2>1. CASE ClearNotify(e) /\ NetReset(e) /\ restart[e] # RESTART_NORMAL
    <3>1. e # Server
      BY <2>1 DEF TagsCounted
    <3>2. th' \in [Epts -> ThreadStates] /\ UNCHANGED queueVars
      BY <2>1, <3>1, ThreadMoves DEF NetReset, WriteFails, ThreadTypes, queueVars
    <3> QED BY <1>w, <2>1, <3>2
      DEF NetReset, ClearNotify, ThreadTypes, QueueTypes, LinkTypes, queueVars, modemVars
  <2>2. CASE /\ \/ th' = [th EXCEPT ![e] = Idle]
                \/ Sleeps(e)
                \/ \E p \in Pcs : Goes(e, p)
             /\ UNCHANGED <<restart, queueVars, missed>>
    <3>1. th' \in [Epts -> ThreadStates]
      BY <2>2, ThreadMoves DEF ThreadTypes
    <3> QED BY <1>w, <2>2, <3>1
      DEF ThreadTypes, QueueTypes, LinkTypes, queueVars, modemVars
  <2> QED BY <1>w, <2>1, <2>2
<1>p. {"wait", "take"} \subseteq Pcs
  BY DEF Pcs
<1>1. CASE WaitForRestart(e, "r_restart", "wait")
  BY <1>1, <1>w, <1>p DEF WaitForRestart, RESTART_NORMAL
<1>2. CASE ReadWait(e)
  BY <1>2, <1>w, <1>p DEF ReadWait
<1>3. CASE ReadGivesUp(e)
  BY <1>3, <1>w DEF ReadGivesUp
<1>4. CASE ReadAgain(e)
  BY <1>4, <1>w DEF ReadAgain
<1>5. CASE ReadTake(e)
  <2> DEFINE p == Head(read_q[e])
  <2>1. p \in Packets /\ Tail(read_q[e]) \in Seq(Packets)
    BY <1>5 DEF ReadTake, QueueTypes
  <2>2. th' \in [Epts -> ThreadStates]
    <3>1. CASE th' = [th EXCEPT ![e].pc = "tag", ![e].xid = p.xid]
      <4>1. p.xid \in Xids
        BY <2>1 DEF Packets
      <4> HIDE DEF p
      <4>2. [[th[e] EXCEPT !.pc = "tag"] EXCEPT !.xid = p.xid] \in ThreadStates
        BY <4>1 DEF ThreadTypes, ThreadStates, Pcs
      <4> QED BY <3>1, <4>2 DEF ThreadTypes
    <3>2. CASE Goes(e, "got") \/ Goes(e, "other")
      BY <3>2, ThreadMoves DEF ThreadTypes, Pcs
    <3> QED BY <1>5, <3>1, <3>2 DEF ReadTake
  <2> QED BY <1>5, <2>1, <2>2
     DEF ReadTake, ThreadTypes, QueueTypes, LinkTypes, modemVars
<1>6. CASE ReadRelease(e)
  <2>1. th' \in [Epts -> ThreadStates]
    BY <1>6, ThreadMoves DEF ReadRelease, ThreadTypes, Pcs
  <2>2. readLock' \in [Epts -> BOOLEAN]
    BY <1>6 DEF ReadRelease, QueueTypes
  <2> QED BY <1>6, <2>1, <2>2
     DEF ReadRelease, ThreadTypes, QueueTypes, LinkTypes, modemVars
<1> QED BY <1>1, <1>2, <1>3, <1>4, <1>5, <1>6 DEF Read

\* So do the router's work queues.
LEMMA TypesWork ==
    ASSUME Types, Work \/ Cleanup
    PROVE  Types'
<1> USE DEF Types
<1>s. Server \in Epts /\ Clients \subseteq Epts
  BY DEF Epts
<1>n. {HELLO, NEW_SERVER, RESUME_TX} \subseteq Msgs /\ Nothing \in Msgs \cup {Nothing}
  BY DEF Msgs
<1>w. \A ps : Woken(th, ps) \in [Epts -> ThreadStates]
  BY <1>s, ThreadMoves DEF ThreadTypes
<1>1. CASE WorkRead
  BY <1>1, <1>n DEF WorkRead, ThreadTypes, QueueTypes, LinkTypes, queueVars
<1>2. CASE WorkHello
  <2>1. outq' \in Seq(Msgs) /\ Len(outq') <= Room
    <3>1. <<HELLO, NEW_SERVER>> \in Seq(Msgs) /\ Len(<<HELLO, NEW_SERVER>>) = 2
      BY <1>n
    <3>2. CASE link = "up"
      BY <1>2, <3>1, <3>2, RpcAssumption DEF WorkHello, LinkTypes
    <3>3. CASE link # "up"
      BY <1>2, <3>3 DEF WorkHello, LinkTypes
    <3> QED BY <3>2, <3>3
  <2> QED BY <1>2, <1>n, <2>1 DEF WorkHello, ThreadTypes, QueueTypes, LinkTypes, queueVars
<1>3. CASE WorkResume
  <2>1. r' \in [tx_quota_cntr : Nat, abort : BOOLEAN]
    BY <1>3 DEF WorkResume, LinkTypes
  <2> QED BY <1>3, <1>n, <1>w, <2>1
     DEF WorkResume, ThreadTypes, QueueTypes, LinkTypes, queueVars
<1>4. CASE WorkNewServer
  <2>1. r' \in [tx_quota_cntr : Nat, abort : BOOLEAN]
    BY <1>4 DEF WorkNewServer, handle_server_restart, LinkTypes
  <2>2. restart' \in [Epts -> SUBSET {NTFY, SVR}]
    BY <1>4 DEF WorkNewServer, handle_server_restart, ThreadTypes
  <2>3. th' \in [Epts -> ThreadStates]
    <3> DEFINE t == IF r.abort THEN Woken(th, {"quota"}) ELSE th
               w == Woken(t, {"w_restart", "r_restart", "wait"})
    <3>1. t \in [Epts -> ThreadStates]
      BY <1>w DEF ThreadTypes
    <3>2. w \in [Epts -> ThreadStates]
      <4> HIDE DEF t
      <4> QED BY <3>1 DEF Woken, ThreadStates
    <3>3. th' = [e \in Epts |-> IF e \in {x \in Clients : SVR \in restart[x]} THEN w[e] ELSE t[e]]
      BY <1>4 DEF WorkNewServer, handle_server_restart
    <3> HIDE DEF t, w
    <3> QED BY <3>1, <3>2, <3>3
  <2> QED BY <1>4, <1>n, <2>1, <2>2, <2>3
     DEF WorkNewServer, ThreadTypes, QueueTypes, LinkTypes, queueVars
<1>5. CASE WorkData
  <2>1. work \in Packets /\ work.ept \in Epts
    <3>1. work \in Packets
      BY <1>5, DataInHand DEF WorkData, LinkTypes
    <3> QED BY <3>1 DEF Packets
  <2>2. read_q' \in [Epts -> Seq(Packets)] /\ readLock' \in [Epts -> BOOLEAN]
    BY <1>5, <2>1 DEF WorkData, QueueTypes
  <2>3. th' \in [Epts -> ThreadStates]
    BY <1>5, <1>w, <2>1 DEF WorkData, ThreadTypes
  <2>4. outq' \in Seq(Msgs) /\ Len(outq') <= Room
    <3>1. CASE work.confirm /\ known /\ link = "up"
      BY <1>5, <1>n, <3>1, RpcAssumption DEF WorkData, LinkTypes
    <3>2. CASE ~ (work.confirm /\ known /\ link = "up")
      BY <1>5, <3>2 DEF WorkData, LinkTypes
    <3> QED BY <3>1, <3>2
  <2> QED BY <1>5, <1>n, <2>2, <2>3, <2>4
     DEF WorkData, ThreadTypes, QueueTypes, LinkTypes
<1>6. CASE CleanupLocal
  <2>1. restart' \in [Epts -> SUBSET {NTFY, SVR}]
    BY <1>6 DEF CleanupLocal, ThreadTypes
  <2>2. read_q' \in [Epts -> Seq(Packets)]
    BY <1>6 DEF CleanupLocal, QueueTypes
  <2>3. th' \in [Epts -> ThreadStates]
    BY <1>6, <1>w DEF CleanupLocal, ThreadTypes
  <2> QED BY <1>6, <2>1, <2>2, <2>3 DEF CleanupLocal, ThreadTypes, QueueTypes, LinkTypes
<1>7. CASE CleanupRemote
  <2>1. r' \in [tx_quota_cntr : Nat, abort : BOOLEAN]
    BY <1>7 DEF CleanupRemote, LinkTypes
  <2> QED BY <1>7, <1>w, <2>1
     DEF CleanupRemote, ThreadTypes, QueueTypes, LinkTypes, queueVars
<1>8. CASE RemoveXprt
  BY <1>8 DEF RemoveXprt, ThreadTypes, QueueTypes, LinkTypes, queueVars
<1> QED BY <1>1, <1>2, <1>3, <1>4, <1>5, <1>6, <1>7, <1>8 DEF Work, Cleanup

\* So does the modem.
LEMMA TypesModem ==
    ASSUME Types, ModemRuns \/ ModemCalls \/ ModemResets \/ ModemStarts
    PROVE  Types'
<1> USE DEF Types
<1>s. Server \in Epts /\ Clients \subseteq Epts
  BY DEF Epts
<1>n. {HELLO, NEW_SERVER, RESUME_TX} \subseteq Msgs
  BY DEF Msgs
<1>1. CASE ModemTakes
  <2> DEFINE p == Head(outq)
             data == p.cmd = "DATA"
             confirm == data /\ p.confirm
  <2>1. p \in Msgs /\ Tail(outq) \in Seq(Msgs) /\ Len(Tail(outq)) <= Room
    BY <1>1, RpcAssumption DEF ModemTakes, LinkTypes
  <2>2. data => p \in Packets
    BY <2>1, DataInHand
  <2>3. modem' \in [todo : SUBSET (Epts \X Xids), rcv : Nat]
    <3>1. modem' = [todo |-> modem.todo \cup
                           (IF data /\ p.type = "call" THEN {<<p.ept, p.xid>>} ELSE {}),
                    rcv |-> IF confirm THEN 0
                            ELSE IF data THEN modem.rcv + 1 ELSE modem.rcv]
      BY <1>1 DEF ModemTakes
    <3>2. data => <<p.ept, p.xid>> \in Epts \X Xids
      BY <2>2 DEF Packets
    <3>3. modem.todo \subseteq Epts \X Xids /\ modem.rcv \in Nat
      BY DEF LinkTypes
    <3> HIDE DEF p, data, confirm
    <3> QED BY <3>1, <3>2, <3>3
  <2>4. inq' \in Seq(Msgs)
    BY <1>1, <1>n DEF ModemTakes, LinkTypes
  <2> QED BY <1>1, <2>1, <2>3, <2>4
     DEF ModemTakes, ModemUnchanged, ThreadTypes, QueueTypes, LinkTypes, queueVars
<1>2. CASE ModemAnswers
  <2>1. PICK c \in modem.todo : /\ modem' = [modem EXCEPT !.todo = @ \ {c}]
                                /\ inq' = Append(inq, Data(c[1], "reply", c[2], TRUE))
    BY <1>2 DEF ModemAnswers
  <2>2. c[1] \in Epts /\ c[2] \in Xids
    BY DEF LinkTypes
  <2>3. Data(c[1], "reply", c[2], TRUE) \in Msgs
    BY <2>2 DEF Data, Packets, Msgs
  <2> DEFINE d == Data(c[1], "reply", c[2], TRUE)
  <2> HIDE DEF d
  <2>4. inq' \in Seq(Msgs)
    <3>1. d \in Msgs /\ inq' = Append(inq, d) /\ inq \in Seq(Msgs)
      BY <2>1, <2>3 DEF LinkTypes, d
    <3> QED BY <3>1
  <2>5. modem' \in [todo : SUBSET (Epts \X Xids), rcv : Nat]
    BY <2>1 DEF LinkTypes
  <2> QED BY <1>2, <2>4, <2>5
     DEF ModemAnswers, ModemUnchanged, ThreadTypes, QueueTypes, LinkTypes, queueVars
<1>3. CASE ModemCalls
  <2>1. PICK x \in Xids : inq' = Append(inq, Data(Server, "call", x, FALSE))
    BY <1>3 DEF ModemCalls
  <2>2. Data(Server, "call", x, FALSE) \in Msgs
    BY <1>s DEF Data, Packets, Msgs
  <2> DEFINE d == Data(Server, "call", x, FALSE)
  <2> HIDE DEF d
  <2>3. inq' \in Seq(Msgs)
    <3>1. d \in Msgs /\ inq' = Append(inq, d) /\ inq \in Seq(Msgs)
      BY <2>1, <2>2 DEF LinkTypes, d
    <3> QED BY <3>1
  <2> QED BY <1>3, <2>3
     DEF ModemCalls, ModemUnchanged, ThreadTypes, QueueTypes, LinkTypes, queueVars
<1>4. CASE ModemResets
  <2>1. modem' \in [todo : SUBSET (Epts \X Xids), rcv : Nat]
    BY <1>4 DEF ModemResets
  <2>2. <<>> \in Seq(Msgs) /\ Len(<<>>) <= Room
    BY RpcAssumption
  <2> QED BY <1>4, <2>1, <2>2
     DEF ModemResets, ModemUnchanged, ThreadTypes, QueueTypes, LinkTypes, queueVars
<1>5. CASE ModemStarts
  BY <1>5, <1>n
     DEF ModemStarts, ModemUnchanged, ThreadTypes, QueueTypes, LinkTypes, queueVars
<1> QED BY <1>1, <1>2, <1>3, <1>4, <1>5 DEF ModemRuns

\* Every step keeps the ids of the calls that threads work on.
LEMMA IdsNext ==
    ASSUME Types, Types', CallIds, [Next]_vars
    PROVE  CallIds'
<1> USE DEF Types, ThreadTypes
<1>s. Server \in Epts /\ Clients \subseteq Epts
  BY DEF Epts
<1> DEFINE Ids(t) == t.pc \in {"tag", "called", "serve", "w_restart", "quota", "send"}
                        => t.xid \in Xids
<1>c. \A e \in Epts : Ids(th[e])
  BY DEF CallIds
<1>i. Ids(Idle)
  BY DEF Idle
<1> SUFFICES \A o \in Epts : Ids(th'[o])
  BY DEF CallIds
<1>w. \A o \in Epts : \A ps : Ids(Woken(th, ps)[o])
  BY <1>c DEF Woken, ThreadStates
<1>1. ASSUME NEW e \in Epts, Write(e) \/ WriteInterrupted(e), NEW o \in Epts
      PROVE  Ids(th'[o])
  <2>1. CASE WaitForRestart(e, "w_restart", "quota")
    BY <2>1, <1>c, <1>i, SMTT(30) DEF WaitForRestart, Goes, Runs, Sleeps, NetReset, WriteFails, ThreadStates
  <2>2. CASE TakeQuota(e)
    <3> DEFINE b == r'.tx_quota_cntr = Quota
    <3>1. \/ NetReset(e) \/ Sleeps(e)
          \/ th[e].pc = "quota" /\ th' = [th EXCEPT ![e].pc = "send", ![e].confirm = b]
      BY <2>2 DEF TakeQuota, Runs
    <3> HIDE DEF b
    <3> QED BY <3>1, <1>c, <1>i DEF Sleeps, NetReset, WriteFails, ThreadStates
  <2>3. CASE Send(e)
    <3>1. \/ th' = [th EXCEPT ![e] = Idle]
          \/ th' = [th EXCEPT ![e].pc = "r_restart", ![e].confirm = FALSE]
      BY <2>3, SendCases DEF SendsPacket, NetReset, WriteFails
    <3> QED BY <3>1, <1>c, <1>i DEF ThreadStates
  <2>4. CASE WriteInterrupted(e)
    BY <2>4, <1>c, <1>i DEF WriteInterrupted, WriteFails
  <2> QED BY <1>1, <2>1, <2>2, <2>3, <2>4 DEF Write
<1>2. ASSUME NEW e \in Epts, Read(e) \/ ReadGivesUp(e), NEW o \in Epts
      PROVE  Ids(th'[o])
  <2>1. CASE WaitForRestart(e, "r_restart", "wait")
    BY <2>1, <1>c, <1>i DEF WaitForRestart, Goes, Sleeps, NetReset, WriteFails, ThreadStates
  <2>2. CASE ReadWait(e)
    BY <2>2, <1>c, <1>i DEF ReadWait, Goes, Sleeps, NetReset, WriteFails, ThreadStates
  <2>3. CASE ReadGivesUp(e)
    BY <2>3, <1>c, <1>i DEF ReadGivesUp, NetReset, WriteFails
  <2>4. CASE ReadAgain(e)
    BY <2>4, <1>c, <1>i DEF ReadAgain
  <2>5. CASE ReadTake(e)
    <3>1. Head(read_q[e]).xid \in Xids
      <4>1. Head(read_q[e]) \in Packets
        BY <2>5 DEF ReadTake, QueueTypes
      <4> QED BY <4>1 DEF Packets
    <3>2. CASE th' = [th EXCEPT ![e].pc = "tag", ![e].xid = Head(read_q[e]).xid]
      BY <3>1, <3>2, <1>c DEF ThreadStates
    <3>3. CASE Goes(e, "got") \/ Goes(e, "other")
      BY <3>3, <1>c DEF Goes, ThreadStates
    <3> QED BY <2>5, <3>2, <3>3 DEF ReadTake
  <2>6. CASE ReadRelease(e)
    BY <2>6, <1>c, <1>i DEF ReadRelease, Goes, ThreadStates
  <2> QED BY <1>2, <2>1, <2>2, <2>3, <2>4, <2>5, <2>6 DEF Read
<1>3. ASSUME Serve \/ (\E e \in Clients : CallStart(e)), NEW o \in Epts
      PROVE  Ids(th'[o])
  <2>1. CASE Serve
    BY <2>1, <1>s, <1>c DEF Serve, ServerReads, ReadTag, ReplyStart, Runs, Goes, ThreadStates
  <2>2. CASE \E e \in Clients : CallStart(e)
    BY <2>2, <1>s, <1>c DEF CallStart, Idle
  <2> QED BY <1>3, <2>1, <2>2
<1>4. ASSUME Work \/ Cleanup, NEW o \in Epts
      PROVE  Ids(th'[o])
  <2>1. CASE WorkNewServer
    <3> DEFINE t == IF r.abort THEN Woken(th, {"quota"}) ELSE th
               w == Woken(t, {"w_restart", "r_restart", "wait"})
    <3>1. t[o].pc = th[o].pc /\ t[o].xid = th[o].xid
      BY DEF Woken, ThreadStates
    <3>2. w[o].pc = t[o].pc /\ w[o].xid = t[o].xid
      <4> t \in [Epts -> ThreadStates]
        BY <1>s, ThreadMoves
      <4> HIDE DEF t
      <4> QED BY DEF Woken, ThreadStates
    <3>3. th'[o] \in {w[o], t[o]}
      BY <2>1 DEF WorkNewServer, handle_server_restart
    <3> HIDE DEF t, w
    <3> QED BY <1>c, <3>1, <3>2, <3>3
  <2>2. CASE WorkData
    BY <2>2, <1>c, <1>w DEF WorkData
  <2>3. CASE WorkRead \/ WorkHello \/ WorkResume
    BY <2>3, <1>c, <1>w DEF WorkRead, WorkHello, WorkResume
  <2>4. CASE Cleanup
    BY <2>4, <1>c, <1>w DEF Cleanup, CleanupLocal, CleanupRemote, RemoveXprt
  <2> QED BY <1>4, <2>1, <2>2, <2>3, <2>4 DEF Work
<1>5. ASSUME ModemRuns \/ ModemCalls \/ ModemResets \/ ModemStarts, NEW o \in Epts
      PROVE  Ids(th'[o])
  BY <1>5, <1>c DEF ModemRuns, ModemTakes, ModemAnswers, ModemCalls, ModemResets, ModemStarts,
                    ModemUnchanged
<1>6. ASSUME UNCHANGED vars PROVE th' = th
  BY <1>6 DEF vars
<1> QED BY <1>1, <1>2, <1>3, <1>4, <1>5, <1>6, <1>c DEF Next, Thread

\* Only an ENETRESET takes away the mark of a client that was not told.
LEMMA NotifiedNext ==
    ASSUME Types, NotifiedOnce, [Next]_vars
    PROVE  NotifiedOnce'
<1> USE DEF Types, ThreadTypes
<1>s. Server \in Epts /\ Clients \subseteq Epts /\ NTFY # SVR
  BY DEF Epts, NTFY, SVR
<1>t. ASSUME NEW e \in Epts, NetReset(e), UNCHANGED restart \/ ClearNotify(e)
      PROVE  NotifiedOnce'
  BY <1>s, <1>t DEF NetReset, ClearNotify, NotifiedOnce
<1>u. ASSUME UNCHANGED <<restart, missed>>
      PROVE  NotifiedOnce'
  BY <1>u DEF NotifiedOnce
<1>1. ASSUME NEW e \in Epts, Write(e) \/ WriteInterrupted(e)
      PROVE  NotifiedOnce'
  BY <1>1, <1>t, <1>u, SendCases
     DEF Write, WaitForRestart, TakeQuota, SendsPacket, WriteInterrupted
<1>2. ASSUME NEW e \in Epts, Read(e) \/ ReadGivesUp(e)
      PROVE  NotifiedOnce'
  BY <1>2, <1>t, <1>u
     DEF Read, WaitForRestart, ReadWait, ReadGivesUp, ReadAgain, ReadTake, ReadRelease
<1>3. CASE Serve \/ \E e \in Clients : CallStart(e)
  BY <1>3, <1>u DEF Serve, ServerReads, ReadTag, ReplyStart, CallStart
<1>4. CASE WorkNewServer
  BY <1>4, <1>s DEF WorkNewServer, handle_server_restart, NotifiedOnce
<1>5. CASE WorkRead \/ WorkHello \/ WorkResume \/ WorkData \/ CleanupRemote \/ RemoveXprt
  BY <1>5, <1>u DEF WorkRead, WorkHello, WorkResume, WorkData, CleanupRemote, RemoveXprt
<1>6. CASE CleanupLocal
  BY <1>6, <1>s DEF CleanupLocal, NotifiedOnce
<1>7. CASE ModemRuns \/ ModemCalls \/ ModemResets \/ ModemStarts
  BY <1>7, <1>u DEF ModemRuns, ModemTakes, ModemAnswers, ModemCalls, ModemResets,
                    ModemStarts, ModemUnchanged
<1>8. CASE UNCHANGED vars
  BY <1>8, <1>u DEF vars
<1> QED BY <1>1, <1>2, <1>3, <1>4, <1>5, <1>6, <1>7, <1>8 DEF Next, Thread, Work, Cleanup

(***************************************************************************)
(* TagsCounted depends on the server's own thread and queue of replies     *)
(* only: what a step of another actor leaves alone.                        *)
(***************************************************************************)
ServerAlone ==
    /\ UNCHANGED <<reply, restart[Server]>>
    /\ th'[Server].xid = th[Server].xid
    /\ \/ th'[Server].pc = th[Server].pc
       \/ {th[Server].pc, th'[Server].pc} \cap {"called", "serve"} = {} /\ TagHeld' = TagHeld
       \/ {th[Server].pc, th'[Server].pc} = {"called", "serve"}

\* Nothing else changes the count of the tags.
LEMMA TagsAlone ==
    ASSUME TagsCounted, ServerAlone
    PROVE  TagsCounted'
<1>1. TagHeld' = TagHeld
  BY DEF ServerAlone, TagHeld
<1>2. th'[Server].pc \in {"called", "serve"} => th'[Server].xid \in reply'.pend
  BY DEF ServerAlone, TagsCounted
<1> QED BY <1>1, <1>2 DEF TagsCounted, ServerAlone

\* An element more, or one less, in a finite set
LEMMA AddOne ==
    ASSUME NEW S, IsFiniteSet(S), NEW x
    PROVE  /\ IsFiniteSet(S \cup {x})
           /\ Cardinality(S \cup {x}) \in Nat /\ Cardinality(S) \in Nat
           /\ Cardinality(S \cup {x}) <= Cardinality(S) + 1
           /\ x \in S => Cardinality(S \cup {x}) = Cardinality(S)
<1>1. IsFiniteSet(S \cup {x}) /\ Cardinality(S) \in Nat
  BY FS_AddElement, FS_CardinalityType
<1>2. Cardinality(S \cup {x}) \in Nat
  BY <1>1, FS_CardinalityType
<1>3. CASE x \in S
  <2>1. S \cup {x} = S
    BY <1>3
  <2> QED BY <1>1, <1>2, <1>3, <2>1
<1>4. CASE x \notin S
  <2>1. Cardinality(S \cup {x}) = Cardinality(S) + 1
    BY <1>4, FS_AddElement
  <2> QED BY <1>1, <1>2, <1>4, <2>1
<1> QED BY <1>3, <1>4

\* A failed write gives the server's tag back.
LEMMA TagBack ==
    ASSUME Types, TagsCounted, TagHeld, WriteFails(Server), UNCHANGED restart[Server]
    PROVE  TagsCounted'
<1>1. /\ reply'.pend = reply.pend \cup {th[Server].xid}
      /\ reply'.avail = reply.avail /\ reply'.cnt = reply.cnt
  BY DEF WriteFails, Types, QueueTypes, Replies
<1>2. th'[Server].pc = "idle"
  BY DEF WriteFails, Idle, Types, ThreadTypes, Epts
<1>3. /\ IsFiniteSet(reply'.pend)
      /\ Cardinality(reply'.pend) <= Cardinality(reply.pend) + 1
      /\ Cardinality(reply.pend) \in Nat /\ Cardinality(reply'.pend) \in Nat
  <2>1. IsFiniteSet(reply.pend)
    BY DEF TagsCounted
  <2> DEFINE S == reply.pend
             T == S \cup {th[Server].xid}
  <2>2. /\ IsFiniteSet(T) /\ Cardinality(T) <= Cardinality(S) + 1
        /\ Cardinality(S) \in Nat /\ Cardinality(T) \in Nat
    BY <2>1, AddOne, Zenon
  <2> QED BY <1>1, <2>2
<1>4. reply.avail \in Nat /\ reply.cnt \in Nat
  BY RpcAssumption DEF Types, QueueTypes, Replies
<1>5. reply.avail + Cardinality(reply.pend) + 1 <= reply.cnt
  BY DEF TagsCounted
<1>6. ~ TagHeld'
  BY <1>2 DEF TagHeld
<1>7. reply'.avail + Cardinality(reply'.pend) + 0 <= reply'.cnt
  BY <1>1, <1>3, <1>4, <1>5
<1> QED BY <1>2, <1>3, <1>6, <1>7 DEF TagsCounted

\* A thread changes its own state only.
LEMMA OthersAlone ==
    ASSUME Types, NEW e \in Epts,
           Thread(e) \/ WriteInterrupted(e) \/ ReadGivesUp(e) \/ CallStart(e)
    PROVE  \A o \in Epts \ {e} : th'[o] = th[o]
<1> USE DEF Types, ThreadTypes
<1>1. CASE Write(e) \/ WriteInterrupted(e) \/ CallStart(e)
  <2>1. CASE Send(e)
    <3>1. \/ th' = [th EXCEPT ![e] = Idle]
          \/ th' = [th EXCEPT ![e].pc = "r_restart", ![e].confirm = FALSE]
      BY <2>1, SendCases DEF SendsPacket, NetReset, WriteFails
    <3> QED BY <3>1
  <2>2. CASE TakeQuota(e)
    <3> DEFINE b == r'.tx_quota_cntr = Quota
    <3>1. \/ NetReset(e) \/ Sleeps(e)
          \/ th' = [th EXCEPT ![e].pc = "send", ![e].confirm = b]
      BY <2>2 DEF TakeQuota
    <3> HIDE DEF b
    <3> QED BY <3>1 DEF Sleeps, NetReset, WriteFails
  <2>3. CASE WaitForRestart(e, "w_restart", "quota") \/ WriteInterrupted(e) \/ CallStart(e)
    BY <2>3 DEF WriteInterrupted, CallStart, WaitForRestart, NetReset, WriteFails, Goes, Sleeps
  <2> QED BY <1>1, <2>1, <2>2, <2>3 DEF Write
<1>2. CASE Read(e) \/ ReadGivesUp(e)
  BY <1>2 DEF Read, ReadGivesUp, WaitForRestart, ReadWait, ReadAgain, ReadTake, ReadRelease,
     NetReset, WriteFails, Goes, Sleeps
<1> QED BY <1>1, <1>2 DEF Thread

\* The work queues may wake the server's thread, and no more.
LEMMA WorkServer ==
    ASSUME Types, Work \/ Cleanup
    PROVE  th'[Server].pc = th[Server].pc /\ th'[Server].xid = th[Server].xid
<1> USE DEF Types, ThreadTypes
<1>s. Server \in Epts /\ Clients \subseteq Epts /\ Server \notin Clients
  BY RpcAssumption DEF Epts
<1>w. \A ps : LET w == Woken(th, ps)[Server]
              IN  w.pc = th[Server].pc /\ w.xid = th[Server].xid
  BY <1>s DEF Woken, ThreadStates
<1>1. CASE WorkNewServer
  <2>1. Server \notin {e \in Clients : SVR \in restart[e]}
    BY <1>s
  <2>2. th'[Server] \in {th[Server], Woken(th, {"quota"})[Server]}
    BY <1>s, <1>1, <2>1 DEF WorkNewServer, handle_server_restart
  <2> QED BY <1>w, <2>2
<1>2. CASE WorkData
  <2>1. th'[Server] \in {th[Server], Woken(th, {"wait"})[Server]}
    BY <1>s, <1>2 DEF WorkData
  <2> QED BY <1>w, <2>1
<1>3. CASE WorkRead \/ WorkHello \/ WorkResume \/ Cleanup
  BY <1>s, <1>3, <1>w DEF WorkRead, WorkHello, WorkResume, Cleanup, CleanupLocal,
     CleanupRemote, RemoveXprt
<1> QED BY <1>1, <1>2, <1>3 DEF Work

\* Every step keeps the count of the tags.
LEMMA TagsNext ==
    ASSUME Types, TagsCounted, [Next]_vars
    PROVE  TagsCounted'
<1> USE DEF Types, ThreadTypes
<1>s. Server \in Epts /\ Clients \subseteq Epts /\ Server \notin Clients
  BY RpcAssumption DEF Epts
<1>n. /\ reply \in Replies /\ reply.avail \in Nat /\ reply.cnt \in Nat
      /\ IsFiniteSet(reply.pend) /\ Cardinality(reply.pend) \in Nat
  BY RpcAssumption, FS_CardinalityType DEF QueueTypes, Replies, TagsCounted
<1>a. ASSUME UNCHANGED <<th, reply, restart>> PROVE TagsCounted'
  BY <1>a, TagsAlone DEF ServerAlone
<1>o. ASSUME NEW e \in Epts, e # Server, UNCHANGED reply,
             \A o \in Epts \ {e} : th'[o] = th[o] /\ restart'[o] = restart[o]
      PROVE  TagsCounted'
  BY <1>s, <1>o, TagsAlone DEF ServerAlone
\* A thread that is not the server's changes neither.
<1>1. ASSUME NEW e \in Epts, e # Server,
             \/ Write(e) \/ WriteInterrupted(e) \/ Read(e) \/ ReadGivesUp(e) \/ CallStart(e)
      PROVE  TagsCounted'
  <2>1. UNCHANGED reply
    BY <1>1, SendCases DEF Write, WriteInterrupted, Read, ReadGivesUp, CallStart, WaitForRestart,
       TakeQuota, SendsPacket, ReadWait, ReadAgain, ReadTake, ReadRelease, NetReset, WriteFails,
       queueVars
  <2>2. \A o \in Epts \ {e} : restart'[o] = restart[o]
    BY <1>1, SendCases DEF Write, WriteInterrupted, Read, ReadGivesUp, CallStart, WaitForRestart,
       TakeQuota, SendsPacket, ReadWait, ReadAgain, ReadTake, ReadRelease, ClearNotify
  <2>3. \A o \in Epts \ {e} : th'[o] = th[o]
    BY <1>1, OthersAlone DEF Thread
  <2> QED BY <1>1, <1>o, <2>1, <2>2, <2>3
\* The server's thread: it is never told of a reset by its restart_state.
<1>2. ASSUME Write(Server) \/ WriteInterrupted(Server)
      PROVE  TagsCounted'
  <2>1. CASE WaitForRestart(Server, "w_restart", "quota")
    <3>1. /\ Runs(Server, "w_restart") /\ UNCHANGED <<reply, restart>>
          /\ Goes(Server, "quota")
      BY <2>1 DEF WaitForRestart, TagsCounted, RESTART_NORMAL, queueVars
    <3>2. th'[Server].pc = "quota" /\ th'[Server].xid = th[Server].xid
      BY <1>s, <3>1 DEF Goes, ThreadStates
    <3> QED BY <3>1, <3>2, TagsAlone DEF ServerAlone, Runs, TagHeld
  <2>2. CASE TakeQuota(Server)
    <3>1. Runs(Server, "quota")
      BY <2>2 DEF TakeQuota
    <3>2. CASE ClearNotify(Server) /\ NetReset(Server)
      <4>1. UNCHANGED restart[Server]
        BY <1>s, <3>2 DEF ClearNotify, TagsCounted, RESTART_NORMAL
      <4> QED BY <3>1, <3>2, <4>1, TagBack DEF NetReset, Runs, TagHeld
    <3>3. CASE /\ th' = [th EXCEPT ![Server].pc = "send",
                          ![Server].confirm = (r'.tx_quota_cntr = Quota)]
               /\ UNCHANGED <<restart, queueVars, missed>>
      <4> DEFINE b == r'.tx_quota_cntr = Quota
      <4>1. th' = [th EXCEPT ![Server].pc = "send", ![Server].confirm = b]
        BY <3>3
      <4> HIDE DEF b
      <4>2. th'[Server].pc = "send" /\ th'[Server].xid = th[Server].xid
        BY <1>s, <4>1 DEF ThreadStates
      <4> QED BY <3>1, <3>3, <4>2, TagsAlone DEF ServerAlone, Runs, TagHeld, queueVars
    <3>4. CASE Sleeps(Server) /\ UNCHANGED <<restart, queueVars, r, missed>>
      <4>1. th'[Server].pc = "quota" /\ th'[Server].xid = th[Server].xid
        BY <1>s, <3>1, <3>4 DEF Sleeps, Runs, ThreadStates
      <4> QED BY <3>1, <3>4, <4>1, TagsAlone DEF ServerAlone, Runs, TagHeld, queueVars
    <3> QED BY <2>2, <3>2, <3>3, <3>4 DEF TakeQuota
  <2>3. CASE Send(Server)
    <3>1. Runs(Server, "send")
      BY <2>3 DEF Send
    <3>2. CASE NetReset(Server) /\ (UNCHANGED restart \/ ClearNotify(Server))
      <4>1. UNCHANGED restart[Server]
        BY <1>s, <3>2 DEF ClearNotify, TagsCounted, RESTART_NORMAL
      <4> QED BY <3>1, <3>2, <4>1, TagBack DEF NetReset, Runs, TagHeld
    <3>3. CASE SendsPacket(Server)
      <4> DEFINE b == reply.pend # {}
      <4>1. /\ th' = [th EXCEPT ![Server] = Idle] /\ UNCHANGED restart
            /\ reply' = [reply EXCEPT !.avail = @ + 1, !.lock = b]
        BY <3>3 DEF SendsPacket
      <4> HIDE DEF b
      <4>2. th'[Server].pc = "idle"
        BY <1>s, <4>1 DEF Idle
      <4>3. reply'.pend = reply.pend /\ reply'.avail = reply.avail + 1 /\ reply'.cnt = reply.cnt
        BY <1>n, <4>1 DEF Replies
      <4>4. reply.avail + Cardinality(reply.pend) + 1 <= reply.cnt
        BY <3>1 DEF TagsCounted, TagHeld, Runs
      <4>5. ~ TagHeld'
        BY <4>2 DEF TagHeld
      <4>6. reply'.avail + Cardinality(reply'.pend) + 0 <= reply'.cnt
        BY <1>n, <4>3, <4>4
      <4> QED BY <4>1, <4>2, <4>3, <4>5, <4>6 DEF TagsCounted
    <3>4. \/ NetReset(Server) /\ (UNCHANGED restart \/ ClearNotify(Server)) /\ UNCHANGED outq
          \/ SendsPacket(Server)
      BY <2>3, SendCases
    <3> QED BY <3>2, <3>3, <3>4
  <2>4. CASE WriteInterrupted(Server)
    <3>1. CASE TagHeld
      BY <2>4, <3>1, TagBack DEF WriteInterrupted
    <3> QED BY <2>4, <3>1 DEF WriteInterrupted, TagHeld
  <2> QED BY <1>2, <2>1, <2>2, <2>3, <2>4 DEF Write
<1>3. ASSUME Read(Server) \/ ReadGivesUp(Server)
      PROVE  TagsCounted'
  <2>i. ASSUME th' = [th EXCEPT ![Server] = Idle], UNCHANGED <<reply, restart>>, ~ TagHeld
        PROVE  TagsCounted'
    <3>1. th'[Server].pc = "idle"
      BY <1>s, <2>i DEF Idle
    <3> QED BY <1>n, <2>i, <3>1 DEF TagsCounted, TagHeld
  <2>g. ASSUME NEW p \in {"r_restart", "wait", "take", "got", "other"}, Goes(Server, p),
               UNCHANGED <<reply, restart>>,
               th[Server].pc \in {"r_restart", "wait", "take", "got", "other"}
        PROVE  TagsCounted'
    <3>1. th'[Server].pc = p /\ th'[Server].xid = th[Server].xid
      BY <1>s, <2>g DEF Goes, ThreadStates
    <3> QED BY <2>g, <3>1, TagsAlone DEF ServerAlone, TagHeld
  <2>s. ASSUME Sleeps(Server), UNCHANGED <<reply, restart>>
        PROVE  TagsCounted'
    <3>1. th'[Server].pc = th[Server].pc /\ th'[Server].xid = th[Server].xid
      BY <1>s, <2>s DEF Sleeps, ThreadStates
    <3> QED BY <2>s, <3>1, TagsAlone DEF ServerAlone
  <2>1. CASE WaitForRestart(Server, "r_restart", "wait")
    BY <2>1, <2>g DEF WaitForRestart, Runs, TagsCounted, RESTART_NORMAL, queueVars
  <2>2. CASE ReadWait(Server)
    BY <2>2, <2>g, <2>s DEF ReadWait, Runs, TagsCounted, queueVars
  <2>3. CASE ReadGivesUp(Server)
    BY <2>3, <2>i DEF ReadGivesUp, TagsCounted, TagHeld, queueVars
  <2>4. CASE ReadAgain(Server)
    BY <2>4, <2>i DEF ReadAgain, Runs, TagHeld, queueVars
  <2>5. CASE ReadTake(Server)
    <3>1. Runs(Server, "take") /\ UNCHANGED <<reply, restart>>
      BY <2>5 DEF ReadTake
    <3>2. CASE th' = [th EXCEPT ![Server].pc = "tag", ![Server].xid = Head(read_q[Server]).xid]
      <4>1. th'[Server].pc = "tag"
        BY <1>s, <3>2 DEF ThreadStates
      <4> QED BY <1>n, <3>1, <4>1 DEF TagsCounted, TagHeld, Runs
    <3>3. CASE Goes(Server, "got") \/ Goes(Server, "other")
      BY <3>1, <3>3, <2>g DEF Runs
    <3> QED BY <2>5, <3>2, <3>3 DEF ReadTake
  <2>6. CASE ReadRelease(Server)
    <3>1. UNCHANGED <<reply, restart>>
      BY <2>6 DEF ReadRelease
    <3>2. CASE th[Server].pc = "called"
      <4>1. Goes(Server, "serve")
        BY <2>6, <3>2 DEF ReadRelease
      <4>2. th'[Server].pc = "serve" /\ th'[Server].xid = th[Server].xid
        BY <1>s, <4>1 DEF Goes, ThreadStates
      <4> QED BY <3>1, <3>2, <4>2, TagsAlone DEF ServerAlone
    <3>3. CASE th[Server].pc = "other"
      BY <2>6, <3>1, <3>3, <2>g DEF ReadRelease
    <3>4. CASE th[Server].pc \in {"got", "dropped"}
      BY <2>6, <3>1, <3>4, <2>i DEF ReadRelease, TagHeld
    <3> QED BY <2>6, <3>2, <3>3, <3>4 DEF ReadRelease
  <2> QED BY <1>3, <2>1, <2>2, <2>3, <2>4, <2>5, <2>6 DEF Read
<1>4. CASE ServerReads
  <2>1. th'[Server].pc = "r_restart" /\ th'[Server].xid = th[Server].xid
    BY <1>4, <1>s DEF ServerReads, Goes, ThreadStates
  <2> QED BY <1>4, <2>1, TagsAlone DEF ServerReads, ServerAlone, Idle, TagHeld, queueVars
<1>5. CASE ReadTag
  <2>1. CASE Goes(Server, "dropped") /\ UNCHANGED reply
    <3>1. th'[Server].pc = "dropped" /\ th'[Server].xid = th[Server].xid
      BY <1>s, <2>1 DEF Goes, ThreadStates
    <3> QED BY <1>5, <2>1, <3>1, TagsAlone DEF ReadTag, Runs, ServerAlone, TagHeld
  <2>2. CASE /\ reply' = [pend |-> reply.pend \cup {th[Server].xid}, lock |-> TRUE,
                       avail |-> IF reply.avail > 0 THEN reply.avail - 1 ELSE 0,
                       cnt |-> IF reply.avail > 0 THEN reply.cnt ELSE reply.cnt + 1]
             /\ Goes(Server, "called")
    <3>1. th'[Server].pc = "called" /\ th'[Server].xid = th[Server].xid
      BY <1>s, <2>2 DEF Goes, ThreadStates
    <3>2. /\ IsFiniteSet(reply'.pend) /\ Cardinality(reply'.pend) \in Nat
          /\ Cardinality(reply'.pend) <= Cardinality(reply.pend) + 1
      <4>1. reply'.pend = reply.pend \cup {th[Server].xid}
        BY <2>2
      <4> DEFINE S == reply.pend
                 T == S \cup {th[Server].xid}
      <4>2. /\ IsFiniteSet(T) /\ Cardinality(T) <= Cardinality(S) + 1 /\ Cardinality(T) \in Nat
        BY <1>n, AddOne, Zenon
      <4> QED BY <4>1, <4>2
    <3>3. reply'.avail - reply'.cnt = reply.avail - reply.cnt - 1 /\ reply'.avail \in Nat
             /\ reply'.cnt \in Nat
      BY <1>n, <2>2
    <3>4. reply.avail + Cardinality(reply.pend) <= reply.cnt
      BY <1>n DEF TagsCounted
    <3>5. reply'.avail + Cardinality(reply'.pend) + 0 <= reply'.cnt
      BY <1>n, <3>2, <3>3, <3>4
    <3>6. ~ TagHeld' /\ th'[Server].xid \in reply'.pend /\ UNCHANGED restart
      BY <1>5, <2>2, <3>1 DEF TagHeld, ReadTag
    <3> QED BY <3>2, <3>5, <3>6 DEF TagsCounted
  <2> QED BY <1>5, <2>1, <2>2 DEF ReadTag
<1>6. CASE ReplyStart
  <2>1. th'[Server].pc = "w_restart" /\ UNCHANGED restart
    BY <1>6, <1>s DEF ReplyStart, Goes, ThreadStates
  <2>2. /\ reply'.pend = reply.pend \ {th[Server].xid} /\ th[Server].xid \in reply.pend
        /\ reply'.avail = reply.avail /\ reply'.cnt = reply.cnt
    BY <1>6, <1>n DEF ReplyStart, Replies, TagsCounted, Runs
  <2>3. IsFiniteSet(reply'.pend) /\ Cardinality(reply'.pend) = Cardinality(reply.pend) - 1
    BY <1>n, <2>2, FS_RemoveElement
  <2>4. reply.avail + Cardinality(reply.pend) <= reply.cnt
    BY <1>n DEF TagsCounted
  <2>5. reply'.avail + Cardinality(reply'.pend) + 1 <= reply'.cnt
    BY <1>n, <2>2, <2>3, <2>4
  <2> QED BY <2>1, <2>3, <2>5 DEF TagsCounted, TagHeld
\* The work queues may wake the server, and reset its quota, but not its tags.
<1>7. CASE Work \/ Cleanup
  <2>1. th'[Server].pc = th[Server].pc /\ th'[Server].xid = th[Server].xid
    BY <1>7, WorkServer
  <2>2. UNCHANGED <<reply, restart[Server]>>
    BY <1>7, <1>s DEF Work, WorkRead, WorkHello, WorkResume, WorkNewServer, TagsCounted,
       handle_server_restart, WorkData, Cleanup, CleanupLocal, CleanupRemote, RemoveXprt,
       queueVars, RESTART_NORMAL
  <2> QED BY <2>1, <2>2, TagsAlone DEF ServerAlone
<1>8. CASE ModemRuns \/ ModemCalls \/ ModemResets \/ ModemStarts
  BY <1>8, <1>a DEF ModemRuns, ModemTakes, ModemAnswers, ModemCalls, ModemResets,
                    ModemStarts, ModemUnchanged, queueVars
<1>9. CASE UNCHANGED vars
  BY <1>9, <1>a DEF vars
<1> QED BY <1>1, <1>2, <1>3, <1>4, <1>5, <1>6, <1>7, <1>8, <1>9, <1>s DEF Next, Thread, Serve

(***************************************************************************)
(* What makes AwakeWhileOwed inductive: the read wake lock is the one held *)
(* until the tag is pending, and the reply wake lock from then on.         *)
(***************************************************************************)
QueuesAwake == \A e \in Epts : read_q[e] # <<>> => readLock[e]

ReplyAwake ==
    /\ reply.pend # {} => reply.lock
    /\ th[Server].pc = "tag" => readLock[Server]
    /\ th[Server].pc \in {"called", "serve", "w_restart", "quota", "send"} => reply.lock

\* Packets are queued under the read wake lock, which the last one releases.
LEMMA QueuesNext ==
    ASSUME Types, QueuesAwake, [Next]_vars
    PROVE  QueuesAwake'
<1> USE DEF Types, QueueTypes
<1>s. Server \in Epts /\ Clients \subseteq Epts
  BY DEF Epts
<1>a. ASSUME UNCHANGED <<read_q, readLock>> PROVE QueuesAwake'
  BY <1>a DEF QueuesAwake
<1>1. ASSUME NEW e \in Epts, \/ Write(e) \/ WriteInterrupted(e) \/ ReadGivesUp(e)
                             \/ WaitForRestart(e, "r_restart", "wait")
                             \/ ReadWait(e) \/ ReadAgain(e)
      PROVE  QueuesAwake'
  BY <1>1, <1>a, SendCases DEF Write, WaitForRestart, TakeQuota, SendsPacket, WriteInterrupted,
     ReadWait, ReadAgain, ReadGivesUp, NetReset, WriteFails, queueVars
<1>2. ASSUME NEW e \in Epts, ReadTake(e)
      PROVE  QueuesAwake'
  BY <1>2 DEF ReadTake, QueuesAwake
<1>3. ASSUME NEW e \in Epts, ReadRelease(e)
      PROVE  QueuesAwake'
  BY <1>3 DEF ReadRelease, QueuesAwake
<1>4. CASE Serve \/ \E e \in Clients : CallStart(e)
  BY <1>4, <1>a DEF Serve, ServerReads, ReadTag, ReplyStart, CallStart, queueVars
<1>5. CASE WorkData
  BY <1>5 DEF WorkData, QueuesAwake
<1>6. CASE CleanupLocal
  BY <1>6 DEF CleanupLocal, QueuesAwake
<1>7. CASE \/ WorkRead \/ WorkHello \/ WorkResume \/ WorkNewServer
           \/ CleanupRemote \/ RemoveXprt
  BY <1>7, <1>a DEF WorkRead, WorkHello, WorkResume, WorkNewServer, CleanupRemote, RemoveXprt,
     queueVars
<1>8. CASE ModemRuns \/ ModemCalls \/ ModemResets \/ ModemStarts
  BY <1>8, <1>a DEF ModemRuns, ModemTakes, ModemAnswers, ModemCalls, ModemResets,
                    ModemStarts, ModemUnchanged, queueVars
<1>9. CASE UNCHANGED vars
  BY <1>9, <1>a DEF vars
<1> QED BY <1>1, <1>2, <1>3, <1>4, <1>5, <1>6, <1>7, <1>8, <1>9
    DEF Next, Thread, Read, Work, Cleanup

\* The reply wake lock is taken before the read wake lock can be released.
LEMMA ReplyNext ==
    ASSUME Types, TagsCounted, QueuesAwake, ReplyAwake, [Next]_vars
    PROVE  ReplyAwake'
<1> USE DEF Types, ThreadTypes
<1>s. Server \in Epts /\ Clients \subseteq Epts /\ Server \notin Clients
  BY RpcAssumption DEF Epts
<1>r. reply \in Replies /\ readLock \in [Epts -> BOOLEAN]
  BY DEF QueueTypes
<1>a. ASSUME UNCHANGED reply, readLock'[Server] = readLock[Server],
             th'[Server].pc \in {th[Server].pc, "idle", "r_restart", "wait", "take", "got", "other",
                                 "dropped"}
      PROVE  ReplyAwake'
  BY <1>a DEF ReplyAwake
<1>1. ASSUME NEW e \in Epts, e # Server, Thread(e) \/ WriteInterrupted(e) \/ ReadGivesUp(e)
      PROVE  ReplyAwake'
  <2>1. UNCHANGED reply
    BY <1>1, SendCases DEF Thread, Write, WriteInterrupted, Read, ReadGivesUp, WaitForRestart,
       TakeQuota, SendsPacket, ReadWait, ReadAgain, ReadTake, ReadRelease, NetReset, WriteFails,
       queueVars
  <2>3. readLock'[Server] = readLock[Server]
    <3>1. CASE ReadRelease(e)
      BY <1>1, <1>r, <1>s, <3>1 DEF ReadRelease
    <3>2. CASE ~ ReadRelease(e)
      BY <1>1, <3>2, SendCases DEF Thread, Write, WriteInterrupted, Read, ReadGivesUp,
         WaitForRestart, TakeQuota, SendsPacket, ReadWait, ReadAgain, ReadTake, NetReset,
         WriteFails, queueVars
    <3> QED BY <3>1, <3>2
  <2>2. th'[Server] = th[Server]
    BY <1>1, <1>s, OthersAlone
  <2> QED BY <1>a, <2>1, <2>2, <2>3
<1>2. CASE Write(Server) \/ WriteInterrupted(Server)
  <2>f. ASSUME WriteFails(Server) PROVE ReplyAwake'
    <3>1. th'[Server].pc = "idle" /\ reply'.lock
      BY <2>f, <1>s, <1>r DEF WriteFails, Idle, Replies
    <3> QED BY <3>1 DEF ReplyAwake
  <2>g. ASSUME UNCHANGED <<reply, readLock>>,
               th[Server].pc \in {"w_restart", "quota", "send"},
               th'[Server].pc \in {"w_restart", "quota", "send"}
        PROVE  ReplyAwake'
    BY <2>g DEF ReplyAwake
  <2>1. CASE WaitForRestart(Server, "w_restart", "quota")
    BY <2>1, <2>f, <2>g, <1>s
       DEF WaitForRestart, Runs, Goes, Sleeps, NetReset, queueVars, ThreadStates
  <2>2. CASE TakeQuota(Server)
    <3> DEFINE b == r'.tx_quota_cntr = Quota
    <3>1. \/ NetReset(Server)
          \/ /\ \/ Sleeps(Server)
                \/ th' = [th EXCEPT ![Server].pc = "send", ![Server].confirm = b]
             /\ UNCHANGED <<reply, readLock>> /\ th[Server].pc = "quota"
      BY <2>2 DEF TakeQuota, Runs, queueVars
    <3> HIDE DEF b
    <3> QED BY <3>1, <2>f, <2>g, <1>s DEF Sleeps, NetReset, ThreadStates
  <2>3. CASE Send(Server)
    <3>1. CASE SendsPacket(Server)
      <4> DEFINE b == reply.pend # {}
      <4>1. /\ th' = [th EXCEPT ![Server] = Idle] /\ UNCHANGED readLock
            /\ reply' = [reply EXCEPT !.avail = @ + 1, !.lock = b]
        BY <3>1 DEF SendsPacket
      <4> HIDE DEF b
      <4>2. th'[Server].pc = "idle"
        BY <1>s, <4>1 DEF Idle
      <4>3. reply'.pend = reply.pend /\ reply'.lock = b
        BY <1>r, <4>1 DEF Replies
      <4> QED BY <4>2, <4>3 DEF ReplyAwake, b
    <3>2. CASE NetReset(Server)
      BY <3>2, <2>f DEF NetReset
    <3> QED BY <2>3, <3>1, <3>2, SendCases
  <2>4. CASE WriteInterrupted(Server)
    BY <2>4, <2>f DEF WriteInterrupted
  <2> QED BY <1>2, <2>1, <2>2, <2>3, <2>4 DEF Write
<1>3. CASE Read(Server) \/ ReadGivesUp(Server)
  <2>1. CASE \/ WaitForRestart(Server, "r_restart", "wait") \/ ReadWait(Server)
             \/ ReadAgain(Server) \/ ReadGivesUp(Server)
    <3>1. UNCHANGED <<reply, readLock>>
      BY <2>1 DEF WaitForRestart, ReadWait, ReadAgain, ReadGivesUp, TagsCounted, queueVars,
         RESTART_NORMAL
    <3>2. th'[Server].pc \in {th[Server].pc, "idle", "r_restart", "wait", "take"}
      BY <2>1, <1>s DEF WaitForRestart, ReadWait, ReadAgain, ReadGivesUp, Goes, Sleeps, NetReset,
         WriteFails, Idle, ThreadStates
    <3> QED BY <1>a, <3>1, <3>2
  <2>2. CASE ReadTake(Server)
    <3>1. UNCHANGED <<reply, readLock>> /\ readLock[Server]
      BY <2>2, <1>s DEF ReadTake, QueuesAwake
    <3>2. th'[Server].pc \in {"tag", "got", "other"}
      BY <2>2, <1>s DEF ReadTake, Goes, ThreadStates
    <3> QED BY <3>1, <3>2 DEF ReplyAwake
  <2>3. CASE ReadRelease(Server)
    <3>1. UNCHANGED reply /\ th'[Server].pc \in {"idle", "r_restart", "serve"}
          /\ (th'[Server].pc = "serve" => th[Server].pc = "called")
      BY <2>3, <1>s DEF ReadRelease, Goes, Idle, ThreadStates
    <3> QED BY <3>1 DEF ReplyAwake
  <2> QED BY <1>3, <2>1, <2>2, <2>3 DEF Read
<1>4. CASE Serve
  <2>1. CASE ServerReads
    BY <1>a, <2>1, <1>s DEF ServerReads, Goes, ThreadStates, queueVars
  <2>2. CASE ReadTag
    <3>1. CASE Goes(Server, "dropped") /\ UNCHANGED reply
      BY <1>a, <2>2, <3>1, <1>s DEF ReadTag, Goes, ThreadStates
    <3>2. CASE /\ reply' = [pend |-> reply.pend \cup {th[Server].xid}, lock |-> TRUE,
                       avail |-> IF reply.avail > 0 THEN reply.avail - 1 ELSE 0,
                       cnt |-> IF reply.avail > 0 THEN reply.cnt ELSE reply.cnt + 1]
               /\ Goes(Server, "called")
      <4>1. reply'.lock /\ th'[Server].pc = "called"
        BY <3>2, <1>s DEF Goes, ThreadStates
      <4> QED BY <4>1 DEF ReplyAwake
    <3> QED BY <2>2, <3>1, <3>2 DEF ReadTag
  <2>3. CASE ReplyStart
    <3>1. reply'.lock = reply.lock /\ th[Server].pc = "serve" /\ th'[Server].pc = "w_restart"
      BY <2>3, <1>s, <1>r DEF ReplyStart, Goes, Runs, Replies, ThreadStates
    <3> QED BY <3>1 DEF ReplyAwake
  <2> QED BY <1>4, <2>1, <2>2, <2>3 DEF Serve
<1>5. CASE \E e \in Clients : CallStart(e)
  BY <1>5, <1>a, <1>s DEF CallStart, queueVars
<1>6. CASE Work \/ Cleanup
  <2>1. UNCHANGED reply /\ (readLock'[Server] = readLock[Server] \/ readLock'[Server])
    BY <1>6, <1>s, <1>r DEF Work, WorkRead, WorkHello, WorkResume, WorkNewServer, WorkData, Cleanup,
       CleanupLocal, CleanupRemote, RemoveXprt, queueVars
  <2>2. th'[Server].pc = th[Server].pc
    BY <1>6, WorkServer
  <2> QED BY <2>1, <2>2 DEF ReplyAwake
<1>7. CASE ModemRuns \/ ModemCalls \/ ModemResets \/ ModemStarts
  BY <1>7, <1>a DEF ModemRuns, ModemTakes, ModemAnswers, ModemCalls, ModemResets,
                    ModemStarts, ModemUnchanged, queueVars
<1>8. CASE UNCHANGED vars
  BY <1>8, <1>a DEF vars
<1> QED BY <1>1, <1>2, <1>3, <1>4, <1>5, <1>6, <1>7, <1>8 DEF Next, Thread

-----------------------------------------------------------------------------
\* The inductive invariant: no part of it is preserved without another.
RInv == /\ Types /\ CallIds /\ TagsCounted
        /\ NotifiedOnce /\ QueuesAwake /\ ReplyAwake

\* It holds initially.
LEMMA InitRInv == Init => RInv
<1> SUFFICES ASSUME Init PROVE RInv
  OBVIOUS
<1> USE DEF Init
<1>s. Server \in Epts /\ Clients \subseteq Epts
  BY DEF Epts
<1>1. th \in [Epts -> ThreadStates]
  BY DEF Idle, ThreadStates, Pcs
<1>2. reply \in Replies
  BY RpcAssumption DEF Replies
<1>3. Types
  <2>1. read_q \in [Epts -> Seq(Packets)] /\ readLock \in [Epts -> BOOLEAN]
    OBVIOUS
  <2>2. <<>> \in Seq(Msgs) /\ Len(<<>>) <= Room
    BY RpcAssumption
  <2>3. restart \in [Epts -> SUBSET {NTFY, SVR}]
    BY DEF RESTART_NORMAL
  <2> QED BY <1>1, <1>2, <2>1, <2>2, <2>3 DEF Types, ThreadTypes, QueueTypes, LinkTypes
<1>4. th[Server].pc = "idle" /\ reply.pend = {} /\ reply.avail = 0 /\ reply.cnt = 0
  BY <1>s DEF Idle
<1>5. IsFiniteSet({}) /\ Cardinality({}) = 0
  BY FS_EmptySet
<1>6. TagsCounted
  BY <1>s, <1>4, <1>5 DEF TagsCounted, TagHeld
<1>7. CallIds
  BY DEF CallIds, Idle
<1> QED BY <1>s, <1>3, <1>4, <1>6, <1>7 DEF RInv, NotifiedOnce, QueuesAwake, ReplyAwake

\* Every step keeps it.
LEMMA NextRInv == RInv /\ [Next]_vars => RInv'
<1> SUFFICES ASSUME RInv, [Next]_vars PROVE RInv'
  OBVIOUS
<1> USE DEF RInv
<1>1. Types'
  <2>1. CASE UNCHANGED vars
    BY <2>1 DEF vars, Types, ThreadTypes, QueueTypes, LinkTypes
  <2> QED BY <2>1, TypesWrite, TypesServe, TypesRead, TypesWork, TypesModem DEF Next, Thread
<1> QED BY <1>1, IdsNext, TagsNext, NotifiedNext, QueuesNext, ReplyNext

\* Hence RInv is an invariant of the router, whether restarts are calm or not.
LEMMA RouterInv == Spec => []RInv
BY InitRInv, NextRInv, PTL DEF Spec

(***************************************************************************)
(* Thread, queue and link states are in range; reply_cnt, which            *)
(* get_avail_reply compares with RPCROUTER_PEND_REPLIES_MAX, bounds the    *)
(* tags that are free or pending, however many calls, resets and signals   *)
(* come.                                                                   *)
(***************************************************************************)
THEOREM RouterTypeOK == Spec => []TypeOK
<1>1. RInv => TypeOK
  <2> SUFFICES ASSUME RInv PROVE TypeOK
    OBVIOUS
  <2>1. ThreadTypes /\ QueueTypes /\ LinkTypes
    BY DEF RInv, Types
  <2>2. \A e \in Epts : /\ th[e].pc \in Pcs /\ th[e].xid \in Xids \cup {0}
                        /\ restart[e] \subseteq {NTFY, SVR} /\ readLock[e] \in BOOLEAN
    BY <2>1 DEF ThreadTypes, QueueTypes, ThreadStates
  <2>3. reply.avail + Cardinality(reply.pend) <= reply.cnt
    <3>1. /\ reply.avail \in Nat /\ reply.cnt \in Nat /\ IsFiniteSet(reply.pend)
          /\ reply.avail + Cardinality(reply.pend) + (IF TagHeld THEN 1 ELSE 0) <= reply.cnt
      BY <2>1, RpcAssumption DEF RInv, QueueTypes, Replies, TagsCounted
    <3>2. Cardinality(reply.pend) \in Nat
      BY <3>1, FS_CardinalityType
    <3> QED BY <3>1, <3>2
  <2>4. /\ reply.pend \subseteq Xids /\ reply.lock \in BOOLEAN
        /\ reply.cnt \in 0..RPCROUTER_PEND_REPLIES_MAX
    BY <2>1 DEF QueueTypes, Replies
  <2>5. r.tx_quota_cntr \in Nat /\ r.abort \in BOOLEAN
    BY <2>1 DEF LinkTypes
  <2> QED BY <2>1, <2>2, <2>3, <2>4, <2>5 DEF TypeOK, Pcs, ThreadTypes, LinkTypes
<1> QED BY <1>1, RouterInv, PTL

(***************************************************************************)
(* smd_rpcrouter.h:64: a client gets an ENETRESET for each reset, even if  *)
(* it was in no call when the reset happened: for any number of clients,   *)
(* and whether restarts are calm or not.                                   *)
(***************************************************************************)
THEOREM RouterNotifiedOnce == Spec => []NotifiedOnce
<1>1. RInv => NotifiedOnce
  BY DEF RInv
<1> QED BY <1>1, RouterInv, PTL

(***************************************************************************)
(* The wake locks of an endpoint leave no gap in which the phone could     *)
(* suspend between the arrival of a call and the writing of its reply.     *)
(***************************************************************************)
THEOREM RouterAwake == Spec => []AwakeWhileOwed
<1>1. RInv => AwakeWhileOwed
  BY DEF RInv, QueuesAwake, ReplyAwake, AwakeWhileOwed
<1> QED BY <1>1, RouterInv, PTL

-----------------------------------------------------------------------------
(***************************************************************************)
(* Calm restarts.  While the modem is down nothing it sent before is left; *)
(* from the cleanup until NEW_SERVER the quota is aborted; and a thread    *)
(* that has taken its quota while the modem is up is going to send.        *)
(***************************************************************************)
DownQuiet ==
    /\ link # "up" => inq = <<>> /\ work # NEW_SERVER
    /\ link = "down" => work = Nothing

AbortedUntilBack ==
    /\ link \in {"remote", "down"} => r.abort
    /\ link = "up" /\ ~ known =>
          /\ r.abort
          /\ work = HELLO \/ (work = Nothing /\ inq # <<>> /\ Head(inq) = HELLO)

WritersConnected ==
    link = "up" => \A e \in Epts :
        th[e].pc \in {"quota", "send"} => restart[e] = RESTART_NORMAL

\* A thread does not touch the link.
LEMMA ThreadLink ==
    ASSUME NEW e, Thread(e) \/ WriteInterrupted(e) \/ ReadGivesUp(e) \/ CallStart(e)
    PROVE  UNCHANGED modemVars /\ (r' = r \/ r' = [r EXCEPT !.tx_quota_cntr = @ + 1])
BY DEF Thread, Write, WriteInterrupted, Read, ReadGivesUp, CallStart, WaitForRestart, TakeQuota,
   Send, ReadWait, ReadAgain, ReadTake, ReadRelease

\* Nor does the server's thread.
LEMMA ServeLink == Serve => UNCHANGED <<r, modemVars>>
BY DEF Serve, ServerReads, ReadTag, ReplyStart

\* The link's own invariants are kept by every step.
LEMMA LinkNext ==
    ASSUME Calm, Types, DownQuiet, AbortedUntilBack, [Next]_vars
    PROVE  DownQuiet' /\ AbortedUntilBack'
<1> USE DEF Types, LinkTypes
<1>a. ASSUME UNCHANGED modemVars, r'.abort = r.abort PROVE DownQuiet' /\ AbortedUntilBack'
  BY <1>a DEF DownQuiet, AbortedUntilBack, modemVars
<1>1. CASE \/ Serve
           \/ \E e \in Epts : Thread(e) \/ WriteInterrupted(e) \/ ReadGivesUp(e)
           \/ \E e \in Clients : CallStart(e)
  <2>1. UNCHANGED modemVars /\ (r' = r \/ r' = [r EXCEPT !.tx_quota_cntr = @ + 1])
    BY <1>1, ThreadLink, ServeLink
  <2> QED BY <1>a, <2>1
<1>n. HELLO # Nothing /\ HELLO # NEW_SERVER /\ NEW_SERVER # Nothing /\ RESUME_TX # HELLO
      /\ RESUME_TX # Nothing
  BY DEF HELLO, NEW_SERVER, RESUME_TX, Nothing
<1>2. CASE WorkRead
  BY <1>2, <1>n DEF WorkRead, DownQuiet, AbortedUntilBack
<1>3. CASE WorkHello
  BY <1>3, <1>n DEF WorkHello, DownQuiet, AbortedUntilBack
<1>4. CASE WorkResume
  BY <1>4, <1>n DEF WorkResume, DownQuiet, AbortedUntilBack
<1>5. CASE WorkNewServer
  BY <1>5, <1>n DEF WorkNewServer, handle_server_restart, DownQuiet, AbortedUntilBack
<1>6. CASE WorkData
  BY <1>6, <1>n DEF WorkData, DownQuiet, AbortedUntilBack, HELLO
<1>7. CASE Cleanup
  BY <1>7 DEF Cleanup, CleanupLocal, CleanupRemote, RemoveXprt, DownQuiet, AbortedUntilBack
<1>8. CASE ModemTakes
  BY <1>8, <1>n, SMTT(30) DEF ModemTakes, ModemUnchanged, DownQuiet, AbortedUntilBack
<1>9. CASE ModemAnswers \/ ModemCalls
  <2>1. PICK d : inq' = Append(inq, d)
    BY <1>9 DEF ModemAnswers, ModemCalls
  <2>2. inq # <<>> => inq' # <<>> /\ Head(inq') = Head(inq)
    BY <2>1
  <2> QED BY <1>9, <2>2 DEF ModemAnswers, ModemCalls, ModemUnchanged, DownQuiet, AbortedUntilBack
<1>10. CASE ModemResets
  BY <1>10, <1>n DEF ModemResets, ModemUnchanged, DownQuiet, AbortedUntilBack
<1>11. CASE ModemStarts
  BY <1>11, <1>n DEF ModemStarts, ModemUnchanged, DownQuiet, AbortedUntilBack
<1>12. CASE UNCHANGED vars
  BY <1>12, <1>a DEF vars, modemVars
<1> QED BY <1>1, <1>2, <1>3, <1>4, <1>5, <1>6, <1>7, <1>8, <1>9, <1>10, <1>11, <1>12
    DEF Next, Work, ModemRuns

\* A thread that waits, and no other, is woken: its place and its packet stay.
LEMMA WorkThreads ==
    ASSUME Types, Work \/ Cleanup, NEW o \in Epts
    PROVE  th'[o].pc = th[o].pc /\ th'[o].confirm = th[o].confirm
<1> USE DEF Types, ThreadTypes
<1>s. Server \in Epts /\ Clients \subseteq Epts
  BY DEF Epts
<1>w. ASSUME NEW t \in [Epts -> ThreadStates], NEW ps
      PROVE  Woken(t, ps)[o].pc = t[o].pc /\ Woken(t, ps)[o].confirm = t[o].confirm
  BY DEF Woken, ThreadStates
<1>1. CASE WorkNewServer
  <2> DEFINE t == IF r.abort THEN Woken(th, {"quota"}) ELSE th
             w == Woken(t, {"w_restart", "r_restart", "wait"})
  <2>1. t \in [Epts -> ThreadStates]
    BY <1>s, ThreadMoves
  <2>2. t[o].pc = th[o].pc /\ t[o].confirm = th[o].confirm
    BY <1>w
  <2>3. th'[o] \in {w[o], t[o]}
    BY <1>1 DEF WorkNewServer, handle_server_restart
  <2> HIDE DEF t
  <2>4. w[o].pc = t[o].pc /\ w[o].confirm = t[o].confirm
    BY <1>w, <2>1
  <2> HIDE DEF w
  <2> QED BY <2>2, <2>3, <2>4
<1>2. CASE WorkData
  <2>1. th'[o] \in {th[o], Woken(th, {"wait"})[o]}
    BY <1>2 DEF WorkData
  <2> QED BY <1>w, <2>1
<1>3. CASE WorkRead \/ WorkHello \/ WorkResume \/ Cleanup
  BY <1>3, <1>w DEF WorkRead, WorkHello, WorkResume, Cleanup, CleanupLocal, CleanupRemote,
     RemoveXprt
<1> QED BY <1>1, <1>2, <1>3 DEF Work

\* A thread takes its quota after it has seen the server back.
LEMMA WritersNext ==
    ASSUME Calm, Types, WritersConnected, [Next]_vars
    PROVE  WritersConnected'
<1> USE DEF Types, ThreadTypes
<1>s. Server \in Epts /\ Clients \subseteq Epts
  BY DEF Epts
<1>o. ASSUME NEW e \in Epts, Thread(e) \/ WriteInterrupted(e) \/ ReadGivesUp(e) \/ CallStart(e),
             th'[e].pc \in {"quota", "send"} =>
                 /\ restart'[e] = RESTART_NORMAL
                    \/ (th[e].pc \in {"quota", "send"} /\ UNCHANGED restart[e])
      PROVE  WritersConnected'
  <2>1. \A o \in Epts \ {e} : th'[o] = th[o] /\ restart'[o] = restart[o]
    <3>1. restart' = restart \/ ClearNotify(e)
      BY <1>o, SendCases DEF Thread, Write, WriteInterrupted, Read, ReadGivesUp, CallStart,
         WaitForRestart, TakeQuota, SendsPacket, ReadWait, ReadAgain, ReadTake, ReadRelease
    <3> QED BY <1>o, <3>1, OthersAlone DEF ClearNotify
  <2>2. UNCHANGED link
    BY <1>o, ThreadLink DEF modemVars
  <2> QED BY <1>o, <2>1, <2>2 DEF WritersConnected
<1>i. Idle.pc = "idle"
  BY DEF Idle
<1>1. ASSUME NEW e \in Epts, Write(e) \/ WriteInterrupted(e)
      PROVE  WritersConnected'
  <2>f. WriteFails(e) => th'[e].pc = "idle"
    BY <1>i DEF WriteFails
  <2>1. CASE WaitForRestart(e, "w_restart", "quota")
    <3>1. \/ Goes(e, "quota") /\ restart[e] = RESTART_NORMAL /\ UNCHANGED restart
          \/ WriteFails(e)
          \/ Sleeps(e) /\ th[e].pc = "w_restart"
      BY <2>1 DEF WaitForRestart, NetReset, Runs
    <3>2. Sleeps(e) => th'[e].pc = th[e].pc
      BY DEF Sleeps, ThreadStates
    <3> QED BY <1>1, <2>f, <3>1, <3>2, <1>o DEF Thread
  <2>2. CASE TakeQuota(e)
    <3>1. \/ WriteFails(e)
          \/ th[e].pc = "quota" /\ UNCHANGED restart
      BY <2>2 DEF TakeQuota, NetReset, Runs
    <3> QED BY <1>1, <2>f, <3>1, <1>o DEF Thread
  <2>3. CASE Send(e)
    <3>1. \/ th' = [th EXCEPT ![e] = Idle]
          \/ th' = [th EXCEPT ![e].pc = "r_restart", ![e].confirm = FALSE]
      BY <2>3, SendCases DEF SendsPacket, NetReset, WriteFails
    <3>2. th'[e].pc \in {"idle", "r_restart"}
      BY <1>i, <3>1 DEF ThreadStates
    <3> QED BY <1>1, <3>2, <1>o DEF Thread
  <2>4. CASE WriteInterrupted(e)
    BY <1>1, <2>4, <2>f, <1>o DEF WriteInterrupted
  <2> QED BY <1>1, <2>1, <2>2, <2>3, <2>4 DEF Write
<1>2. ASSUME NEW e \in Epts, Read(e) \/ ReadGivesUp(e)
      PROVE  WritersConnected'
  <2>1. th'[e].pc \notin {"quota", "send"}
    BY <1>2, <1>i DEF Read, ReadGivesUp, WaitForRestart, ReadWait, ReadAgain, ReadTake, ReadRelease,
       NetReset, WriteFails, Goes, Sleeps, Runs, ThreadStates
  <2> QED BY <1>2, <2>1, <1>o DEF Thread
<1>3. ASSUME NEW e \in Clients, CallStart(e)
      PROVE  WritersConnected'
  <2>1. th'[e].pc = "w_restart"
    BY <1>3, <1>s DEF CallStart, Idle
  <2> QED BY <1>3, <1>s, <2>1, <1>o
<1>4. CASE Serve
  <2>1. th'[Server].pc \notin {"quota", "send"}
    BY <1>4, <1>s DEF Serve, ServerReads, ReadTag, ReplyStart, Goes, ThreadStates
  <2>2. \A o \in Epts \ {Server} : th'[o] = th[o]
    BY <1>4, <1>s DEF Serve, ServerReads, ReadTag, ReplyStart, Goes
  <2>3. UNCHANGED <<link, restart>>
    BY <1>4 DEF Serve, ServerReads, ReadTag, ReplyStart, modemVars
  <2> QED BY <2>1, <2>2, <2>3 DEF WritersConnected
<1>5. CASE Work \/ Cleanup
  <2>1. link' = "up" => link = "up"
    BY <1>5 DEF Work, WorkRead, WorkHello, WorkResume, WorkNewServer, WorkData, Cleanup,
       CleanupLocal, CleanupRemote, RemoveXprt
  <2>2. link' = "up" => \A o \in Epts : restart'[o] \subseteq restart[o]
    BY <1>5, <1>s DEF Work, WorkRead, WorkHello, WorkResume, WorkNewServer, WorkData, Cleanup,
       CleanupLocal, CleanupRemote, RemoveXprt, handle_server_restart
  <2> QED BY <1>5, <2>1, <2>2, WorkThreads DEF WritersConnected, RESTART_NORMAL
<1>6. CASE ModemRuns \/ ModemCalls \/ ModemResets
  BY <1>6 DEF ModemRuns, ModemTakes, ModemAnswers, ModemCalls, ModemResets, ModemUnchanged,
     WritersConnected
<1>7. CASE ModemStarts
  BY <1>7 DEF ModemStarts, ModemUnchanged, WritersConnected
<1>8. CASE UNCHANGED vars
  BY <1>8 DEF vars, WritersConnected
<1> QED BY <1>1, <1>2, <1>3, <1>4, <1>5, <1>6, <1>7, <1>8 DEF Next, Thread

\* A message of the set A is in the FIFO s.
Some(s, A) == \E i \in DOMAIN s : s[i] \in A

\* It stays there when others are appended, and leaves at the head only.
LEMMA SomeInFifo ==
    ASSUME NEW s \in Seq(Msgs), NEW A
    PROVE  /\ \A x : Some(s, A) \/ x \in A => Some(Append(s, x), A)
           /\ \A t \in Seq(Msgs) : Some(s, A) => Some(s \o t, A)
           /\ s # <<>> /\ Some(s, A) => Head(s) \in A \/ Some(Tail(s), A)
<1>1. ASSUME NEW x, Some(s, A) \/ x \in A
      PROVE  Some(Append(s, x), A)
  <2>1. CASE x \in A
    <3>1. /\ Len(s) + 1 \in DOMAIN Append(s, x) /\ Append(s, x)[Len(s) + 1] = x
      OBVIOUS
    <3> QED BY <2>1, <3>1 DEF Some
  <2>2. CASE Some(s, A)
    <3>1. PICK i \in DOMAIN s : s[i] \in A
      BY <2>2 DEF Some
    <3>2. i \in DOMAIN Append(s, x) /\ Append(s, x)[i] = s[i]
      OBVIOUS
    <3> QED BY <3>1, <3>2 DEF Some
  <2> QED BY <1>1, <2>1, <2>2
<1>2. ASSUME NEW t \in Seq(Msgs), Some(s, A)
      PROVE  Some(s \o t, A)
  <2>1. PICK i \in DOMAIN s : s[i] \in A
    BY <1>2 DEF Some
  <2>2. i \in DOMAIN (s \o t) /\ (s \o t)[i] = s[i]
    OBVIOUS
  <2> QED BY <2>1, <2>2 DEF Some
<1>3. ASSUME s # <<>>, Some(s, A), Head(s) \notin A
      PROVE  Some(Tail(s), A)
  <2>1. PICK i \in DOMAIN s : s[i] \in A
    BY <1>3 DEF Some
  <2>2. i # 1
    BY <1>3, <2>1
  <2>3. i - 1 \in DOMAIN Tail(s) /\ Tail(s)[i - 1] = s[i]
    BY <1>3, <2>2
  <2> QED BY <2>1, <2>3 DEF Some
<1> QED BY <1>1, <1>2, <1>3

\* The packets that ask for a confirmation
Asking == {m \in Msgs : m.cmd = "DATA" /\ m.confirm}

ThreadAsks == \E e \in Epts : th[e].pc = "send" /\ th[e].confirm

\* ConfirmOnItsWay in these terms
QuotaOut == r.tx_quota_cntr = Quota /\ ~ r.abort /\ link = "up"

OnItsWay ==
    \/ ThreadAsks
    \/ Some(outq, Asking)
    \/ Some(inq, {RESUME_TX})
    \/ work = RESUME_TX

\* The two forms are the same.
LEMMA ConfirmForms == Types => (ConfirmOnItsWay <=> (QuotaOut => OnItsWay))
<1> SUFFICES ASSUME Types PROVE ConfirmOnItsWay <=> (QuotaOut => OnItsWay)
  OBVIOUS
<1>1. \A i \in DOMAIN outq : outq[i] \in Msgs
  BY DEF Types, LinkTypes
<1>2. Some(outq, Asking) <=> \E i \in DOMAIN outq : outq[i].cmd = "DATA" /\ outq[i].confirm
  BY <1>1 DEF Some, Asking
<1>3. Some(inq, {RESUME_TX}) <=> \E i \in DOMAIN inq : inq[i] = RESUME_TX
  BY DEF Some
<1> QED BY <1>2, <1>3 DEF ConfirmOnItsWay, QuotaOut, OnItsWay, ThreadAsks

\* Every step keeps the confirmation on its way, or gives the quota back.
LEMMA ConfirmNext ==
    ASSUME Calm, Types, CallIds, DownQuiet, AbortedUntilBack, WritersConnected,
           QuotaOut => OnItsWay, [Next]_vars
    PROVE  QuotaOut' => OnItsWay'
<1> SUFFICES ASSUME QuotaOut' PROVE OnItsWay'
  OBVIOUS
<1> USE DEF Types, ThreadTypes
<1>s. Server \in Epts /\ Clients \subseteq Epts
  BY DEF Epts
<1>t. inq \in Seq(Msgs) /\ outq \in Seq(Msgs)
  BY DEF LinkTypes
<1>k. r.abort \in BOOLEAN /\ r.tx_quota_cntr \in Nat /\ Quota # 0
      /\ r \in [tx_quota_cntr : Nat, abort : BOOLEAN]
  BY RpcAssumption DEF LinkTypes
<1>l. UNCHANGED modemVars => UNCHANGED <<link, known, inq, work>>
  BY DEF modemVars
\* A step that leaves the quota, the FIFOs and the threads that send alone
<1>a. ASSUME UNCHANGED <<r, link, inq, outq, work>>, ThreadAsks => ThreadAsks'
      PROVE  OnItsWay'
  BY <1>a DEF QuotaOut, OnItsWay
<1>b. ASSUME NEW e \in Epts, \A o \in Epts \ {e} : th'[o] = th[o], th[e].pc # "send"
      PROVE  ThreadAsks => ThreadAsks'
  BY <1>b DEF ThreadAsks
<1>1. ASSUME NEW e \in Epts, TakeQuota(e)
      PROVE  OnItsWay'
  <2>1. th[e].pc = "quota" /\ UNCHANGED <<link, inq, work, outq>>
    BY <1>1, <1>l DEF TakeQuota, Runs
  <2>2. \A o \in Epts \ {e} : th'[o] = th[o]
    BY <1>1, OthersAlone DEF Thread, Write
  <2>3. CASE UNCHANGED r
    BY <2>1, <2>2, <2>3, <1>a, <1>b
  <2>4. CASE th' = [th EXCEPT ![e].pc = "send", ![e].confirm = (r'.tx_quota_cntr = Quota)]
    <3> DEFINE b == r'.tx_quota_cntr = Quota
    <3>1. b
      BY DEF QuotaOut
    <3>2. th' = [th EXCEPT ![e].pc = "send", ![e].confirm = b]
      BY <2>4
    <3> HIDE DEF b
    <3>3. th'[e].pc = "send" /\ th'[e].confirm = b
      BY <3>2 DEF ThreadStates
    <3> QED BY <3>1, <3>3 DEF OnItsWay, ThreadAsks
  <2> QED BY <1>1, <2>3, <2>4 DEF TakeQuota
<1>2. ASSUME NEW e \in Epts, Send(e)
      PROVE  OnItsWay'
  <2>1. UNCHANGED <<r, link, known, inq, work>> /\ th[e].pc = "send"
    BY <1>2, <1>l DEF Send, Runs
  <2>2. known /\ restart[e] = RESTART_NORMAL
    BY <2>1 DEF AbortedUntilBack, WritersConnected, QuotaOut
  <2>3. outq' = Append(outq, Data(e, IF e = Server THEN "reply" ELSE "call",
                                  th[e].xid, th[e].confirm))
    BY <1>2, <2>1, <2>2 DEF Send, QuotaOut
  <2>4. Data(e, IF e = Server THEN "reply" ELSE "call", th[e].xid, th[e].confirm) \in Msgs
    <3>1. th[e].xid \in Xids /\ th[e].confirm \in BOOLEAN
      BY <2>1 DEF CallIds, ThreadStates
    <3> QED BY <3>1 DEF Data, Msgs, Packets
  <2>5. CASE th[e].confirm
    <3>1. Data(e, IF e = Server THEN "reply" ELSE "call", th[e].xid, th[e].confirm) \in Asking
      BY <2>4, <2>5 DEF Asking, Data
    <3>2. Some(outq', Asking)
      BY <1>t, <2>3, <3>1, SomeInFifo
    <3> QED BY <3>2 DEF OnItsWay
  <2>6. CASE ~ th[e].confirm
    <3>1. \A o \in Epts \ {e} : th'[o] = th[o]
      BY <1>2, OthersAlone DEF Thread, Write
    <3>2. ThreadAsks => ThreadAsks'
      BY <2>6, <3>1 DEF ThreadAsks
    <3>3. Some(outq, Asking) => Some(outq', Asking)
      BY <1>t, <2>3, SomeInFifo
    <3> QED BY <2>1, <3>2, <3>3 DEF OnItsWay, QuotaOut
  <2> QED BY <2>5, <2>6
<1>3. ASSUME NEW e \in Epts,
             \/ WaitForRestart(e, "w_restart", "quota") \/ WriteInterrupted(e)
             \/ Read(e) \/ ReadGivesUp(e) \/ CallStart(e)
      PROVE  OnItsWay'
  <2>1. \A o \in Epts \ {e} : th'[o] = th[o]
    BY <1>3, OthersAlone DEF Thread, Write
  <2>2. th[e].pc # "send"
    <3>1. Idle.pc = "idle"
      BY DEF Idle
    <3> QED BY <1>3, <3>1 DEF WaitForRestart, WriteInterrupted, Read, ReadGivesUp, CallStart,
       ReadWait, ReadAgain, ReadTake, ReadRelease, Runs
  <2>3. UNCHANGED <<r, link, inq, outq, work>>
    BY <1>3, <1>l DEF WaitForRestart, WriteInterrupted, Read, ReadGivesUp, CallStart, ReadWait,
       ReadAgain, ReadTake, ReadRelease
  <2> QED BY <1>a, <1>b, <2>1, <2>2, <2>3
<1>4. CASE Serve
  <2>1. th[Server].pc # "send" /\ \A o \in Epts \ {Server} : th'[o] = th[o]
    BY <1>4, <1>s DEF Serve, ServerReads, ReadTag, ReplyStart, Goes, Runs, Idle
  <2>2. UNCHANGED <<r, link, inq, outq, work>>
    BY <1>4, <1>l DEF Serve, ServerReads, ReadTag, ReplyStart
  <2> QED BY <1>a, <1>b, <1>s, <2>1, <2>2
<1>5. CASE Work
  <2>1. ThreadAsks => ThreadAsks'
    BY <1>5, WorkThreads DEF ThreadAsks
  <2>2. CASE WorkRead
    <3>1. Some(inq, {RESUME_TX}) => work' = RESUME_TX \/ Some(inq', {RESUME_TX})
      BY <1>t, <2>2, SomeInFifo DEF WorkRead
    <3>2. work # RESUME_TX
      BY <2>2 DEF WorkRead, Nothing, RESUME_TX
    <3> QED BY <2>1, <2>2, <3>1, <3>2 DEF WorkRead, OnItsWay, QuotaOut
  <2>3. CASE WorkHello
    <3>1. <<HELLO, NEW_SERVER>> \in Seq(Msgs)
      BY DEF Msgs
    <3>2. Some(outq, Asking) => Some(outq', Asking)
      BY <1>t, <2>3, <3>1, SomeInFifo DEF WorkHello
    <3>3. work # RESUME_TX
      BY <2>3 DEF WorkHello, HELLO, RESUME_TX
    <3> QED BY <2>1, <2>3, <3>2, <3>3 DEF WorkHello, OnItsWay, QuotaOut
  <2>4. CASE WorkResume
    BY <1>k, <2>4 DEF WorkResume, QuotaOut
  <2>5. CASE WorkNewServer
    <3>1. r' = r
      BY <1>k, <2>5 DEF WorkNewServer, handle_server_restart, QuotaOut
    <3>2. work # RESUME_TX
      BY <2>5 DEF WorkNewServer, NEW_SERVER, RESUME_TX
    <3> QED BY <2>1, <2>5, <3>1, <3>2 DEF WorkNewServer, OnItsWay, QuotaOut
  <2>6. CASE WorkData
    <3>1. Some(outq, Asking) => Some(outq', Asking)
      BY <1>t, <2>6, SomeInFifo DEF WorkData
    <3>2. work # RESUME_TX
      BY <2>6 DEF WorkData, RESUME_TX
    <3> QED BY <2>1, <2>6, <3>1, <3>2 DEF WorkData, OnItsWay, QuotaOut
  <2> QED BY <1>5, <2>2, <2>3, <2>4, <2>5, <2>6 DEF Work
<1>6. CASE Cleanup
  BY <1>6 DEF Cleanup, CleanupLocal, CleanupRemote, RemoveXprt, QuotaOut
<1>7. CASE ModemTakes
  <2>1. UNCHANGED <<r, link, work, th>> /\ outq # <<>> /\ outq' = Tail(outq)
    BY <1>7 DEF ModemTakes, ModemUnchanged
  <2>2. Some(inq, {RESUME_TX}) => Some(inq', {RESUME_TX})
    BY <1>t, <1>7, SomeInFifo DEF ModemTakes
  <2>3. Head(outq) \in Asking => Some(inq', {RESUME_TX})
    <3>1. Head(outq) \in Asking => inq' = Append(inq, RESUME_TX)
      BY <1>7 DEF ModemTakes, Asking
    <3>2. Some(Append(inq, RESUME_TX), {RESUME_TX})
      <4>1. RESUME_TX \in {RESUME_TX}
        OBVIOUS
      <4> QED BY <1>t, <4>1, SomeInFifo
    <3> QED BY <3>1, <3>2
  <2>4. Some(outq, Asking) => Head(outq) \in Asking \/ Some(outq', Asking)
    BY <1>t, <2>1, SomeInFifo
  <2> QED BY <2>1, <2>2, <2>3, <2>4 DEF OnItsWay, QuotaOut, ThreadAsks
<1>8. CASE ModemAnswers \/ ModemCalls
  <2>1. UNCHANGED <<r, link, work, th, outq>>
    BY <1>8 DEF ModemAnswers, ModemCalls, ModemUnchanged
  <2>2. PICK d : inq' = Append(inq, d)
    BY <1>8 DEF ModemAnswers, ModemCalls
  <2>3. Some(inq, {RESUME_TX}) => Some(inq', {RESUME_TX})
    BY <1>t, <2>2, SomeInFifo
  <2> QED BY <2>1, <2>3 DEF OnItsWay, QuotaOut, ThreadAsks
<1>9. CASE ModemResets
  BY <1>9 DEF ModemResets, QuotaOut
<1>10. CASE ModemStarts
  BY <1>10 DEF ModemStarts, ModemUnchanged, QuotaOut, AbortedUntilBack
<1>11. CASE UNCHANGED vars
  BY <1>11, <1>a DEF vars, ThreadAsks
<1> QED BY <1>1, <1>2, <1>3, <1>4, <1>5, <1>6, <1>7, <1>8, <1>9, <1>10, <1>11, <1>s
    DEF Next, Thread, Write, ModemRuns

\* The invariant of calm restarts, on top of RInv
CalmInv == /\ DownQuiet /\ AbortedUntilBack /\ WritersConnected
           /\ (QuotaOut => OnItsWay)

\* It holds initially.
LEMMA InitCalm == Init => CalmInv
<1> SUFFICES ASSUME Init PROVE CalmInv
  OBVIOUS
<1>1. link = "up" /\ known = TRUE /\ r.tx_quota_cntr = 0 /\ Quota # 0
  BY RpcAssumption DEF Init
<1>2. \A e \in Epts : restart[e] = RESTART_NORMAL
  BY DEF Init
<1> QED BY <1>1, <1>2 DEF CalmInv, DownQuiet, AbortedUntilBack, WritersConnected, QuotaOut

\* Every step keeps it.
LEMMA NextCalm == Calm /\ RInv /\ CalmInv /\ [Next]_vars => CalmInv'
BY LinkNext, WritersNext, ConfirmNext DEF RInv, CalmInv

(***************************************************************************)
(* Flow control cannot stop for good: for any quota and any number of      *)
(* threads, when restarts are calm.  (Otherwise a NEW_SERVER that is       *)
(* handled after the next reset's cleanup has begun ends the abort, and a  *)
(* thread takes the last of the quota for a packet that is lost.)          *)
(***************************************************************************)
THEOREM RouterConfirm == Calm => (Spec => []ConfirmOnItsWay)
<1> SUFFICES ASSUME Calm PROVE Spec => []ConfirmOnItsWay
  OBVIOUS
<1>1. Init => CalmInv
  BY InitCalm
<1>2. RInv /\ CalmInv /\ [Next]_vars => CalmInv'
  BY NextCalm
<1>3. RInv /\ CalmInv => ConfirmOnItsWay
  BY ConfirmForms DEF RInv, CalmInv
<1> QED BY <1>1, <1>2, <1>3, RouterInv, PTL DEF Spec

-----------------------------------------------------------------------------
(***************************************************************************)
(* Flow control.  A packet that the modem takes before it has to confirm   *)
(* is early, one behind a packet that asks for a confirmation is late.     *)
(***************************************************************************)
Plain == {m \in Msgs : m.cmd = "DATA" /\ ~ m.confirm}

Early(s) == {i \in DOMAIN s : s[i] \in Plain /\ \A j \in 1..(i - 1) : s[j] \notin Asking}
Late(s)  == {i \in DOMAIN s : s[i] \in Plain /\ \E j \in 1..(i - 1) : s[j] \in Asking}
Places(s, A) == {i \in DOMAIN s : s[i] \in A}

\* Threads that have taken quota, without and with the duty to ask
Senders == {e \in Epts : th[e].pc = "send" /\ ~ th[e].confirm}
Askers  == {e \in Epts : th[e].pc = "send" /\ th[e].confirm}

Threads == Cardinality(Epts)

\* The RESUME_TXs that were not handled
Resumes == Cardinality(Places(inq, {RESUME_TX})) + (IF work = RESUME_TX THEN 1 ELSE 0)

(***************************************************************************)
(* With c packets of the quota taken, a threads and q queued packets that  *)
(* ask for a confirmation, j RESUME_TXs, e packets that the modem has, or  *)
(* will have, before it must confirm, l late ones, and s threads about to  *)
(* send others: at most one confirmation is under way, and only when the   *)
(* quota is used up; until it comes back, the packets behind it are those  *)
(* of threads that had their quota before, one each.                       *)
(***************************************************************************)
Flow(c, a, q, j, e, l, s) ==
    /\ c <= Quota /\ a + q + j <= 1 /\ (a + q + j = 0 <=> c < Quota)
    /\ q = 1 => e <= Quota + Threads - 2 /\ l + s <= Threads - 1
    /\ q = 0 => l = 0
    /\ a = 1 => e + s <= Quota + Threads - 2
    /\ j = 1 => e + s <= Threads - 1
    /\ a + q + j = 0 => e + s <= c + Threads - 1

FlowState(c) ==
    Flow(c, Cardinality(Askers), Cardinality(Places(outq, Asking)), Resumes,
         modem.rcv + Cardinality(Early(outq)), Cardinality(Late(outq)),
         Cardinality(Senders))

\* The quota that is taken: none until NEW_SERVER has ended the abort
Counter == IF r.abort THEN 0 ELSE r.tx_quota_cntr

\* After a reset the FIFOs are empty.
FlowInv ==
    /\ link # "up" => outq = <<>> /\ modem.rcv = 0
    /\ link = "up" => FlowState(Counter)

\* As many numbers, when each is one less
LEMMA ShiftDown ==
    ASSUME NEW S \in SUBSET Int, NEW T \in SUBSET Int, IsFiniteSet(S),
           \A i \in Int : i \in T <=> i + 1 \in S
    PROVE  IsFiniteSet(T) /\ Cardinality(T) = Cardinality(S)
<1> DEFINE f == [x \in S |-> x - 1]
<1>1. f \in [S -> T]
  <2>1. ASSUME NEW x \in S PROVE x - 1 \in T
    <3>1. x - 1 \in Int /\ (x - 1) + 1 = x
      OBVIOUS
    <3> QED BY <3>1
  <2> QED BY <2>1
<1>2. \A x, y \in S : f[x] = f[y] => x = y
  OBVIOUS
<1>3. \A t \in T : \E x \in S : f[x] = t
  <2>1. ASSUME NEW t \in T PROVE \E x \in S : f[x] = t
    <3>1. t \in Int /\ t + 1 \in S /\ (t + 1) - 1 = t
      OBVIOUS
    <3>2. f[t + 1] = t
      BY <3>1
    <3> QED BY <3>1, <3>2
  <2> QED BY <2>1
<1> HIDE DEF f
<1>4. f \in Bijection(S, T)
  BY <1>1, <1>2, <1>3 DEF Bijection, Injection, Surjection, IsInjective
<1>5. ExistsBijection(S, T)
  BY <1>4 DEF ExistsBijection
<1> QED BY <1>5, FS_Bijection

\* The places of a FIFO are finitely many.
LEMMA PlacesFinite ==
    ASSUME NEW s \in Seq(Msgs), NEW S \in SUBSET (DOMAIN s)
    PROVE  S \in SUBSET Int /\ IsFiniteSet(S) /\ Cardinality(S) \in Nat
<1>1. DOMAIN s = 1..Len(s) /\ Len(s) \in Nat
  OBVIOUS
<1>2. IsFiniteSet(1..Len(s))
  BY <1>1, FS_Interval
<1>3. IsFiniteSet(S)
  BY <1>1, <1>2, FS_Subset
<1> QED BY <1>1, <1>3, FS_CardinalityType

\* What it means for a place to be one of a kind
LEMMA PlaceKinds ==
    ASSUME NEW s \in Seq(Msgs), NEW A
    PROVE  /\ Places(s, A) \in SUBSET (DOMAIN s) /\ Early(s) \in SUBSET (DOMAIN s)
           /\ Late(s) \in SUBSET (DOMAIN s)
           /\ \A i \in Int :
                /\ i \in Places(s, A) <=> i \in 1..Len(s) /\ s[i] \in A
                /\ i \in Early(s) <=> /\ i \in 1..Len(s) /\ s[i] \in Plain
                                      /\ \A j \in 1..(i - 1) : s[j] \notin Asking
                /\ i \in Late(s) <=> /\ i \in 1..Len(s) /\ s[i] \in Plain
                                     /\ \E j \in 1..(i - 1) : s[j] \in Asking
BY DEF Places, Early, Late

\* A packet is put in.
LEMMA FifoAppend ==
    ASSUME NEW s \in Seq(Msgs), NEW x \in Msgs, NEW A
    PROVE  /\ x \notin A => Places(Append(s, x), A) = Places(s, A)
           /\ x \in A => Cardinality(Places(Append(s, x), A)) = Cardinality(Places(s, A)) + 1
           /\ x \notin Plain => Early(Append(s, x)) = Early(s) /\ Late(Append(s, x)) = Late(s)
           /\ x \in Plain /\ Places(s, Asking) = {} =>
                /\ Cardinality(Early(Append(s, x))) = Cardinality(Early(s)) + 1
                /\ Late(Append(s, x)) = Late(s)
           /\ x \in Plain /\ Places(s, Asking) # {} =>
                /\ Early(Append(s, x)) = Early(s)
                /\ Cardinality(Late(Append(s, x))) = Cardinality(Late(s)) + 1
<1> DEFINE u == Append(s, x)
           n == Len(s) + 1
<1>1. /\ u \in Seq(Msgs) /\ Len(u) = n /\ Len(s) \in Nat /\ u[n] = x
      /\ DOMAIN s = 1..Len(s) /\ DOMAIN u = 1..n
      /\ \A i \in 1..Len(s) : u[i] = s[i]
  OBVIOUS
<1>2. n \notin DOMAIN s
  BY <1>1
<1> HIDE DEF u
<1>3. ASSUME NEW S \in SUBSET (DOMAIN s)
      PROVE  Cardinality(S \cup {n}) = Cardinality(S) + 1
  <2>1. IsFiniteSet(S) /\ n \notin S
    BY <1>2, PlacesFinite
  <2> HIDE DEF n
  <2> QED BY <2>1, FS_AddElement
<1>4. \A i \in DOMAIN s : /\ i \in DOMAIN u /\ u[i] = s[i]
                          /\ \A j \in 1..(i - 1) : u[j] = s[j]
  BY <1>1
<1>5. \A i \in DOMAIN u : i \in DOMAIN s \/ i = n
  BY <1>1
<1>6. n \in DOMAIN u /\ \A j : j \in 1..(n - 1) <=> j \in DOMAIN s
  BY <1>1
<1> HIDE DEF n
<1>7. Places(u, A) = IF x \in A THEN Places(s, A) \cup {n} ELSE Places(s, A)
  BY <1>1, <1>2, <1>4, <1>5, <1>6 DEF Places
<1>8. /\ x \notin Plain => Early(u) = Early(s) /\ Late(u) = Late(s)
  BY <1>1, <1>2, <1>4, <1>5, <1>6 DEF Early, Late
<1>9. x \in Plain /\ Places(s, Asking) = {} => Early(u) = Early(s) \cup {n} /\ Late(u) = Late(s)
  <2> SUFFICES ASSUME x \in Plain, Places(s, Asking) = {}
               PROVE  Early(u) = Early(s) \cup {n} /\ Late(u) = Late(s)
    OBVIOUS
  <2>1. \A j \in DOMAIN s : s[j] \notin Asking
    BY DEF Places
  <2>2. \A j \in DOMAIN s : u[j] \notin Asking
    BY <1>4, <2>1
  <2>3. \A j \in 1..(n - 1) : u[j] \notin Asking
    BY <1>6, <2>2
  <2>4. Early(u) = Early(s) \cup {n}
    BY <1>1, <1>2, <1>4, <1>5, <1>6, <2>3 DEF Early
  <2>5. Late(u) = Late(s)
    BY <1>1, <1>2, <1>4, <1>5, <1>6, <2>3 DEF Late
  <2> QED BY <2>4, <2>5
<1>10. x \in Plain /\ Places(s, Asking) # {} => Early(u) = Early(s) /\ Late(u) = Late(s) \cup {n}
  <2> SUFFICES ASSUME x \in Plain, Places(s, Asking) # {}
               PROVE  Early(u) = Early(s) /\ Late(u) = Late(s) \cup {n}
    OBVIOUS
  <2>1. PICK j \in DOMAIN s : s[j] \in Asking
    BY DEF Places
  <2>2. j \in 1..(n - 1) /\ u[j] \in Asking
    BY <1>4, <1>6, <2>1
  <2>4. Early(u) = Early(s)
    BY <1>1, <1>2, <1>4, <1>5, <1>6, <2>2 DEF Early
  <2>5. Late(u) = Late(s) \cup {n}
    BY <1>1, <1>2, <1>4, <1>5, <1>6, <2>2 DEF Late
  <2> QED BY <2>4, <2>5
<1>11. /\ Places(s, A) \in SUBSET (DOMAIN s) /\ Early(s) \in SUBSET (DOMAIN s)
       /\ Late(s) \in SUBSET (DOMAIN s)
  BY PlaceKinds
<1> QED BY <1>3, <1>7, <1>8, <1>9, <1>10, <1>11 DEF u

\* The modem takes the first packet.  A packet that asks makes late ones early.
LEMMA FifoTail ==
    ASSUME NEW s \in Seq(Msgs), s # <<>>, NEW A
    PROVE  /\ Head(s) \notin A => Cardinality(Places(Tail(s), A)) = Cardinality(Places(s, A))
           /\ Head(s) \in A => Cardinality(Places(Tail(s), A)) = Cardinality(Places(s, A)) - 1
           /\ Head(s) \notin Asking =>
                /\ Cardinality(Late(Tail(s))) = Cardinality(Late(s))
                /\ Head(s) \in Plain => Cardinality(Early(Tail(s))) = Cardinality(Early(s)) - 1
                /\ Head(s) \notin Plain => Cardinality(Early(Tail(s))) = Cardinality(Early(s))
           /\ Head(s) \in Asking /\ Places(Tail(s), Asking) = {} =>
                /\ Cardinality(Early(Tail(s))) = Cardinality(Late(s))
                /\ Cardinality(Late(Tail(s))) = 0
<1> DEFINE u == Tail(s)
           x == Head(s)
<1>1. /\ u \in Seq(Msgs) /\ Len(s) \in Nat /\ Len(u) = Len(s) - 1 /\ 1 <= Len(s) /\ s[1] = x
      /\ DOMAIN s = 1..Len(s) /\ DOMAIN u = 1..Len(u)
      /\ \A i \in 1..(Len(s) - 1) : u[i] = s[i + 1]
  OBVIOUS
<1> HIDE DEF u, x
<1>2. \A i \in Int : i \in 1..Len(u) <=> i + 1 \in 1..Len(s) /\ i + 1 # 1
  BY <1>1
<1>3. \A i \in 1..Len(u) : u[i] = s[i + 1]
  BY <1>1
<1>4. ASSUME NEW i \in 1..Len(u)
      PROVE  /\ \A j \in 1..(i - 1) : j + 1 \in 1..((i + 1) - 1) /\ u[j] = s[j + 1]
             /\ \A j \in 1..((i + 1) - 1) : j = 1 \/ (j - 1 \in 1..(i - 1) /\ s[j] = u[j - 1])
             /\ 1 \in 1..((i + 1) - 1)
  BY <1>1
<1>5. ASSUME NEW S \in SUBSET (DOMAIN s), NEW T \in SUBSET (DOMAIN u),
             \A i \in Int : i \in T <=> i + 1 \in S /\ i + 1 # 1
      PROVE  Cardinality(T) = IF 1 \in S THEN Cardinality(S) - 1 ELSE Cardinality(S)
  <2> DEFINE R == S \ {1}
  <2>1. IsFiniteSet(S) /\ S \in SUBSET Int /\ T \in SUBSET Int
    BY <1>1, PlacesFinite
  <2>2. IsFiniteSet(R) /\ R \in SUBSET Int /\ \A i \in Int : i \in T <=> i + 1 \in R
    BY <1>5, <2>1, FS_RemoveElement
  <2>3. Cardinality(R) = IF 1 \in S THEN Cardinality(S) - 1 ELSE Cardinality(S)
    BY <2>1, FS_RemoveElement
  <2> HIDE DEF R
  <2>4. Cardinality(T) = Cardinality(R)
    BY <2>1, <2>2, ShiftDown
  <2> QED BY <2>3, <2>4
<1>6. /\ Places(s, A) \in SUBSET (DOMAIN s) /\ Places(u, A) \in SUBSET (DOMAIN u)
      /\ Early(s) \in SUBSET (DOMAIN s) /\ Early(u) \in SUBSET (DOMAIN u)
      /\ Late(s) \in SUBSET (DOMAIN s) /\ Late(u) \in SUBSET (DOMAIN u)
  BY <1>1, PlaceKinds
<1>7. /\ x \notin A => Cardinality(Places(u, A)) = Cardinality(Places(s, A))
      /\ x \in A => Cardinality(Places(u, A)) = Cardinality(Places(s, A)) - 1
  <2>1. \A i \in Int : i \in Places(u, A) <=> i + 1 \in Places(s, A) /\ i + 1 # 1
    <3> SUFFICES ASSUME NEW i \in Int
                 PROVE  i \in Places(u, A) <=> i + 1 \in Places(s, A) /\ i + 1 # 1
      OBVIOUS
    <3>1. i \in Places(u, A) <=> i \in 1..Len(u) /\ u[i] \in A
      BY <1>1, PlaceKinds
    <3>2. i + 1 \in Places(s, A) <=> i + 1 \in 1..Len(s) /\ s[i + 1] \in A
      BY PlaceKinds
    <3> QED BY <1>2, <1>3, <3>1, <3>2
  <2>2. 1 \in Places(s, A) <=> x \in A
    BY <1>1 DEF Places
  <2> QED BY <1>5, <1>6, <2>1, <2>2
<1>8. ASSUME x \notin Asking
      PROVE  /\ Cardinality(Late(u)) = Cardinality(Late(s))
             /\ x \in Plain => Cardinality(Early(u)) = Cardinality(Early(s)) - 1
             /\ x \notin Plain => Cardinality(Early(u)) = Cardinality(Early(s))
  <2>1. ASSUME NEW i \in 1..Len(u)
        PROVE  (\E j \in 1..(i - 1) : u[j] \in Asking) <=> (\E j \in 1..((i + 1) - 1) : s[j] \in Asking)
    <3>1. ASSUME NEW j \in 1..(i - 1), u[j] \in Asking
          PROVE  \E k \in 1..((i + 1) - 1) : s[k] \in Asking
      BY <1>4, <3>1
    <3>2. ASSUME NEW j \in 1..((i + 1) - 1), s[j] \in Asking
          PROVE  \E k \in 1..(i - 1) : u[k] \in Asking
      <4>1. j # 1
        BY <1>1, <1>8, <3>2
      <4> QED BY <1>4, <3>2, <4>1
    <3> QED BY <3>1, <3>2
  <2>2. \A i \in Int : /\ i \in Early(u) <=> i + 1 \in Early(s) /\ i + 1 # 1
                       /\ i \in Late(u) <=> i + 1 \in Late(s) /\ i + 1 # 1
    <3> SUFFICES ASSUME NEW i \in Int
                 PROVE  /\ i \in Early(u) <=> i + 1 \in Early(s) /\ i + 1 # 1
                        /\ i \in Late(u) <=> i + 1 \in Late(s) /\ i + 1 # 1
      OBVIOUS
    <3>1. /\ i \in Early(u) <=> /\ i \in 1..Len(u) /\ u[i] \in Plain
                                /\ ~ \E j \in 1..(i - 1) : u[j] \in Asking
          /\ i \in Late(u) <=> /\ i \in 1..Len(u) /\ u[i] \in Plain
                               /\ \E j \in 1..(i - 1) : u[j] \in Asking
      BY <1>1, PlaceKinds
    <3>2. i + 1 \in Int
      OBVIOUS
    <3>3. /\ i + 1 \in Early(s) <=> /\ i + 1 \in 1..Len(s) /\ s[i + 1] \in Plain
                                    /\ ~ \E j \in 1..((i + 1) - 1) : s[j] \in Asking
          /\ i + 1 \in Late(s) <=> /\ i + 1 \in 1..Len(s) /\ s[i + 1] \in Plain
                                   /\ \E j \in 1..((i + 1) - 1) : s[j] \in Asking
      BY <3>2, PlaceKinds
    <3> QED BY <1>2, <1>3, <2>1, <3>1, <3>3
  <2>3. 1 \notin Late(s) /\ (1 \in Early(s) <=> x \in Plain)
    BY <1>1 DEF Late, Early
  <2> QED BY <1>5, <1>6, <2>2, <2>3
<1>9. ASSUME x \in Asking, Places(u, Asking) = {}
      PROVE  Cardinality(Early(u)) = Cardinality(Late(s)) /\ Cardinality(Late(u)) = 0
  <2>1. \A i \in DOMAIN u : u[i] \notin Asking
    BY <1>9 DEF Places
  <2>2. ASSUME NEW i \in 1..Len(u)
        PROVE  /\ \A j \in 1..(i - 1) : u[j] \notin Asking
               /\ \E j \in 1..((i + 1) - 1) : s[j] \in Asking
    <3>1. \A j \in 1..(i - 1) : j \in DOMAIN u
      BY <1>1
    <3> QED BY <1>1, <1>4, <1>9, <2>1, <3>1
  <2>3. \A i \in Int : i \in Early(u) <=> i + 1 \in Late(s) /\ i + 1 # 1
    <3> SUFFICES ASSUME NEW i \in Int
                 PROVE  i \in Early(u) <=> i + 1 \in Late(s) /\ i + 1 # 1
      OBVIOUS
    <3>1. i \in Early(u) <=> /\ i \in 1..Len(u) /\ u[i] \in Plain
                             /\ \A j \in 1..(i - 1) : u[j] \notin Asking
      BY <1>1, PlaceKinds
    <3>2. i + 1 \in Int
      OBVIOUS
    <3>3. i + 1 \in Late(s) <=> /\ i + 1 \in 1..Len(s) /\ s[i + 1] \in Plain
                                /\ \E j \in 1..((i + 1) - 1) : s[j] \in Asking
      BY <3>2, PlaceKinds
    <3> QED BY <1>2, <1>3, <2>2, <3>1, <3>3
  <2>4. 1 \notin Late(s)
    BY DEF Late
  <2>5. Late(u) = {}
    <3>1. \A i \in DOMAIN u : ~ \E j \in 1..(i - 1) : u[j] \in Asking
      BY <1>1, <2>2
    <3> QED BY <3>1 DEF Late
  <2> QED BY <1>5, <1>6, <2>3, <2>4, <2>5, FS_EmptySet
<1> QED BY <1>7, <1>8, <1>9 DEF u, x

\* The threads that send are finitely many; one that asks is none of the others.
LEMMA SenderCounts ==
    /\ IsFiniteSet(Epts) /\ Threads \in Nat \ {0}
    /\ IsFiniteSet(Senders) /\ Cardinality(Senders) \in Nat
    /\ IsFiniteSet(Askers) /\ Cardinality(Askers) \in Nat
    /\ Askers # {} => Cardinality(Senders) <= Threads - 1
<1>1. IsFiniteSet(Epts) /\ Threads \in Nat
  BY RpcAssumption, FS_AddElement, FS_CardinalityType DEF Epts, Threads
<1>2. Epts # {}
  BY DEF Epts
<1>3. Threads # 0
  BY <1>1, <1>2, FS_EmptySet DEF Threads
<1>4. Senders \in SUBSET Epts /\ Askers \in SUBSET Epts /\ Senders \cap Askers = {}
  BY DEF Senders, Askers
<1>5. IsFiniteSet(Senders) /\ IsFiniteSet(Askers)
  BY <1>1, <1>4, FS_Subset
<1>6. Cardinality(Senders) \in Nat /\ Cardinality(Askers) \in Nat
  BY <1>5, FS_CardinalityType
<1>7. ASSUME Askers # {} PROVE Cardinality(Senders) <= Threads - 1
  <2>1. PICK e \in Epts : e \in Askers
    BY <1>4, <1>7
  <2>2. Senders \in SUBSET (Epts \ {e})
    BY <1>4, <2>1
  <2>3. IsFiniteSet(Epts \ {e}) /\ Cardinality(Epts \ {e}) = Threads - 1
    BY <1>1, FS_RemoveElement DEF Threads
  <2>4. Cardinality(Senders) <= Cardinality(Epts \ {e})
    BY <2>2, <2>3, FS_Subset
  <2> QED BY <2>3, <2>4
<1> QED BY <1>1, <1>3, <1>5, <1>6, <1>7

\* The numbers of a state
LEMMA FlowTypes ==
    ASSUME Types
    PROVE  /\ Counter \in Nat /\ Cardinality(Askers) \in Nat /\ Cardinality(Senders) \in Nat
           /\ IsFiniteSet(Places(outq, Asking)) /\ IsFiniteSet(Places(inq, {RESUME_TX}))
           /\ Cardinality(Places(outq, Asking)) \in Nat
           /\ Cardinality(Places(inq, {RESUME_TX})) \in Nat /\ Resumes \in Nat
           /\ Cardinality(Early(outq)) \in Nat /\ Cardinality(Late(outq)) \in Nat
           /\ modem.rcv \in Nat /\ modem.rcv + Cardinality(Early(outq)) \in Nat
           /\ Threads \in Nat \ {0}
<1>1. /\ inq \in Seq(Msgs) /\ outq \in Seq(Msgs) /\ r.tx_quota_cntr \in Nat
      /\ modem.rcv \in Nat
  BY DEF Types, LinkTypes
<1>2. /\ Places(outq, Asking) \in SUBSET (DOMAIN outq) /\ Early(outq) \in SUBSET (DOMAIN outq)
      /\ Late(outq) \in SUBSET (DOMAIN outq)
      /\ Places(inq, {RESUME_TX}) \in SUBSET (DOMAIN inq)
  BY <1>1, PlaceKinds
<1>3. /\ IsFiniteSet(Places(outq, Asking)) /\ IsFiniteSet(Places(inq, {RESUME_TX}))
      /\ Cardinality(Places(outq, Asking)) \in Nat
      /\ Cardinality(Places(inq, {RESUME_TX})) \in Nat
      /\ Cardinality(Early(outq)) \in Nat /\ Cardinality(Late(outq)) \in Nat
  BY <1>1, <1>2, PlacesFinite
<1>4. Resumes \in Nat
  BY <1>3 DEF Resumes
<1>5. Counter \in Nat
  BY <1>1 DEF Counter
<1> QED BY <1>1, <1>3, <1>4, <1>5, SenderCounts

\* What a thread's step does to the threads that send
LEMMA SenderSets ==
    ASSUME Types, Types', NEW e \in Epts, \A o \in Epts \ {e} : th'[o] = th[o]
    PROVE  /\ th'[e].pc # "send" => Senders' = Senders \ {e} /\ Askers' = Askers \ {e}
           /\ th'[e].pc = "send" /\ ~ th'[e].confirm =>
                 Senders' = Senders \cup {e} /\ Askers' = Askers \ {e}
           /\ th'[e].pc = "send" /\ th'[e].confirm =>
                 Senders' = Senders \ {e} /\ Askers' = Askers \cup {e}
<1>1. \A o \in Epts : /\ o \in Senders <=> th[o].pc = "send" /\ ~ th[o].confirm
                      /\ o \in Askers <=> th[o].pc = "send" /\ th[o].confirm
                      /\ o \in Senders' <=> th'[o].pc = "send" /\ ~ th'[o].confirm
                      /\ o \in Askers' <=> th'[o].pc = "send" /\ th'[o].confirm
  BY DEF Senders, Askers
<1>2. Senders \subseteq Epts /\ Askers \subseteq Epts /\ Senders' \subseteq Epts /\ Askers' \subseteq Epts
  BY DEF Senders, Askers
<1> QED BY <1>1, <1>2

\* A step that touches neither the flow control nor the packets
LEMMA FlowSame ==
    ASSUME FlowInv, UNCHANGED <<r, link, inq, outq, work, modem>>,
           Senders' = Senders, Askers' = Askers
    PROVE  FlowInv'
BY DEF FlowInv, FlowState, Counter, Resumes, Flow, Threads

\* A step of a thread that neither sends nor takes quota
LEMMA FlowAside ==
    ASSUME Types, Types', FlowInv, NEW e \in Epts, \A o \in Epts \ {e} : th'[o] = th[o],
           th[e].pc # "send", th'[e].pc # "send",
           UNCHANGED <<r, link, inq, outq, work, modem>>
    PROVE  FlowInv'
<1>1. e \notin Senders /\ e \notin Askers
  BY DEF Senders, Askers
<1>2. Senders' = Senders \ {e} /\ Askers' = Askers \ {e}
  BY SenderSets
<1> QED BY <1>1, <1>2, FlowSame

\* A thread takes quota: the last of it with the duty to ask.
LEMMA FlowTake ==
    ASSUME Types, Types', FlowInv, NEW e \in Epts, TakeQuota(e)
    PROVE  FlowInv'
<1>t. th \in [Epts -> ThreadStates] /\ r \in [tx_quota_cntr : Nat, abort : BOOLEAN]
  BY DEF Types, ThreadTypes, LinkTypes
<1>1. /\ th[e].pc = "quota" /\ UNCHANGED <<link, inq, work, outq, modem>>
      /\ \A o \in Epts \ {e} : th'[o] = th[o]
  BY OthersAlone DEF TakeQuota, Runs, modemVars, Thread, Write
<1>2. CASE UNCHANGED r /\ (NetReset(e) \/ Sleeps(e))
  <2>1. th'[e].pc # "send"
    BY <1>t, <1>1, <1>2 DEF NetReset, WriteFails, Sleeps, Idle, ThreadStates
  <2> QED BY <1>1, <1>2, <2>1, FlowAside
<1>3. CASE /\ ~ r.abort /\ QuotaLeft
           /\ r' = [r EXCEPT !.tx_quota_cntr = @ + 1]
           /\ th' = [th EXCEPT ![e].pc = "send", ![e].confirm = (r'.tx_quota_cntr = Quota)]
  <2> DEFINE c == r.tx_quota_cntr
             b == r'.tx_quota_cntr = Quota
  <2>1. r'.tx_quota_cntr = c + 1 /\ r'.abort = r.abort /\ c \in Nat /\ c < Quota
    BY <1>t, <1>3 DEF QuotaLeft
  <2>2. th' = [th EXCEPT ![e].pc = "send", ![e].confirm = b]
    BY <1>3
  <2>3. b <=> c + 1 = Quota
    BY <2>1
  <2> HIDE DEF b
  <2>4. th'[e].pc = "send" /\ th'[e].confirm = b
    BY <1>t, <2>2 DEF ThreadStates
  <2>5. Counter = c /\ Counter' = c + 1
    BY <1>3, <2>1 DEF Counter
  <2> HIDE DEF c
  <2>6. e \notin Senders /\ e \notin Askers
    BY <1>1 DEF Senders, Askers
  <2>7. /\ ~ b => Senders' = Senders \cup {e} /\ Askers' = Askers
        /\ b => Senders' = Senders /\ Askers' = Askers \cup {e}
    BY <1>1, <2>4, <2>6, SenderSets
  <2>8. /\ ~ b => Cardinality(Senders') = Cardinality(Senders) + 1
        /\ b => Cardinality(Askers') = Cardinality(Askers) + 1
    BY <2>6, <2>7, SenderCounts, FS_AddElement
  <2>9. /\ Resumes' = Resumes /\ Places(outq, Asking)' = Places(outq, Asking)
        /\ Early(outq)' = Early(outq) /\ Late(outq)' = Late(outq) /\ modem' = modem
    BY <1>1 DEF Resumes
  <2> DEFINE A == Cardinality(Askers)
             S == Cardinality(Senders)
             q == Cardinality(Places(outq, Asking))
             j == Resumes
             y == modem.rcv + Cardinality(Early(outq))
             l == Cardinality(Late(outq))
  <2>f. /\ A \in Nat /\ S \in Nat /\ q \in Nat /\ j \in Nat /\ y \in Nat /\ l \in Nat
        /\ Threads \in Nat \ {0}
    BY FlowTypes
  <2>g. FlowState(Counter)' <=> Flow(c + 1, Cardinality(Askers'), q, j, y, l, Cardinality(Senders'))
    BY <2>5, <2>9 DEF FlowState, Flow, Threads
  <2>10. CASE link = "up"
    <3>1. Flow(c, A, q, j, y, l, S)
      BY <2>5, <2>10 DEF FlowInv, FlowState
    <3>h. Cardinality(Senders') = (IF b THEN S ELSE S + 1) /\ Cardinality(Askers') = (IF b THEN A + 1 ELSE A)
      BY <2>7, <2>8
    <3> HIDE DEF A, S, q, j, y, l
    <3>2. Quota \in Nat \ {0}
      BY RpcAssumption
    <3>3. c + 1 < Quota \/ c + 1 = Quota
      BY <2>1, <3>2
    <3>4. CASE ~ b
      <4>1. c + 1 < Quota
        BY <2>3, <3>3, <3>4
      <4>2. Flow(c + 1, A, q, j, y, l, S + 1)
        BY <2>1, <2>f, <3>1, <3>2, <4>1 DEF Flow
      <4> QED BY <1>1, <2>g, <2>10, <3>4, <3>h, <4>2 DEF FlowInv
    <3>5. CASE b
      <4>1. Flow(c + 1, A + 1, q, j, y, l, S)
        BY <2>1, <2>3, <2>f, <3>1, <3>2, <3>5 DEF Flow
      <4> QED BY <1>1, <2>g, <2>10, <3>5, <3>h, <4>1 DEF FlowInv
    <3> QED BY <3>4, <3>5
  <2>11. CASE link # "up"
    BY <1>1, <2>11 DEF FlowInv
  <2> QED BY <2>10, <2>11
<1> QED BY <1>2, <1>3 DEF TakeQuota

\* A thread's packet goes into the FIFO, or the write fails.
LEMMA FlowSend ==
    ASSUME Types, Types', CallIds, AbortedUntilBack, WritersConnected, FlowInv,
           NEW e \in Epts, Send(e)
    PROVE  FlowInv'
<1>t. /\ th \in [Epts -> ThreadStates] /\ r \in [tx_quota_cntr : Nat, abort : BOOLEAN]
      /\ outq \in Seq(Msgs)
  BY DEF Types, ThreadTypes, LinkTypes
<1>1. /\ th[e].pc = "send" /\ UNCHANGED <<r, link, known, inq, work, modem>>
      /\ \A o \in Epts \ {e} : th'[o] = th[o]
  BY OthersAlone DEF Send, Runs, modemVars, Thread, Write
<1>2. CASE link # "up"
  <2>1. UNCHANGED outq
    BY <1>2, SendCases DEF SendsPacket
  <2> QED BY <1>1, <1>2, <2>1 DEF FlowInv
<1>3. CASE link = "up"
  <2>1. th'[e].pc # "send"
    <3>1. \/ th' = [th EXCEPT ![e] = Idle]
          \/ th' = [th EXCEPT ![e].pc = "r_restart", ![e].confirm = FALSE]
      BY SendCases DEF SendsPacket, NetReset, WriteFails
    <3> QED BY <1>t, <3>1 DEF ThreadStates, Idle
  <2>2. Senders' = Senders \ {e} /\ Askers' = Askers \ {e}
    BY <1>1, <2>1, SenderSets
  <2>3. Resumes' = Resumes /\ modem' = modem /\ Counter' = Counter
    BY <1>1 DEF Resumes, Counter
  <2>4. /\ th[e].confirm => e \in Askers /\ e \notin Senders
        /\ ~ th[e].confirm => e \in Senders /\ e \notin Askers
    BY <1>1 DEF Senders, Askers
  <2>5. /\ th[e].confirm => /\ Cardinality(Askers') = Cardinality(Askers) - 1
                            /\ Cardinality(Senders') = Cardinality(Senders)
                            /\ Cardinality(Senders) <= Threads - 1 /\ Cardinality(Askers) > 0
        /\ ~ th[e].confirm => /\ Cardinality(Senders') = Cardinality(Senders) - 1
                              /\ Cardinality(Askers') = Cardinality(Askers)
                              /\ Cardinality(Senders) > 0
    <3>1. /\ e \in Askers => Cardinality(Askers) # 0
          /\ e \in Senders => Cardinality(Senders) # 0
      BY SenderCounts, FS_EmptySet
    <3>2. /\ Cardinality(Senders \ {e}) = IF e \in Senders THEN Cardinality(Senders) - 1
                                          ELSE Cardinality(Senders)
          /\ Cardinality(Askers \ {e}) = IF e \in Askers THEN Cardinality(Askers) - 1
                                         ELSE Cardinality(Askers)
      BY SenderCounts, FS_RemoveElement
    <3>3. Cardinality(Senders) \in Nat /\ Cardinality(Askers) \in Nat
      BY SenderCounts
    <3>4. th[e].confirm => Cardinality(Senders) <= Threads - 1
      BY <2>4, SenderCounts
    <3> QED BY <2>2, <2>4, <3>1, <3>2, <3>3, <3>4
  <2>6. Flow(Counter, Cardinality(Askers), Cardinality(Places(outq, Asking)), Resumes,
             modem.rcv + Cardinality(Early(outq)), Cardinality(Late(outq)),
             Cardinality(Senders))
    BY <1>3 DEF FlowInv, FlowState
  <2> DEFINE A == Cardinality(Askers)
             S == Cardinality(Senders)
             q == Cardinality(Places(outq, Asking))
             y == Cardinality(Early(outq))
             l == Cardinality(Late(outq))
             j == Resumes
             z == modem.rcv + y
             c == Counter
             d == Data(e, IF e = Server THEN "reply" ELSE "call", th[e].xid, th[e].confirm)
  <2>7. FlowState(Counter)' =>  FlowInv'
    BY <1>1, <1>3 DEF FlowInv
  <2>f. /\ A \in Nat /\ S \in Nat /\ q \in Nat /\ j \in Nat /\ y \in Nat /\ z \in Nat /\ l \in Nat
        /\ c \in Nat /\ modem.rcv \in Nat /\ Threads \in Nat \ {0}
    BY FlowTypes
  <2>q. Quota \in Nat \ {0}
    BY RpcAssumption
  <2>g. /\ c = 0 => A = 0
        /\ S > 0 => Flow(c, A, q, j, z, l, S - 1)
        /\ S > 0 /\ q = 0 => Flow(c, A, q, j, z + 1, l, S - 1)
        /\ S > 0 /\ q # 0 => Flow(c, A, q, j, z, l + 1, S - 1)
        /\ A > 0 /\ S <= Threads - 1 => Flow(c, A - 1, q + 1, j, z, l, S)
    <3>1. Flow(c, A, q, j, z, l, S)
      BY <2>6
    <3> HIDE DEF A, S, q, j, y, z, l, c
    <3>2. /\ c = 0 => A = 0
          /\ S > 0 => Flow(c, A, q, j, z, l, S - 1)
      BY ONLY <2>f, <2>q, <3>1 DEF Flow
    <3>3. /\ S > 0 /\ q = 0 => Flow(c, A, q, j, z + 1, l, S - 1)
          /\ S > 0 /\ q # 0 => Flow(c, A, q, j, z, l + 1, S - 1)
      BY ONLY <2>f, <2>q, <3>1 DEF Flow
    <3>4. A > 0 /\ S <= Threads - 1 => Flow(c, A - 1, q + 1, j, z, l, S)
      BY ONLY <2>f, <2>q, <3>1 DEF Flow
    <3> QED BY <3>2, <3>3, <3>4
  <2>8. CASE UNCHANGED outq
    <3>1. ~ th[e].confirm
      <4>1. ~ SendsPacket(e)
        <5>1. outq # Append(outq, d)
          <6> HIDE DEF d
          <6>1. Len(Append(outq, d)) = Len(outq) + 1 /\ Len(outq) \in Nat
            BY <1>t
          <6> QED BY <6>1
        <5> QED BY <1>3, <2>8, <5>1 DEF SendsPacket
      <4>2. NetReset(e)
        BY <4>1, SendCases
      <4>3. r.abort
        <5>1. ~ known \/ restart[e] # RESTART_NORMAL
          BY <1>3, <4>1 DEF Send, SendsPacket
        <5> QED BY <1>1, <1>3, <5>1 DEF AbortedUntilBack, WritersConnected
      <4>4. Counter = 0
        BY <4>3 DEF Counter
      <4>5. A = 0
        BY <2>g, <4>4
      <4> QED BY <2>5, <4>5
    <3>2. Flow(Counter, A, q, Resumes, modem.rcv + y, l, S - 1)
      BY <2>5, <2>g, <3>1
    <3>3. /\ Places(outq, Asking)' = Places(outq, Asking)
          /\ Early(outq)' = Early(outq) /\ Late(outq)' = Late(outq)
      BY <2>8
    <3> QED BY <2>3, <2>5, <2>7, <3>1, <3>2, <3>3 DEF FlowState, Flow, Threads
  <2>9. CASE outq' = Append(outq, d)
    <3>1. d \in Msgs /\ (d \in Asking <=> th[e].confirm) /\ (d \in Plain <=> ~ th[e].confirm)
      <4>1. th[e].xid \in Xids /\ th[e].confirm \in BOOLEAN
        BY <1>t, <1>1 DEF CallIds, ThreadStates
      <4>2. d \in Msgs /\ d.cmd = "DATA" /\ d.confirm = th[e].confirm
        BY <4>1 DEF Data, Msgs, Packets
      <4> HIDE DEF d
      <4> QED BY <4>2 DEF Asking, Plain
    <3> HIDE DEF d
    <3> DEFINE u == Append(outq, d)
    <3>2. /\ th[e].confirm => /\ Cardinality(Places(u, Asking)) = q + 1
                              /\ Cardinality(Early(u)) = y /\ Cardinality(Late(u)) = l
          /\ ~ th[e].confirm =>
                /\ Cardinality(Places(u, Asking)) = q
                /\ q = 0 => Cardinality(Early(u)) = y + 1 /\ Cardinality(Late(u)) = l
                /\ q # 0 => Cardinality(Early(u)) = y /\ Cardinality(Late(u)) = l + 1
      <4>1. q = 0 <=> Places(outq, Asking) = {}
        BY FlowTypes, FS_EmptySet
      <4> QED BY <1>t, <3>1, <4>1, FifoAppend
    <3> HIDE DEF u
    <3>3. outq' = u
      BY <2>9 DEF u
    <3>4. FlowState(Counter)' <=>
             Flow(Counter, Cardinality(Askers'), Cardinality(Places(u, Asking)), Resumes,
                  modem.rcv + Cardinality(Early(u)), Cardinality(Late(u)), Cardinality(Senders'))
      BY <2>3, <3>3 DEF FlowState, Flow, Threads
    <3>5. CASE th[e].confirm
      <4>1. Flow(Counter, A - 1, q + 1, Resumes, modem.rcv + y, l, S)
        BY <2>5, <2>g, <3>5
      <4> QED BY <2>5, <2>7, <3>2, <3>4, <3>5, <4>1
    <3>6. CASE ~ th[e].confirm
      <4>1. CASE q = 0
        <5>1. Flow(Counter, A, q, Resumes, (modem.rcv + y) + 1, l, S - 1)
          BY <2>5, <2>g, <3>6, <4>1
        <5>2. (modem.rcv + y) + 1 = modem.rcv + (y + 1)
          BY <2>f
        <5> QED BY <2>5, <2>7, <3>2, <3>4, <3>6, <4>1, <5>1, <5>2
      <4>2. CASE q # 0
        <5>1. Flow(Counter, A, q, Resumes, modem.rcv + y, l + 1, S - 1)
          BY <2>5, <2>g, <3>6, <4>2
        <5> QED BY <2>5, <2>7, <3>2, <3>4, <3>6, <4>2, <5>1
      <4> QED BY <4>1, <4>2
    <3> QED BY <3>5, <3>6
  <2> QED BY <1>3, <2>8, <2>9, SendCases DEF SendsPacket
<1> QED BY <1>2, <1>3

\* The messages are told apart.
LEMMA MsgKinds ==
    /\ {HELLO, NEW_SERVER, RESUME_TX} \subseteq Msgs
    /\ \A m \in {HELLO, NEW_SERVER, RESUME_TX} : m \notin Asking /\ m \notin Plain
    /\ \A m \in Packets : m # RESUME_TX /\ m # Nothing
    /\ RESUME_TX # Nothing /\ RESUME_TX # HELLO /\ RESUME_TX # NEW_SERVER
<1>1. /\ HELLO.cmd = "HELLO" /\ NEW_SERVER.cmd = "NEW_SERVER" /\ RESUME_TX.cmd = "RESUME_TX"
      /\ Nothing.cmd = "none" /\ \A m \in Packets : m.cmd = "DATA"
  BY DEF HELLO, NEW_SERVER, RESUME_TX, Nothing, Packets
<1>2. {HELLO, NEW_SERVER, RESUME_TX} \subseteq Msgs
  BY DEF Msgs
<1> QED BY <1>1, <1>2 DEF Asking, Plain

\* Control messages do not count.
LEMMA FlowControl ==
    ASSUME NEW s \in Seq(Msgs), NEW x \in {HELLO, NEW_SERVER, RESUME_TX}
    PROVE  /\ Append(s, x) \in Seq(Msgs)
           /\ Places(Append(s, x), Asking) = Places(s, Asking)
           /\ Early(Append(s, x)) = Early(s) /\ Late(Append(s, x)) = Late(s)
<1>1. x \in Msgs /\ x \notin Asking /\ x \notin Plain
  BY MsgKinds
<1> QED BY <1>1, FifoAppend

\* do_read_data: RESUME_TX and NEW_SERVER give the quota back.
LEMMA FlowWork ==
    ASSUME Types, Types', FlowInv, Work
    PROVE  FlowInv'
<1>t. /\ inq \in Seq(Msgs) /\ outq \in Seq(Msgs) /\ work \in Msgs \cup {Nothing}
      /\ r \in [tx_quota_cntr : Nat, abort : BOOLEAN]
  BY DEF Types, LinkTypes
<1>1. Senders' = Senders /\ Askers' = Askers
  BY WorkThreads DEF Senders, Askers
<1>2. link' = link /\ modem' = modem
  BY DEF Work, WorkRead, WorkHello, WorkResume, WorkNewServer, WorkData
<1>3. CASE link # "up"
  <2>1. outq' = outq
    BY <1>3 DEF Work, WorkRead, WorkHello, WorkResume, WorkNewServer, WorkData
  <2> QED BY <1>2, <1>3, <2>1 DEF FlowInv
<1>4. CASE link = "up"
  <2> DEFINE A == Cardinality(Askers)
             S == Cardinality(Senders)
             q == Cardinality(Places(outq, Asking))
             y == modem.rcv + Cardinality(Early(outq))
             l == Cardinality(Late(outq))
  <2>1. Flow(Counter, A, q, Resumes, y, l, S)
    BY <1>4 DEF FlowInv, FlowState
  <2>2. /\ A \in Nat /\ S \in Nat /\ q \in Nat /\ Resumes \in Nat /\ y \in Nat /\ l \in Nat
        /\ Counter \in Nat /\ Threads \in Nat \ {0} /\ Quota \in Nat \ {0}
    BY FlowTypes, RpcAssumption
  <2>3. ASSUME /\ Places(outq', Asking) = Places(outq, Asking)
               /\ Early(outq') = Early(outq) /\ Late(outq') = Late(outq)
        PROVE  FlowInv' <=> Flow(Counter', A, q, Resumes', y, l, S)
    BY <1>1, <1>2, <1>4, <2>3 DEF FlowInv, FlowState, Flow, Threads
  <2>4. CASE WorkRead
    <3>1. /\ work = Nothing /\ inq # <<>> /\ work' = Head(inq) /\ inq' = Tail(inq)
          /\ UNCHANGED <<r, outq>>
      BY <2>4 DEF WorkRead
    <3>2. /\ Head(inq) \notin {RESUME_TX} =>
                Cardinality(Places(Tail(inq), {RESUME_TX})) = Cardinality(Places(inq, {RESUME_TX}))
          /\ Head(inq) \in {RESUME_TX} =>
                Cardinality(Places(Tail(inq), {RESUME_TX})) = Cardinality(Places(inq, {RESUME_TX})) - 1
      BY <1>t, <3>1, FifoTail
    <3>3. Cardinality(Places(inq, {RESUME_TX})) \in Nat
      BY FlowTypes
    <3>4. Resumes' = Resumes
      <4>1. work # RESUME_TX
        BY <3>1, MsgKinds
      <4> QED BY <3>1, <3>2, <3>3, <4>1 DEF Resumes
    <3>5. Counter' = Counter
      BY <3>1 DEF Counter
    <3> QED BY <2>1, <2>3, <3>1, <3>4, <3>5
  <2>5. CASE WorkHello
    <3>1. work = HELLO /\ work' = Nothing /\ UNCHANGED <<r, inq>> /\ outq' = outq \o <<HELLO, NEW_SERVER>>
      BY <1>4, <2>5 DEF WorkHello
    <3>2. outq' = Append(Append(outq, HELLO), NEW_SERVER)
      BY <1>t, <3>1, MsgKinds
    <3> DEFINE u == Append(outq, HELLO)
    <3>3. /\ u \in Seq(Msgs) /\ Places(u, Asking) = Places(outq, Asking)
          /\ Early(u) = Early(outq) /\ Late(u) = Late(outq)
      BY <1>t, FlowControl
    <3>4. outq' = Append(u, NEW_SERVER)
      BY <3>2
    <3> HIDE DEF u
    <3>5. /\ Places(outq', Asking) = Places(u, Asking)
          /\ Early(outq') = Early(u) /\ Late(outq') = Late(u)
      BY <3>3, <3>4, FlowControl
    <3>6. Resumes' = Resumes /\ Counter' = Counter
      BY <3>1, MsgKinds DEF Resumes, Counter
    <3> QED BY <2>1, <2>3, <3>3, <3>5, <3>6
  <2>6. CASE WorkResume
    <3>1. /\ work = RESUME_TX /\ work' = Nothing /\ UNCHANGED <<inq, outq>>
          /\ r' = [r EXCEPT !.tx_quota_cntr = 0]
      BY <2>6 DEF WorkResume
    <3>2. Counter' = 0
      BY <1>t, <3>1 DEF Counter
    <3>3. Resumes = Resumes' + 1 /\ Resumes' \in Nat
      BY <3>1, MsgKinds, FlowTypes DEF Resumes
    <3> DEFINE c == Counter
               j == Resumes
               i == Resumes'
    <3> HIDE DEF A, S, q, y, l, c, j, i
    <3>4. Flow(0, A, q, i, y, l, S)
      <4>1. j = i + 1 /\ i \in Nat /\ j \in Nat /\ c \in Nat
        BY <2>2, <3>3 DEF i, j, c
      <4>2. Flow(c, A, q, j, y, l, S)
        BY <2>1 DEF c, j
      <4> QED BY ONLY <2>2, <4>1, <4>2 DEF Flow
    <3> QED BY <2>3, <3>1, <3>2, <3>4 DEF i
  <2>7. CASE WorkNewServer
    <3>1. /\ work = NEW_SERVER /\ work' = Nothing /\ UNCHANGED <<inq, outq>>
          /\ r' = IF r.abort THEN [tx_quota_cntr |-> 0, abort |-> FALSE] ELSE r
      BY <2>7 DEF WorkNewServer, handle_server_restart
    <3>2. Counter' = Counter
      BY <1>t, <3>1 DEF Counter
    <3>3. Resumes' = Resumes
      BY <3>1, MsgKinds DEF Resumes
    <3> QED BY <2>1, <2>3, <3>1, <3>2, <3>3
  <2>8. CASE WorkData
    <3>1. /\ work.cmd = "DATA" /\ work' = Nothing /\ UNCHANGED <<inq, r>>
          /\ outq' \in {outq, Append(outq, RESUME_TX)}
      BY <2>8 DEF WorkData
    <3>2. work \in Packets
      BY <1>t, <3>1, DataInHand
    <3>3. Resumes' = Resumes /\ Counter' = Counter
      BY <3>1, <3>2, MsgKinds DEF Resumes, Counter
    <3>4. /\ Places(outq', Asking) = Places(outq, Asking)
          /\ Early(outq') = Early(outq) /\ Late(outq') = Late(outq)
      BY <1>t, <3>1, FlowControl
    <3> QED BY <2>1, <2>3, <3>3, <3>4
  <2> QED BY <2>4, <2>5, <2>6, <2>7, <2>8 DEF Work
<1> QED BY <1>3, <1>4

\* The modem takes a packet: one that asks is answered by RESUME_TX.
LEMMA FlowTakes ==
    ASSUME Types, Types', FlowInv, ModemTakes
    PROVE  FlowInv'
<1>t. /\ inq \in Seq(Msgs) /\ outq \in Seq(Msgs) /\ modem \in [todo : SUBSET (Epts \X Xids), rcv : Nat]
  BY DEF Types, LinkTypes
<1> DEFINE p == Head(outq)
           A == Cardinality(Askers)
           S == Cardinality(Senders)
           q == Cardinality(Places(outq, Asking))
           y == Cardinality(Early(outq))
           l == Cardinality(Late(outq))
           z == modem.rcv + y
           c == Counter
           j == Resumes
<1>1. link = "up" /\ outq # <<>> /\ outq' = Tail(outq) /\ UNCHANGED <<r, link, work, th>> /\ p \in Msgs
  BY <1>t DEF ModemTakes, ModemUnchanged
<1>2. /\ p \in Asking => modem'.rcv = 0 /\ inq' = Append(inq, RESUME_TX)
      /\ p \in Plain => modem'.rcv = modem.rcv + 1 /\ inq' = inq
      /\ p \notin Asking /\ p \notin Plain => modem'.rcv = modem.rcv /\ inq' = inq
  <2> DEFINE data == p.cmd = "DATA"
             confirm == data /\ p.confirm
  <2>1. /\ modem'.rcv = IF confirm THEN 0 ELSE IF data THEN modem.rcv + 1 ELSE modem.rcv
        /\ inq' = IF confirm THEN Append(inq, RESUME_TX) ELSE inq
    BY DEF ModemTakes
  <2>2. (p \in Asking <=> confirm) /\ (p \in Plain <=> data /\ ~ confirm)
    BY <1>1 DEF Asking, Plain
  <2> HIDE DEF data, confirm
  <2> QED BY <2>1, <2>2
<1>3. Flow(c, A, q, j, z, l, S)
  BY <1>1 DEF FlowInv, FlowState
<1>4. /\ A \in Nat /\ S \in Nat /\ q \in Nat /\ j \in Nat /\ y \in Nat /\ z \in Nat /\ l \in Nat
      /\ c \in Nat /\ modem.rcv \in Nat /\ Threads \in Nat \ {0} /\ Quota \in Nat \ {0}
  BY FlowTypes, RpcAssumption
<1>5. Askers' = Askers /\ Senders' = Senders /\ Counter' = Counter
  BY <1>1 DEF Askers, Senders, Counter
<1> DEFINE u == Tail(outq)
<1>6. FlowInv' <=> Flow(c, A, Cardinality(Places(u, Asking)), Resumes',
                        modem'.rcv + Cardinality(Early(u)), Cardinality(Late(u)), S)
  BY <1>1, <1>5 DEF FlowInv, FlowState, Flow, Threads
<1>7. /\ p \notin Asking => /\ Cardinality(Places(u, Asking)) = q /\ Cardinality(Late(u)) = l
                            /\ p \in Plain => Cardinality(Early(u)) = y - 1
                            /\ p \notin Plain => Cardinality(Early(u)) = y
      /\ p \in Asking => Cardinality(Places(u, Asking)) = q - 1
      /\ p \in Asking /\ Places(u, Asking) = {} =>
            Cardinality(Early(u)) = l /\ Cardinality(Late(u)) = 0
  BY <1>t, <1>1, FifoTail
<1>8. CASE p \notin Asking
  <2>1. Resumes' = Resumes
    BY <1>1, <1>2, <1>8 DEF Resumes
  <2>2. modem'.rcv + Cardinality(Early(u)) = z
    <3> HIDE DEF u, p
    <3>1. \/ modem'.rcv = modem.rcv + 1 /\ Cardinality(Early(u)) = y - 1
          \/ modem'.rcv = modem.rcv /\ Cardinality(Early(u)) = y
      BY <1>2, <1>7, <1>8
    <3> DEFINE x == modem.rcv
    <3>2. x \in Nat /\ y \in Nat /\ z = x + y
      BY <1>4
    <3> QED BY <3>1, <3>2
  <2> QED BY <1>3, <1>6, <1>7, <1>8, <2>1, <2>2
<1>9. CASE p \in Asking
  <2> HIDE DEF p
  <2>1. Resumes' = Resumes + 1
    <3>1. Cardinality(Places(Append(inq, RESUME_TX), {RESUME_TX})) = Cardinality(Places(inq, {RESUME_TX})) + 1
      <4>1. RESUME_TX \in {RESUME_TX} /\ RESUME_TX \in Msgs
        BY MsgKinds
      <4> QED BY <1>t, <4>1, FifoAppend
    <3>2. Cardinality(Places(inq, {RESUME_TX})) \in Nat
      BY FlowTypes
    <3> DEFINE n == Cardinality(Places(inq, {RESUME_TX}))
               m == Cardinality(Places(inq', {RESUME_TX}))
               b == IF work = RESUME_TX THEN 1 ELSE 0
    <3>3. inq' = Append(inq, RESUME_TX) /\ work' = work
      BY <1>1, <1>2, <1>9
    <3>4. m = n + 1 /\ n \in Nat /\ b \in Nat
      BY <3>1, <3>2, <3>3
    <3>5. Resumes = n + b /\ Resumes' = m + b
      BY <3>3, Zenon DEF Resumes
    <3> HIDE DEF n, m, b
    <3> QED BY ONLY <3>4, <3>5
  <2>2. IsFiniteSet(Places(u, Asking)) /\ Cardinality(Places(u, Asking)) \in Nat
    <3>1. u \in Seq(Msgs)
      BY <1>t, <1>1
    <3> HIDE DEF u
    <3>2. Places(u, Asking) \in SUBSET (DOMAIN u)
      BY <3>1, PlaceKinds
    <3> QED BY <3>1, <3>2, PlacesFinite
  <2> HIDE DEF u
  <2>3. Cardinality(Places(u, Asking)) = q - 1
    BY <1>7, <1>9
  <2> HIDE DEF A, S, q, y, l, z, c, j
  <2>4. q <= 1
    BY ONLY <1>3, <1>4 DEF Flow
  <2>5. Cardinality(Places(u, Asking)) = 0 /\ q = 1
    BY <1>4, <2>2, <2>3, <2>4
  <2>6. Places(u, Asking) = {}
    BY <2>2, <2>5, FS_EmptySet
  <2>7. Cardinality(Early(u)) = l /\ Cardinality(Late(u)) = 0 /\ modem'.rcv = 0
    BY <1>2, <1>7, <1>9, <2>6
  <2>8. Flow(c, A, 0, j + 1, l, 0, S)
    BY ONLY <1>3, <1>4, <2>5 DEF Flow
  <2>9. modem'.rcv + Cardinality(Early(u)) = l
    BY <1>4, <2>7
  <2>10. Resumes' = j + 1
    BY <2>1 DEF j
  <2> QED BY <1>6, <2>5, <2>7, <2>8, <2>9, <2>10
<1> QED BY <1>8, <1>9

\* Nothing is under way at the start and after a restart.
LEMMA FlowEmpty ==
    ASSUME NEW i, \A n \in DOMAIN i : i[n] # RESUME_TX
    PROVE  /\ Cardinality(Places(<<>>, Asking)) = 0 /\ Cardinality(Places(i, {RESUME_TX})) = 0
           /\ Cardinality(Early(<<>>)) = 0 /\ Cardinality(Late(<<>>)) = 0 /\ Cardinality({}) = 0
           /\ Flow(0, 0, 0, 0, 0, 0, 0)
<1>1. Places(i, {RESUME_TX}) = {} /\ Places(<<>>, Asking) = {} /\ Early(<<>>) = {} /\ Late(<<>>) = {}
  BY DEF Places, Early, Late
<1>2. Cardinality({}) = 0
  BY FS_EmptySet
<1>3. Flow(0, 0, 0, 0, 0, 0, 0)
  BY RpcAssumption, SenderCounts DEF Flow
<1> QED BY <1>1, <1>2, <1>3

\* Every step keeps the flow in bounds.
LEMMA FlowNext ==
    ASSUME Calm, RInv, RInv', DownQuiet, AbortedUntilBack, WritersConnected, FlowInv, [Next]_vars
    PROVE  FlowInv'
<1>y. Types /\ Types' /\ CallIds
  BY DEF RInv
<1>t. /\ th \in [Epts -> ThreadStates] /\ inq \in Seq(Msgs) /\ outq \in Seq(Msgs)
  BY <1>y DEF Types, ThreadTypes, LinkTypes
<1>s. Server \in Epts /\ Clients \subseteq Epts
  BY DEF Epts
<1>i. Idle.pc = "idle"
  BY DEF Idle
<1>l. UNCHANGED modemVars => UNCHANGED <<link, known, inq, work, modem>>
  BY DEF modemVars
<1>1. ASSUME NEW e \in Epts, TakeQuota(e) PROVE FlowInv'
  BY <1>1, <1>y, FlowTake
<1>2. ASSUME NEW e \in Epts, Send(e) PROVE FlowInv'
  BY <1>2, <1>y, FlowSend
<1>3. ASSUME NEW e \in Epts,
             \/ WaitForRestart(e, "w_restart", "quota") \/ WriteInterrupted(e)
             \/ Read(e) \/ ReadGivesUp(e) \/ CallStart(e)
      PROVE  FlowInv'
  <2>1. \A o \in Epts \ {e} : th'[o] = th[o]
    BY <1>3, <1>y, OthersAlone DEF Thread, Write
  <2>2. th[e].pc # "send"
    BY <1>3, <1>i DEF WaitForRestart, WriteInterrupted, Read, ReadGivesUp, CallStart, ReadWait, ReadAgain,
       ReadTake, ReadRelease, Runs
  <2>3. UNCHANGED <<r, link, inq, outq, work, modem>>
    BY <1>3, <1>l DEF WaitForRestart, WriteInterrupted, Read, ReadGivesUp, CallStart, ReadWait,
       ReadAgain, ReadTake, ReadRelease
  <2>4. th'[e].pc # "send"
    <3>1. CASE WaitForRestart(e, "w_restart", "quota") \/ WriteInterrupted(e) \/ CallStart(e)
      BY <1>t, <1>i, <2>2, <3>1 DEF WaitForRestart, WriteInterrupted, CallStart, NetReset, WriteFails, Goes,
         Sleeps, ThreadStates, Idle
    <3>2. CASE Read(e) \/ ReadGivesUp(e)
      BY <1>t, <1>i, <2>2, <3>2 DEF Read, ReadGivesUp, WaitForRestart, ReadWait, ReadAgain, ReadTake, ReadRelease,
         NetReset, WriteFails, Goes, Sleeps, ThreadStates
    <3> QED BY <1>3, <3>1, <3>2
  <2> QED BY <1>y, <2>1, <2>2, <2>3, <2>4, FlowAside
<1>4. CASE Serve
  <2>1. th[Server].pc # "send" /\ \A o \in Epts \ {Server} : th'[o] = th[o]
    BY <1>4, <1>s, <1>t DEF Serve, ServerReads, ReadTag, ReplyStart, Goes, Runs, Idle
  <2>2. UNCHANGED <<r, link, inq, outq, work, modem>>
    BY <1>4, <1>l DEF Serve, ServerReads, ReadTag, ReplyStart
  <2>3. th'[Server].pc # "send"
    BY <1>4, <1>s, <1>t DEF Serve, ServerReads, ReadTag, ReplyStart, Goes, ThreadStates
  <2> QED BY <1>s, <1>y, <2>1, <2>2, <2>3, FlowAside
<1>5. CASE Work
  BY <1>5, <1>y, FlowWork
<1>6. CASE Cleanup
  BY <1>6 DEF Cleanup, CleanupLocal, CleanupRemote, RemoveXprt, FlowInv
<1>7. CASE ModemTakes
  BY <1>7, <1>y, FlowTakes
<1>8. CASE ModemAnswers \/ ModemCalls
  <2>1. /\ link = "up" /\ UNCHANGED <<r, link, work, th, outq>> /\ modem'.rcv = modem.rcv
    BY <1>8, <1>y DEF ModemAnswers, ModemCalls, ModemUnchanged, Types, LinkTypes
  <2>2. PICK d : inq' = Append(inq, d) /\ d # RESUME_TX
    <3>1. PICK e, k, x, b : inq' = Append(inq, Data(e, k, x, b))
      BY <1>8 DEF ModemAnswers, ModemCalls
    <3>2. Data(e, k, x, b).cmd = "DATA" /\ RESUME_TX.cmd = "RESUME_TX"
      BY DEF Data, RESUME_TX
    <3> QED BY <3>1, <3>2
  <2>3. d \in Msgs
    <3>1. inq' \in Seq(Msgs) /\ inq'[Len(inq) + 1] = d /\ Len(inq) + 1 \in DOMAIN inq'
      BY <1>t, <1>y, <2>2 DEF Types, LinkTypes
    <3> QED BY <3>1
  <2>4. Places(inq', {RESUME_TX}) = Places(inq, {RESUME_TX})
    BY <1>t, <2>2, <2>3, FifoAppend
  <2>5. Resumes' = Resumes /\ Senders' = Senders /\ Askers' = Askers /\ Counter' = Counter
    BY <2>1, <2>4 DEF Resumes, Senders, Askers, Counter
  <2> QED BY <2>1, <2>5 DEF FlowInv, FlowState, Flow, Threads
<1>9. CASE ModemResets
  BY <1>9 DEF ModemResets, FlowInv
<1>10. CASE ModemStarts
  <2>1. /\ link = "down" /\ outq' = outq /\ modem' = modem /\ inq' = <<HELLO, NEW_SERVER>>
        /\ UNCHANGED <<th, r, work>> /\ \A e \in Epts : th[e].pc # "send"
    BY <1>10 DEF ModemStarts, ModemUnchanged
  <2>2. outq' = <<>> /\ modem'.rcv = 0
    BY <2>1 DEF FlowInv
  <2>3. Counter' = 0
    BY <2>1 DEF AbortedUntilBack, Counter
  <2>4. (\A i \in DOMAIN inq : inq[i] # RESUME_TX)' /\ work' # RESUME_TX
    BY <2>1, MsgKinds DEF DownQuiet
  <2>5. Senders' = {} /\ Askers' = {}
    BY <2>1 DEF Senders, Askers
  <2> DEFINE i == inq'
  <2>6. \A n \in DOMAIN i : i[n] # RESUME_TX
    BY <2>4
  <2> HIDE DEF i
  <2>7. /\ Cardinality(Places(<<>>, Asking)) = 0 /\ Cardinality(Places(i, {RESUME_TX})) = 0
        /\ Cardinality(Early(<<>>)) = 0 /\ Cardinality(Late(<<>>)) = 0 /\ Cardinality({}) = 0
        /\ Flow(0, 0, 0, 0, 0, 0, 0)
    BY <2>6, FlowEmpty
  <2>8. Resumes' = 0
    <3>1. Cardinality(Places(inq', {RESUME_TX})) = 0
      BY <2>7 DEF i
    <3> QED BY <2>4, <3>1 DEF Resumes
  <2>9. FlowState(Counter)'
    <3>1. Cardinality(Senders') = 0 /\ Cardinality(Askers') = 0
      BY <2>5, <2>7
    <3>2. /\ Cardinality(Places(outq', Asking)) = 0 /\ Cardinality(Early(outq')) = 0
          /\ Cardinality(Late(outq')) = 0 /\ modem'.rcv + 0 = 0
      BY <2>2, <2>7
    <3> QED BY <2>3, <2>7, <2>8, <3>1, <3>2 DEF FlowState, Flow, Threads
  <2>10. link' = "up"
    BY <1>10 DEF ModemStarts
  <2> QED BY <2>9, <2>10 DEF FlowInv
<1>11. CASE UNCHANGED vars
  <2>1. Senders' = Senders /\ Askers' = Askers
    BY <1>11 DEF vars, Senders, Askers
  <2> QED BY <1>11, <2>1, FlowSame DEF vars
<1> QED BY <1>1, <1>2, <1>3, <1>4, <1>5, <1>6, <1>7, <1>8, <1>9, <1>10, <1>11, <1>s
    DEF Next, Thread, Write, ModemRuns

(***************************************************************************)
(* The modem never has to keep more packets that it was not asked to       *)
(* confirm than the quota and one for each other thread, for any quota and *)
(* any number of threads, when restarts are calm: a thread that was slow   *)
(* to send what it took before a confirmation adds its one packet to the   *)
(* next round, and never two.                                              *)
(***************************************************************************)
THEOREM RouterQuotaBounds == Calm => (Spec => []QuotaBounds)
<1> SUFFICES ASSUME Calm PROVE Spec => []QuotaBounds
  OBVIOUS
<1> DEFINE I == RInv /\ CalmInv /\ FlowInv
<1>1. Init => I
  <2> SUFFICES ASSUME Init PROVE I
    OBVIOUS
  <2>1. RInv /\ CalmInv
    BY InitRInv, InitCalm
  <2>2. Senders = {} /\ Askers = {}
    BY DEF Init, Senders, Askers, Idle
  <2>3. /\ outq = <<>> /\ modem.rcv = 0 /\ work # RESUME_TX /\ Counter = 0
        /\ \A i \in DOMAIN inq : inq[i] # RESUME_TX
    BY MsgKinds DEF Init, Counter
  <2>4. /\ Cardinality(Places(<<>>, Asking)) = 0 /\ Cardinality(Places(inq, {RESUME_TX})) = 0
        /\ Cardinality(Early(<<>>)) = 0 /\ Cardinality(Late(<<>>)) = 0 /\ Cardinality({}) = 0
        /\ Flow(0, 0, 0, 0, 0, 0, 0)
    BY <2>3, FlowEmpty
  <2>5. Resumes = 0
    BY <2>3, <2>4 DEF Resumes
  <2>6. FlowState(Counter)
    <3>1. /\ Cardinality(Places(outq, Asking)) = 0 /\ Cardinality(Early(outq)) = 0
          /\ Cardinality(Late(outq)) = 0 /\ modem.rcv + 0 = 0
      BY <2>3, <2>4
    <3> QED BY <2>2, <2>3, <2>4, <2>5, <3>1 DEF FlowState
  <2> QED BY <2>1, <2>3, <2>6 DEF FlowInv
<1>2. I /\ [Next]_vars => I'
  <2> SUFFICES ASSUME I, [Next]_vars PROVE I'
    OBVIOUS
  <2>1. RInv' /\ CalmInv'
    BY NextRInv, NextCalm
  <2> QED BY <2>1, FlowNext DEF CalmInv
<1>3. I => QuotaBounds
  <2> SUFFICES ASSUME RInv, FlowInv PROVE QuotaBounds
    OBVIOUS
  <2>1. /\ modem.rcv \in Nat /\ Cardinality(Early(outq)) \in Nat /\ Cardinality(Late(outq)) \in Nat
        /\ Cardinality(Senders) \in Nat /\ Cardinality(Askers) \in Nat /\ Counter \in Nat
        /\ Cardinality(Places(outq, Asking)) \in Nat /\ Resumes \in Nat
        /\ Threads \in Nat \ {0} /\ Quota \in Nat \ {0}
    BY FlowTypes, RpcAssumption DEF RInv
  <2>2. modem.rcv < Quota + Threads - 1
    <3>1. CASE link = "up"
      BY <2>1, <3>1 DEF FlowInv, FlowState, Flow
    <3>2. CASE link # "up"
      BY <2>1, <3>2 DEF FlowInv
    <3> QED BY <3>1, <3>2
  <2> QED BY <2>2 DEF QuotaBounds, Threads
<1> QED BY <1>1, <1>2, <1>3, PTL DEF Spec
=============================================================================
