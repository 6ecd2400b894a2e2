----------------------------- MODULE RpcRouter -----------------------------
(***************************************************************************)
(* The router of remote procedure calls between the phone's processor and  *)
(* the modem, arch/arm/mach-msm/smd_rpcrouter.c: the flow control towards  *)
(* a server on the modem, the queues and wake locks of local endpoints,    *)
(* and what a restart of the modem does to both.                           *)
(*                                                                         *)
(* Each client endpoint is used by a thread in msm_rpc_call_reply; one     *)
(* more endpoint has a local server's thread, which the modem calls.  All  *)
(* of them talk to the one remote endpoint r.  do_read_data works through  *)
(* what the modem sends, on a work queue of its own; another work queue    *)
(* cleans up after a reset.  Packets have one fragment.                    *)
(***************************************************************************)
EXTENDS Integers, Sequences, FiniteSets

CONSTANTS
    Clients, Server,   \* local endpoints
    RPCROUTER_DEFAULT_RX_QUOTA, RPCROUTER_PEND_REPLIES_MAX,
    Room,              \* packets the FIFO to the modem takes
    Xids,              \* bound on calls under way: the ids in use at a time
    Calm               \* is a restart slow: have threads left the write path
                       \* before it, and is NEW_SERVER handled before the next?

Quota == RPCROUTER_DEFAULT_RX_QUOTA

ASSUME RpcAssumption ==
    /\ Server \notin Clients /\ IsFiniteSet(Clients)
    /\ Quota \in Nat \ {0} /\ RPCROUTER_PEND_REPLIES_MAX \in Nat \ {0}
    /\ Room \in Nat \ {0} /\ Xids \subseteq Nat \ {0}
    /\ Calm \in BOOLEAN

VARIABLES
    th,         \* endpoint -> its thread
    restart,    \* endpoint -> restart_state, the set of its bits
    read_q,     \* endpoint -> packets to be read
    readLock,   \* endpoint -> read_q_wake_lock is held
    reply,      \* the server's reply_pend_q, reply_avail_q, reply_cnt and lock
    r,          \* the remote endpoint: tx_quota_cntr, quota_restart_state
    link,       \* the transport, and how far xprt_close_worker has come
    known,      \* remote_pid is set
    inq, outq,  \* the FIFOs of the channel
    work,       \* what do_read_data has in hand
    modem,      \* calls it has not answered, and packets since it confirmed
    missed      \* clients that had a reset and no ENETRESET since

vars == <<th, restart, read_q, readLock, reply, r, link, known, inq, outq, work,
          modem, missed>>

queueVars == <<read_q, readLock, reply>>
modemVars == <<link, known, inq, work, modem>>

Epts == Clients \cup {Server}

NTFY == "RESTART_PEND_NTFY"
SVR == "RESTART_PEND_SVR"
RESTART_NORMAL == {}

Idle == [pc |-> "idle", asleep |-> FALSE, xid |-> 0, confirm |-> FALSE]
Nothing == [cmd |-> "none"]

HELLO == [cmd |-> "HELLO"]
NEW_SERVER == [cmd |-> "NEW_SERVER"]
RESUME_TX == [cmd |-> "RESUME_TX"]
Data(e, kind, x, confirm) ==
    [cmd |-> "DATA", ept |-> e, type |-> kind, xid |-> x, confirm |-> confirm]

\* Thread e goes on at pc.
Goes(e, pc) == th' = [th EXCEPT ![e].pc = pc, ![e].asleep = FALSE]

\* It waits: the condition was looked at after prepare_to_wait
Sleeps(e) == th' = [th EXCEPT ![e].asleep = TRUE]

Runs(e, pc) == th[e].pc = pc /\ ~ th[e].asleep

\* wake_up of a wait queue: the threads in t that wait at one of pcs
Woken(t, pcs) ==
    [e \in Epts |-> [t[e] EXCEPT !.asleep = @ /\ t[e].pc \notin pcs]]

-----------------------------------------------------------------------------
(* msm_rpc_write. *)

\* The end of a write that failed: the tag of a reply is pending again
WriteFails(e) ==
    /\ th' = [th EXCEPT ![e] = Idle]
    /\ reply' = IF e = Server
                THEN [reply EXCEPT !.pend = @ \cup {th[e].xid}, !.lock = TRUE]
                ELSE reply
    /\ UNCHANGED <<read_q, readLock>>

\* ... with -ENETRESET
NetReset(e) == WriteFails(e) /\ missed' = missed \ {e}

ClearNotify(e) == restart' = [restart EXCEPT ![e] = @ \ {NTFY}]

\* next_xid: an id that nothing refers to any more, the smallest
InUse ==
    {th[e].xid : e \in Epts} \cup reply.pend \cup {c[2] : c \in modem.todo} \cup
    {p.xid : p \in {q \in UNION {{s[i] : i \in DOMAIN s} : s \in
                      {inq, outq, <<work>>} \cup {read_q[e] : e \in Epts}} :
                  q.cmd = "DATA"}}

NewXid(x) == x \in Xids \ InUse /\ \A y \in Xids \ InUse : x <= y

\* msm_rpc_call_reply, the request
CallStart(e) ==
    /\ e \in Clients /\ th[e] = Idle
    /\ \E x \in Xids :
          /\ NewXid(x)
          /\ th' = [th EXCEPT ![e] = [Idle EXCEPT !.pc = "w_restart", !.xid = x]]
    /\ UNCHANGED <<restart, queueVars, r, outq, modemVars, missed>>

\* get_pend_reply, for the reply to the call that was read
ReplyStart ==
    /\ Runs(Server, "serve")
    /\ reply' = [reply EXCEPT !.pend = @ \ {th[Server].xid}]
    /\ Goes(Server, "w_restart")
    /\ UNCHANGED <<restart, read_q, readLock, r, outq, modemVars, missed>>

\* wait_for_restart_and_notify at pc, from where the call goes on to next
WaitForRestart(e, pc, next) ==
    /\ Runs(e, pc)
    /\ \/ /\ restart[e] = RESTART_NORMAL
          /\ Goes(e, next)
          /\ UNCHANGED <<restart, queueVars, missed>>
       \/ /\ NTFY \in restart[e]
          /\ ClearNotify(e)
          /\ NetReset(e)
       \/ /\ restart[e] = {SVR}
          /\ Sleeps(e)
          /\ UNCHANGED <<restart, queueVars, missed>>
    /\ UNCHANGED <<r, outq, modemVars>>

\* Mutant of QuotaLeft: one packet more than the quota
QuotaLeftAndOne == r.tx_quota_cntr <= Quota

QuotaLeft == r.tx_quota_cntr < Quota

\* The loop on quota_wait, under quota_lock
TakeQuota(e) ==
    /\ Runs(e, "quota")
    /\ \/ /\ r.abort
          /\ ClearNotify(e)
          /\ NetReset(e)
          /\ UNCHANGED r
       \/ /\ ~ r.abort /\ QuotaLeft
          /\ r' = [r EXCEPT !.tx_quota_cntr = @ + 1]
          /\ th' = [th EXCEPT ![e].pc = "send",
                       ![e].confirm = (r'.tx_quota_cntr = Quota)]
          /\ UNCHANGED <<restart, queueVars, missed>>
       \/ /\ ~ r.abort /\ ~ QuotaLeft
          /\ Sleeps(e)
          /\ UNCHANGED <<restart, queueVars, r, missed>>
    /\ UNCHANGED <<outq, modemVars>>

\* rpcrouter_get_xprt_info finds the transport until it is taken off the list.
Send(e) ==
    /\ Runs(e, "send")
    /\ \/ /\ ~ known
          /\ NetReset(e)
          /\ UNCHANGED <<restart, outq>>
       \/ /\ known /\ restart[e] # RESTART_NORMAL
          /\ ClearNotify(e)
          /\ NetReset(e)
          /\ UNCHANGED outq
       \/ /\ known /\ restart[e] = RESTART_NORMAL /\ Len(outq) < Room
          /\ LET kind == IF e = Server THEN "reply" ELSE "call"
             IN  outq' = IF link = "up"
                         THEN Append(outq, Data(e, kind, th[e].xid, th[e].confirm))
                         ELSE outq     \* the result of xprt->write is not used
          /\ IF e = Server
             THEN /\ th' = [th EXCEPT ![e] = Idle]
                  /\ reply' = [reply EXCEPT !.avail = @ + 1, !.lock = reply.pend # {}]
             ELSE /\ th' = [th EXCEPT ![e].pc = "r_restart", ![e].confirm = FALSE]
                  /\ UNCHANGED reply
          /\ UNCHANGED <<restart, read_q, readLock, missed>>
    /\ UNCHANGED <<r, modemVars>>

\* -ERESTARTSYS: a signal before the quota is taken
WriteInterrupted(e) ==
    /\ th[e].pc \in {"w_restart", "quota"}
    /\ WriteFails(e)
    /\ UNCHANGED <<restart, r, outq, modemVars, missed>>

-----------------------------------------------------------------------------
(* __msm_rpc_read. *)

ServerReads ==
    /\ th[Server] = Idle /\ read_q[Server] # <<>>
    /\ Goes(Server, "r_restart")
    /\ UNCHANGED <<restart, queueVars, r, outq, modemVars, missed>>

\* wait_event on wait_q, then msm_rpc_clear_netreset
ReadWait(e) ==
    /\ Runs(e, "wait")
    /\ \/ /\ restart[e] # RESTART_NORMAL
          /\ ClearNotify(e)
          /\ NetReset(e)
       \/ /\ restart[e] = RESTART_NORMAL /\ read_q[e] # <<>>
          /\ Goes(e, "take")
          /\ UNCHANGED <<restart, queueVars, missed>>
       \/ /\ restart[e] = RESTART_NORMAL /\ read_q[e] = <<>>
          /\ Sleeps(e)
          /\ UNCHANGED <<restart, queueVars, missed>>
    /\ UNCHANGED <<r, outq, modemVars>>

\* A timeout or a signal
ReadGivesUp(e) ==
    /\ th[e].pc \in {"r_restart", "wait"}
    /\ \/ /\ th[e].pc = "wait" /\ restart[e] # RESTART_NORMAL
          /\ ClearNotify(e)
          /\ NetReset(e)
       \/ /\ th[e].pc = "r_restart" \/ restart[e] = RESTART_NORMAL
          /\ th' = [th EXCEPT ![e] = Idle]
          /\ UNCHANGED <<restart, queueVars, missed>>
    /\ UNCHANGED <<r, outq, modemVars>>

\* A cleanup has emptied the queue since: -EAGAIN
ReadAgain(e) ==
    /\ Runs(e, "take") /\ read_q[e] = <<>>
    /\ th' = [th EXCEPT ![e] = Idle]
    /\ UNCHANGED <<restart, queueVars, r, outq, modemVars, missed>>

\* Mutant of ReadTake: the read wake lock is released before the tag is pending
ReadTakeUnlocks(e) ==
    /\ Runs(e, "take") /\ read_q[e] # <<>>
    /\ read_q' = [read_q EXCEPT ![e] = Tail(@)]
    /\ readLock' = [readLock EXCEPT ![e] = @ /\ Tail(read_q[e]) # <<>>]
    /\ LET p == Head(read_q[e])
       IN  CASE p.type = "call" -> th' = [th EXCEPT ![e].pc = "tag", ![e].xid = p.xid]
             [] p.type # "call" /\ p.xid = th[e].xid -> Goes(e, "got")
             [] OTHER -> Goes(e, "other")
    /\ UNCHANGED <<restart, reply, r, outq, modemVars, missed>>

\* The first packet is taken off the queue.
ReadTake(e) ==
    /\ Runs(e, "take") /\ read_q[e] # <<>>
    /\ read_q' = [read_q EXCEPT ![e] = Tail(@)]
    /\ LET p == Head(read_q[e])
       IN  CASE p.type = "call" -> th' = [th EXCEPT ![e].pc = "tag", ![e].xid = p.xid]
             [] p.type # "call" /\ p.xid = th[e].xid -> Goes(e, "got")
             [] OTHER -> Goes(e, "other")
    /\ UNCHANGED <<restart, readLock, reply, r, outq, modemVars, missed>>

\* Mutant of ReadTag: one reply too many
ReadTagOneMore ==
    /\ Runs(Server, "tag")
    /\ \/ /\ reply.avail > 0 \/ reply.cnt <= RPCROUTER_PEND_REPLIES_MAX
          /\ reply' = [pend |-> reply.pend \cup {th[Server].xid}, lock |-> TRUE,
                       avail |-> IF reply.avail > 0 THEN reply.avail - 1 ELSE 0,
                       cnt |-> IF reply.avail > 0 THEN reply.cnt ELSE reply.cnt + 1]
          /\ Goes(Server, "called")
       \/ /\ reply.avail = 0 /\ reply.cnt > RPCROUTER_PEND_REPLIES_MAX
          /\ Goes(Server, "dropped")
          /\ UNCHANGED reply
    /\ UNCHANGED <<restart, read_q, readLock, r, outq, modemVars, missed>>

\* get_avail_reply and set_pend_reply; -ENOMEM when there are too many
ReadTag ==
    /\ Runs(Server, "tag")
    /\ \/ /\ reply.avail > 0 \/ reply.cnt < RPCROUTER_PEND_REPLIES_MAX
          /\ reply' = [pend |-> reply.pend \cup {th[Server].xid}, lock |-> TRUE,
                       avail |-> IF reply.avail > 0 THEN reply.avail - 1 ELSE 0,
                       cnt |-> IF reply.avail > 0 THEN reply.cnt ELSE reply.cnt + 1]
          /\ Goes(Server, "called")
       \/ /\ reply.avail = 0 /\ reply.cnt >= RPCROUTER_PEND_REPLIES_MAX
          /\ Goes(Server, "dropped")
          /\ UNCHANGED reply
    /\ UNCHANGED <<restart, read_q, readLock, r, outq, modemVars, missed>>

\* read_release_lock; msm_rpc_call_reply reads on after another call's reply
ReadRelease(e) ==
    /\ th[e].pc \in {"got", "other", "called", "dropped"}
    /\ readLock' = [readLock EXCEPT ![e] = @ /\ read_q[e] # <<>>]
    /\ CASE th[e].pc = "other" -> Goes(e, "r_restart")
         [] th[e].pc = "called" -> Goes(e, "serve")
         [] OTHER -> th' = [th EXCEPT ![e] = Idle]
    /\ UNCHANGED <<restart, read_q, reply, r, outq, modemVars, missed>>

-----------------------------------------------------------------------------
(* do_read_data and process_control_msg. *)

WorkRead ==
    /\ work = Nothing /\ inq # <<>>
    /\ work' = Head(inq)
    /\ inq' = Tail(inq)
    /\ UNCHANGED <<th, restart, queueVars, r, outq, link, known, modem, missed>>

\* It is answered, and the modem is told of the local server.
WorkHello ==
    /\ work = HELLO
    /\ link = "up" => Len(outq) + 2 <= Room
    /\ known' = TRUE
    /\ outq' = IF link = "up" THEN outq \o <<HELLO, NEW_SERVER>> ELSE outq
    /\ work' = Nothing
    /\ UNCHANGED <<th, restart, queueVars, r, link, inq, modem, missed>>

\* Mutant of WorkResume: nobody is woken
ResumeNoWake ==
    /\ work = RESUME_TX
    /\ r' = [r EXCEPT !.tx_quota_cntr = 0]
    /\ work' = Nothing
    /\ UNCHANGED <<th, restart, queueVars, outq, link, known, inq, modem, missed>>

WorkResume ==
    /\ work = RESUME_TX
    /\ r' = [r EXCEPT !.tx_quota_cntr = 0]
    /\ th' = Woken(th, {"quota"})
    /\ work' = Nothing
    /\ UNCHANGED <<restart, queueVars, outq, link, known, inq, modem, missed>>

\* Mutant of handle_server_restart: the quota is not given back
RestartKeepsQuota ==
    /\ r' = [r EXCEPT !.abort = FALSE]
    /\ restart' = [e \in Epts |-> restart[e] \ {SVR}]
    /\ th' = Woken(th, {"quota", "w_restart", "r_restart", "wait"})

\* Mutant of handle_server_restart: restart_state becomes RESTART_NORMAL
RestartClearsAll ==
    LET back == {e \in Clients : SVR \in restart[e]}
    IN  /\ r' = IF r.abort THEN [tx_quota_cntr |-> 0, abort |-> FALSE] ELSE r
        /\ restart' = [e \in Epts |-> RESTART_NORMAL]
        /\ th' = LET t == IF r.abort THEN Woken(th, {"quota"}) ELSE th
                     w == Woken(t, {"w_restart", "r_restart", "wait"})
                 IN  [e \in Epts |-> IF e \in back THEN w[e] ELSE t[e]]

handle_server_restart ==
    LET back == {e \in Clients : SVR \in restart[e]}
    IN  /\ r' = IF r.abort THEN [tx_quota_cntr |-> 0, abort |-> FALSE] ELSE r
        /\ restart' = [e \in Epts |-> restart[e] \ {SVR}]
        /\ th' = LET t == IF r.abort THEN Woken(th, {"quota"}) ELSE th
                     w == Woken(t, {"w_restart", "r_restart", "wait"})
                 IN  [e \in Epts |-> IF e \in back THEN w[e] ELSE t[e]]

\* NEW_SERVER for a server that is on the list with the same address
WorkNewServer ==
    /\ work = NEW_SERVER
    /\ handle_server_restart
    /\ work' = Nothing
    /\ UNCHANGED <<queueVars, outq, link, known, inq, modem, missed>>

\* A packet for an endpoint, and the confirmation the modem asks for
WorkData ==
    /\ work.cmd = "DATA"
    /\ work.confirm /\ known => Len(outq) < Room
    /\ read_q' = [read_q EXCEPT ![work.ept] = Append(@, work)]
    /\ readLock' = [readLock EXCEPT ![work.ept] = TRUE]
    /\ LET w == Woken(th, {"wait"})
       IN  th' = [th EXCEPT ![work.ept] = w[work.ept]]
    /\ outq' = IF work.confirm /\ known /\ link = "up"
               THEN Append(outq, RESUME_TX) ELSE outq
    /\ work' = Nothing
    /\ UNCHANGED <<restart, reply, r, link, known, inq, modem, missed>>

-----------------------------------------------------------------------------
(* xprt_close_worker: modem_reset_cleanup and msm_rpcrouter_remove_xprt. *)

\* Local endpoints that are connected to the modem
CleanupLocal ==
    /\ link = "closed"
    /\ link' = "local"
    /\ restart' = [e \in Epts |-> IF e \in Clients THEN {NTFY, SVR} ELSE restart[e]]
    /\ read_q' = [e \in Epts |-> IF e \in Clients THEN <<>> ELSE read_q[e]]
    /\ th' = [e \in Epts |-> IF e \in Clients THEN Woken(th, {"wait"})[e] ELSE th[e]]
    /\ missed' = Clients
    /\ UNCHANGED <<readLock, reply, r, known, inq, outq, work, modem>>

CleanupRemote ==
    /\ link = "local"
    /\ link' = "remote"
    /\ r' = [r EXCEPT !.abort = TRUE]
    /\ th' = Woken(th, {"quota"})
    /\ UNCHANGED <<restart, queueVars, known, inq, outq, work, modem, missed>>

\* abort_data_read, list_del, and flush_workqueue
RemoveXprt ==
    /\ link = "remote" /\ work = Nothing
    /\ link' = "down"
    /\ known' = FALSE
    /\ UNCHANGED <<th, restart, queueVars, r, inq, outq, work, modem, missed>>

-----------------------------------------------------------------------------
(* The modem.  A reset empties the FIFOs of the channel. *)

ModemUnchanged == UNCHANGED <<th, restart, queueVars, r, known, work, missed>>

ModemTakes ==
    /\ link = "up" /\ outq # <<>>
    /\ LET p == Head(outq)
           data == p.cmd = "DATA"
           confirm == data /\ p.confirm
       IN  /\ modem' = [todo |-> modem.todo \cup
                           (IF data /\ p.type = "call" THEN {<<p.ept, p.xid>>} ELSE {}),
                        rcv |-> IF confirm THEN 0
                                ELSE IF data THEN modem.rcv + 1 ELSE modem.rcv]
           /\ inq' = IF confirm THEN Append(inq, RESUME_TX) ELSE inq
    /\ outq' = Tail(outq)
    /\ UNCHANGED <<link>> /\ ModemUnchanged

\* It asks for a confirmation with its replies, and not with its calls.
ModemAnswers ==
    /\ link = "up"
    /\ \E c \in modem.todo :
          /\ modem' = [modem EXCEPT !.todo = @ \ {c}]
          /\ inq' = Append(inq, Data(c[1], "reply", c[2], TRUE))
    /\ UNCHANGED <<link, outq>> /\ ModemUnchanged

ModemCalls ==
    /\ link = "up"
    /\ \E x \in Xids : NewXid(x) /\ inq' = Append(inq, Data(Server, "call", x, FALSE))
    /\ UNCHANGED <<link, outq, modem>> /\ ModemUnchanged

ModemResets ==
    /\ link = "up"
    /\ Calm => work # NEW_SERVER /\ \A i \in DOMAIN inq : inq[i] # NEW_SERVER
    /\ link' = "closed"
    /\ inq' = <<>> /\ outq' = <<>>
    /\ modem' = [todo |-> {}, rcv |-> 0]
    /\ ModemUnchanged

\* SUBSYS_BEFORE_POWERUP has waited for xprt_close_worker.
ModemStarts ==
    /\ link = "down"
    /\ Calm => \A e \in Epts : th[e].pc \notin {"quota", "send"}
    /\ link' = "up"
    /\ inq' = <<HELLO, NEW_SERVER>>
    /\ UNCHANGED <<outq, modem>> /\ ModemUnchanged

-----------------------------------------------------------------------------
Init ==
    /\ th = [e \in Epts |-> Idle]
    /\ restart = [e \in Epts |-> RESTART_NORMAL]
    /\ read_q = [e \in Epts |-> <<>>]
    /\ readLock = [e \in Epts |-> FALSE]
    /\ reply = [pend |-> {}, lock |-> FALSE, avail |-> 0, cnt |-> 0]
    /\ r = [tx_quota_cntr |-> 0, abort |-> FALSE]
    /\ link = "up" /\ known = TRUE
    /\ inq = <<>> /\ outq = <<>> /\ work = Nothing
    /\ modem = [todo |-> {}, rcv |-> 0]
    /\ missed = {}

Write(e) == WaitForRestart(e, "w_restart", "quota") \/ TakeQuota(e) \/ Send(e)

Read(e) ==
    \/ WaitForRestart(e, "r_restart", "wait") \/ ReadWait(e)
    \/ ReadAgain(e) \/ ReadTake(e) \/ ReadRelease(e)

Thread(e) == Write(e) \/ Read(e)
Serve == ServerReads \/ ReadTag \/ ReplyStart
Work == WorkRead \/ WorkHello \/ WorkResume \/ WorkNewServer \/ WorkData
Cleanup == CleanupLocal \/ CleanupRemote \/ RemoveXprt
ModemRuns == ModemTakes \/ ModemAnswers

Next ==
    \/ \E e \in Epts : Thread(e) \/ WriteInterrupted(e) \/ ReadGivesUp(e)
    \/ \E e \in Clients : CallStart(e)
    \/ Serve \/ Work \/ Cleanup
    \/ ModemRuns \/ ModemCalls \/ ModemResets \/ ModemStarts

Spec == Init /\ [][Next]_vars

\* Threads and work queues run; the modem answers calls and comes back up.  No
\* thread loses every race for the quota, or for room in the FIFO.
Fairness ==
    /\ \A e \in Epts : /\ WF_vars(Thread(e)) /\ SF_vars(Send(e))
                       /\ SF_vars(TakeQuota(e) /\ th'[e].pc = "send")
    /\ WF_vars(Serve) /\ WF_vars(Work) /\ SF_vars(WorkData) /\ WF_vars(Cleanup)
    /\ WF_vars(ModemTakes) /\ WF_vars(ModemAnswers) /\ WF_vars(ModemStarts)

FairSpec == Spec /\ Fairness

-----------------------------------------------------------------------------
TypeOK ==
    /\ \A e \in Epts :
          /\ th[e].pc \in {"idle", "w_restart", "quota", "send", "r_restart", "wait",
                           "take", "tag", "got", "other", "called", "dropped", "serve"}
          /\ th[e].xid \in Xids \cup {0}
          /\ restart[e] \subseteq {NTFY, SVR}
          /\ readLock[e] \in BOOLEAN
    /\ reply.pend \subseteq Xids /\ reply.lock \in BOOLEAN
    /\ reply.avail + Cardinality(reply.pend) <= reply.cnt
    /\ reply.cnt \in 0..RPCROUTER_PEND_REPLIES_MAX
    /\ r.tx_quota_cntr \in Nat /\ r.abort \in BOOLEAN
    /\ link \in {"up", "closed", "local", "remote", "down"}
    /\ Len(outq) <= Room
    /\ missed \subseteq Clients

(***************************************************************************)
(* smd_rpcrouter.h:64: "The client notification is used to ensure that the *)
(* client gets notified by an ENETRESET return code at least once, even if *)
(* they miss the actual reset event."  Until it was, the bit that keeps    *)
(* every call on the endpoint from succeeding is set.                      *)
(***************************************************************************)
NotifiedOnce == \A e \in missed : NTFY \in restart[e]

(***************************************************************************)
(* Flow control cannot stop for good: when the quota is used up and the    *)
(* modem is up, the packet that asks for a confirmation, or the RESUME_TX  *)
(* that answers it, is on its way (or NEW_SERVER is, which resets the      *)
(* quota after a restart).                                                 *)
(***************************************************************************)
ConfirmOnItsWay ==
    r.tx_quota_cntr = Quota /\ ~ r.abort /\ link = "up" =>
        \/ \E e \in Epts : th[e].pc = "send" /\ th[e].confirm
        \/ \E i \in DOMAIN outq : outq[i].cmd = "DATA" /\ outq[i].confirm
        \/ \E i \in DOMAIN inq : inq[i] = RESUME_TX
        \/ work = RESUME_TX

(***************************************************************************)
(* What the modem has to buffer is bounded: packets that it has not been   *)
(* asked to confirm exceed the quota at most by one for each other thread, *)
(* which may have taken its quota before the last confirmation.            *)
(***************************************************************************)
QuotaBounds == modem.rcv < Quota + Cardinality(Epts) - 1

(***************************************************************************)
(* The phone stays awake while something is left to do: a wake lock is     *)
(* held while packets are queued, and without a gap from then until the    *)
(* reply to a call has been written ("release read wakelock after taking   *)
(* reply wakelock", "release wakelock after writing to the transport").    *)
(***************************************************************************)
AwakeWhileOwed ==
    /\ \A e \in Epts : read_q[e] # <<>> => readLock[e]
    /\ reply.pend # {} => reply.lock
    /\ th[Server].pc \in {"tag", "called", "serve", "w_restart", "quota", "send"}
          => readLock[Server] \/ reply.lock

(***************************************************************************)
(* Every call of a client returns, whatever resets happen: no wake-up of   *)
(* the three wait queues is lost, and no thread waits for a server or for  *)
(* quota that does not come back.                                          *)
(***************************************************************************)
CallsReturn == \A e \in Clients : (th[e] # Idle) ~> (th[e] = Idle)
=============================================================================
