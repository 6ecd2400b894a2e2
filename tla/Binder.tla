------------------------------- MODULE Binder -------------------------------
(***************************************************************************)
(* Reference counts in drivers/staging/android/binder.c.  An object of one *)
(* process, the owner, is a node in the driver; other processes have refs  *)
(* (handles) to it.  The driver tells the owner with BR_INCREFS,           *)
(* BR_ACQUIRE, BR_RELEASE and BR_DECREFS to keep the object for them, and  *)
(* the owner's threads read and handle these commands concurrently.        *)
(*                                                                         *)
(* One object is followed, with everything in the driver that counts it:   *)
(* refs, objects and targets in unfreed transaction buffers, and commands  *)
(* that are not acknowledged yet.  Every operation runs under binder_lock  *)
(* and is one step.  What the owner's threads do with the object is        *)
(* modelled as far as the protocol needs it: a thread keeps an object that *)
(* it has sent until it has handled BR_TRANSACTION_COMPLETE.               *)
(***************************************************************************)
EXTENDS Integers, FiniteSets, SequencesExt

CONSTANTS
    Clients,     \* processes with handles
    Threads,     \* threads of the owner
    MaxUser,     \* bound on references that clients take with commands, and
                 \* notifications they ask for
    MaxBuffers,  \* bound on unfreed buffers with the object
    MaxRead,     \* bound on commands that a thread has read and not handled
    Steals       \* may a send fail after it moved the node's work away from the
                 \* list of another thread that sends the object?

ASSUME BinderAssumption ==
    /\ IsFiniteSet(Clients) /\ "proc" \notin Threads /\ "NULL" \notin Threads
    /\ MaxUser \in Nat /\ MaxBuffers \in Nat /\ MaxRead \in Nat
    /\ Steals \in BOOLEAN

VARIABLES
    k,      \* the driver's node, refs, and the todo lists of the owner
    held,   \* client -> handles in its unfreed buffers, strong and weak
    obuf,   \* the same of the owner: BINDER objects, and targets
    used,   \* client -> references it has taken itself, strong and weak
    death,  \* client -> its death notification
    up,     \* the owner lives
    brs,    \* thread -> commands read and not handled yet
    parcel, \* thread -> what the object is in the transaction it sends
    own,    \* the owner has a strong reference of its own to the object
    user    \* references that the owner has taken for the driver

vars == <<k, held, obuf, used, death, up, brs, parcel, own, user>>
ownerVars == <<up, brs, parcel, own, user>>
clientVars == <<held, used, death>>

Lists == Threads \cup {"proc"}
Kinds == {"strong", "weak"}
None == [s \in Kinds |-> 0]

NoNode ==
    [there |-> FALSE, proc |-> FALSE, internal_strong_refs |-> 0,
     local_strong_refs |-> 0, local_weak_refs |-> 0,
     has_strong_ref |-> FALSE, pending_strong_ref |-> FALSE,
     has_weak_ref |-> FALSE, pending_weak_ref |-> FALSE]

NoRef == [there |-> FALSE, strong |-> 0, weak |-> 0]
NoDeath == [ref |-> "none", rest |-> "none"]

\* Of what all clients have, for the bounds
Total(f) == FoldFunction(LAMBDA x, y : x.strong + x.weak + y, 0, f)
Asked == Total(used) + Cardinality({c \in Clients : death[c] # NoDeath})
Buffers == Total(held) + obuf.strong + obuf.weak

\* node->refs of driver state s
Refs(s) == {c \in Clients : s.ref[c].there}

\* node->work.entry is on a list
Queued(s) == \E l \in Lists : \E i \in DOMAIN s.todo[l] : s.todo[l][i] = "node"

\* list_del_init(&node->work.entry)
Unqueued(todo) == [l \in Lists |-> RemoveFirst(todo[l], "node")]

Enqueue(todo, l) == [todo EXCEPT ![l] = Append(@, "node")]

-----------------------------------------------------------------------------
(* Counting, as functions from a state of the driver to the next.          *)

binder_new_node(s) == [s EXCEPT !.node = [NoNode EXCEPT !.there = TRUE, !.proc = TRUE]]

\* The cases that binder_inc_node refuses, an internal reference with no list
InvalidInc(s, strong) ==
    IF strong THEN s.node.internal_strong_refs = 0
    ELSE ~ s.node.has_weak_ref /\ ~ Queued(s)

\* The node with one reference more
Counted(n, strong, internal) ==
    CASE strong /\ internal -> [n EXCEPT !.internal_strong_refs = @ + 1]
      [] strong /\ ~ internal -> [n EXCEPT !.local_strong_refs = @ + 1]
      [] ~ strong /\ ~ internal -> [n EXCEPT !.local_weak_refs = @ + 1]
      [] OTHER -> n

\* Is the owner to be asked for a reference, through the thread that sends
\* the object?
MustAsk(s, strong, list) ==
    /\ list # "NULL"
    /\ IF strong THEN ~ s.node.has_strong_ref ELSE ~ s.node.has_weak_ref /\ ~ Queued(s)

\* Mutant of binder_inc_node: work that is on a list already is left there
IncNodeNoMove(s, strong, internal, list) ==
    [s EXCEPT !.node = Counted(@, strong, internal),
              !.todo = IF MustAsk(s, strong, list) /\ ~ Queued(s)
                       THEN Enqueue(@, list) ELSE @]

\* Mutant of binder_inc_node: it is put on a second list
IncNodeNoDel(s, strong, internal, list) ==
    [s EXCEPT !.node = Counted(@, strong, internal),
              !.todo = IF MustAsk(s, strong, list) THEN Enqueue(@, list) ELSE @]

\* list is the todo list of the thread that sends the object, or "NULL"
binder_inc_node(s, strong, internal, list) ==
    [s EXCEPT !.node = Counted(@, strong, internal),
              !.todo = IF MustAsk(s, strong, list)
                       THEN Enqueue(Unqueued(@), list) ELSE @]

\* The node without one of its references
Uncounted(n, strong, internal) ==
    CASE strong /\ internal -> [n EXCEPT !.internal_strong_refs = @ - 1]
      [] strong /\ ~ internal -> [n EXCEPT !.local_strong_refs = @ - 1]
      [] ~ strong /\ ~ internal -> [n EXCEPT !.local_weak_refs = @ - 1]
      [] OTHER -> n

\* Mutant of LastGone: the owner is told only of the strong reference
LastGoneUntold(s) ==
    LET n == s.node
    IN  CASE n.proc /\ (n.has_strong_ref \/ n.has_weak_ref) ->
                 IF Queued(s) \/ ~ n.has_strong_ref THEN s ELSE [s EXCEPT !.todo = Enqueue(@, "proc")]
          [] ~ (n.proc /\ (n.has_strong_ref \/ n.has_weak_ref))
             /\ Refs(s) = {} /\ n.local_strong_refs = 0 /\ n.local_weak_refs = 0 ->
                 [s EXCEPT !.node = NoNode, !.todo = Unqueued(@)]
          [] OTHER -> s

\* What binder_dec_node does when the last reference of its kind is gone:
\* the owner is to be told, or the node is deleted if nothing else is left
LastGone(s) ==
    LET n == s.node
    IN  CASE n.proc /\ (n.has_strong_ref \/ n.has_weak_ref) ->
                 IF Queued(s) THEN s ELSE [s EXCEPT !.todo = Enqueue(@, "proc")]
          [] ~ (n.proc /\ (n.has_strong_ref \/ n.has_weak_ref))
             /\ Refs(s) = {} /\ n.local_strong_refs = 0 /\ n.local_weak_refs = 0 ->
                 [s EXCEPT !.node = NoNode, !.todo = Unqueued(@)]
          [] OTHER -> s

binder_dec_node(s, strong, internal) ==
    LET n == Uncounted(s.node, strong, internal)
        t == [s EXCEPT !.node = n]
        left == IF strong THEN n.local_strong_refs > 0 \/ n.internal_strong_refs > 0
                ELSE n.local_weak_refs > 0 \/ Refs(s) # {}
    IN  IF left THEN t ELSE LastGone(t)

binder_get_ref_for_node(s, c) == [s EXCEPT !.ref[c].there = TRUE]

\* Without a death notification, which is the caller's
binder_delete_ref(s, c) ==
    LET t == IF s.ref[c].strong > 0 THEN binder_dec_node(s, TRUE, TRUE) ELSE s
    IN  binder_dec_node([t EXCEPT !.ref[c] = NoRef], FALSE, TRUE)

binder_inc_ref(s, c, strong, list) ==
    LET first == IF strong THEN s.ref[c].strong = 0 ELSE s.ref[c].weak = 0
        t == IF first THEN binder_inc_node(s, strong, TRUE, list) ELSE s
    IN  IF first /\ list = "NULL" /\ InvalidInc(s, strong) THEN s
        ELSE IF strong THEN [t EXCEPT !.ref[c].strong = @ + 1]
        ELSE [t EXCEPT !.ref[c].weak = @ + 1]

\* Mutant of binder_dec_ref: every release of a handle counts at the node
DecRefEach(s, c, strong) ==
    LET t == IF strong
             THEN binder_dec_node([s EXCEPT !.ref[c].strong = @ - 1], TRUE, TRUE)
             ELSE [s EXCEPT !.ref[c].weak = @ - 1]
    IN  IF (IF strong THEN s.ref[c].strong ELSE s.ref[c].weak) = 0 THEN s
        ELSE IF t.ref[c].strong = 0 /\ t.ref[c].weak = 0 THEN binder_delete_ref(t, c)
        ELSE t

binder_dec_ref(s, c, strong) ==
    LET d == IF strong THEN [s EXCEPT !.ref[c].strong = @ - 1]
             ELSE [s EXCEPT !.ref[c].weak = @ - 1]
        t == IF strong /\ d.ref[c].strong = 0 THEN binder_dec_node(d, TRUE, TRUE) ELSE d
    IN  IF (IF strong THEN s.ref[c].strong ELSE s.ref[c].weak) = 0 THEN s
        ELSE IF t.ref[c].strong = 0 /\ t.ref[c].weak = 0 THEN binder_delete_ref(t, c)
        ELSE t

\* The death notification of c goes with its ref.
DeathOf(s, c) ==
    death' = IF s.ref[c].there THEN death ELSE [death EXCEPT ![c].ref = "none"]

-----------------------------------------------------------------------------
(* The owner sends the object: binder_transaction, BINDER_TYPE_BINDER or   *)
(* BINDER_TYPE_WEAK_BINDER.                                                *)

Alive == own \/ user.strong > 0 \/ \E t \in Threads : parcel[t] = "strong"

\* The driver with a handle to the object counted for c
Handed(s, c, kind, list) ==
    binder_inc_ref(binder_get_ref_for_node(s, c), c, kind = "strong", list)

SendBinder(t, c, kind) ==
    /\ up /\ Alive /\ parcel[t] = "none"
    /\ Buffers < MaxBuffers
    /\ LET s == Handed(IF k.node.there THEN k ELSE binder_new_node(k), c, kind, t)
       IN  k' = [s EXCEPT !.todo[t] = Append(@, "complete")]
    /\ held' = [held EXCEPT ![c][kind] = @ + 1]
    /\ parcel' = [parcel EXCEPT ![t] = kind]
    /\ UNCHANGED <<obuf, used, death, up, brs, own, user>>

\* A later object of the transaction is refused: what was counted is released.
SendFails(t, c, kind) ==
    /\ up /\ Alive /\ parcel[t] = "none"
    /\ Steals \/ \A u \in Threads \ {t} : \A i \in DOMAIN k.todo[u] : k.todo[u][i] # "node"
    /\ LET s == Handed(IF k.node.there THEN k ELSE binder_new_node(k), c, kind, t)
       IN  k' = binder_dec_ref(s, c, kind = "strong")
    /\ UNCHANGED <<obuf, clientVars, ownerVars>>

-----------------------------------------------------------------------------
(* Commands of a client, binder_thread_write.  It releases what it took.   *)

BC_ACQUIRE(c) ==
    /\ k.ref[c].there /\ Asked < MaxUser
    /\ k' = binder_inc_ref(k, c, TRUE, "NULL")
    /\ used' = IF k' = k THEN used ELSE [used EXCEPT ![c].strong = @ + 1]
    /\ UNCHANGED <<obuf, held, death, ownerVars>>

BC_INCREFS(c) ==
    /\ k.ref[c].there /\ Asked < MaxUser
    /\ k' = binder_inc_ref(k, c, FALSE, "NULL")
    /\ used' = IF k' = k THEN used ELSE [used EXCEPT ![c].weak = @ + 1]
    /\ UNCHANGED <<obuf, held, death, ownerVars>>

\* BC_RELEASE and BC_DECREFS
BC_RELEASE(c, kind) ==
    /\ used[c][kind] > 0
    /\ used' = [used EXCEPT ![c][kind] = @ - 1]
    /\ k' = binder_dec_ref(k, c, kind = "strong")
    /\ DeathOf(k', c)
    /\ UNCHANGED <<obuf, held, ownerVars>>

\* BC_FREE_BUFFER, binder_transaction_buffer_release of a handle
FreeBuffer(c, kind) ==
    /\ held[c][kind] > 0
    /\ held' = [held EXCEPT ![c][kind] = @ - 1]
    /\ k' = binder_dec_ref(k, c, kind = "strong")
    /\ DeathOf(k', c)
    /\ UNCHANGED <<obuf, used, ownerVars>>

\* A handle goes to another client, no stronger than the sender's.
SendHandle(c, d, kind) ==
    /\ c # d /\ k.ref[c].there
    /\ kind = "strong" => k.ref[c].strong > 0
    /\ Buffers < MaxBuffers
    /\ k' = Handed(k, d, kind, "NULL")
    /\ held' = [held EXCEPT ![d][kind] = @ + 1]
    /\ UNCHANGED <<obuf, used, death, ownerVars>>

\* A transaction to the object, or one with its handle, goes to the owner.
Transact(c, kind) ==
    /\ up /\ k.ref[c].there
    /\ kind = "strong" => k.ref[c].strong > 0
    /\ Buffers < MaxBuffers
    /\ k' = binder_inc_node(k, kind = "strong", FALSE, "NULL")
    /\ obuf' = [obuf EXCEPT ![kind] = @ + 1]
    /\ UNCHANGED <<clientVars, ownerVars>>

\* Mutant of BC_REQUEST_DEATH_NOTIFICATION: the owner is taken to be alive
RequestAssumesAlive(c) ==
    /\ k.ref[c].there /\ death[c] = NoDeath /\ Asked < MaxUser
    /\ death' = [death EXCEPT ![c].ref = "set"]
    /\ UNCHANGED <<k, obuf, held, used, ownerVars>>

BC_REQUEST_DEATH_NOTIFICATION(c) ==
    /\ k.ref[c].there /\ death[c] = NoDeath /\ Asked < MaxUser
    /\ death' = [death EXCEPT ![c].ref = IF k.node.proc THEN "set" ELSE "todo"]
    /\ UNCHANGED <<k, obuf, held, used, ownerVars>>

\* The notification leaves the ref, and is acknowledged once it has nothing
\* to report any more.
BC_CLEAR_DEATH_NOTIFICATION(c) ==
    /\ k.ref[c].there /\ death[c].ref # "none"
    /\ death' = [death EXCEPT ![c] =
         [ref |-> "none", rest |-> CASE @.ref \in {"set", "told"} -> "clear"
                                     [] @.ref = "todo" -> "dead_and_clear"
                                     [] @.ref = "delivered" -> "delivered_and_clear"]]
    /\ UNCHANGED <<k, obuf, held, used, ownerVars>>

\* binder_thread_read of BINDER_WORK_DEAD_BINDER, DEAD_BINDER_AND_CLEAR and
\* CLEAR_DEATH_NOTIFICATION
ReadDeath(c) ==
    /\ \/ /\ death[c].ref = "todo"
          /\ death' = [death EXCEPT ![c].ref = "delivered"]
       \/ /\ death[c].rest = "dead_and_clear"
          /\ death' = [death EXCEPT ![c].rest = "delivered_and_clear"]
       \/ /\ death[c].rest = "clear"
          /\ death' = [death EXCEPT ![c].rest = "none"]
    /\ UNCHANGED <<k, obuf, held, used, ownerVars>>

BC_DEAD_BINDER_DONE(c) ==
    /\ \/ /\ death[c].ref = "delivered"
          /\ death' = [death EXCEPT ![c].ref = "told"]
       \/ /\ death[c].rest = "delivered_and_clear"
          /\ death' = [death EXCEPT ![c].rest = "clear"]
    /\ UNCHANGED <<k, obuf, held, used, ownerVars>>

\* binder_deferred_release of a client
ClientDies(c) ==
    /\ k.ref[c].there \/ death[c] # NoDeath \/ held[c] # None
    /\ k' = IF k.ref[c].there THEN binder_delete_ref(k, c) ELSE k
    /\ held' = [held EXCEPT ![c] = None]
    /\ used' = [used EXCEPT ![c] = None]
    /\ death' = [death EXCEPT ![c] = NoDeath]
    /\ UNCHANGED <<obuf, ownerVars>>

-----------------------------------------------------------------------------
(* The owner's threads, binder_thread_read and binder_thread_write.        *)

\* The list that thread t reads from
Work(t) == IF k.todo[t] # <<>> THEN t ELSE "proc"

Reads(t, br) ==
    /\ Len(brs[t]) < MaxRead
    /\ brs' = [brs EXCEPT ![t] = Append(@, br)]

ReadComplete(t) ==
    /\ k.todo[t] # <<>> /\ Head(k.todo[t]) = "complete"
    /\ Reads(t, "BR_TRANSACTION_COMPLETE")
    /\ k' = [k EXCEPT !.todo[t] = Tail(@)]
    /\ UNCHANGED <<obuf, clientVars, up, parcel, own, user>>

\* BINDER_WORK_NODE: the command for the owner, and the node after it.  One
\* that asks for a reference counts as a local one until it is acknowledged.
NodeCommand(n, strong, weak) ==
    IF weak /\ ~ n.has_weak_ref THEN
        [br |-> "BR_INCREFS", node |-> [n EXCEPT !.has_weak_ref = TRUE,
            !.pending_weak_ref = TRUE, !.local_weak_refs = @ + 1]]
    ELSE IF strong /\ ~ n.has_strong_ref THEN
        [br |-> "BR_ACQUIRE", node |-> [n EXCEPT !.has_strong_ref = TRUE,
            !.pending_strong_ref = TRUE, !.local_strong_refs = @ + 1]]
    ELSE IF ~ strong /\ n.has_strong_ref THEN
        [br |-> "BR_RELEASE", node |-> [n EXCEPT !.has_strong_ref = FALSE]]
    ELSE IF ~ weak /\ n.has_weak_ref THEN
        [br |-> "BR_DECREFS", node |-> [n EXCEPT !.has_weak_ref = FALSE]]
    ELSE [br |-> "BR_NOOP", node |-> n]

\* One turn of the loop; after a command the work stays first on its list,
\* where the next turn, or the next read if the buffer is full, finds it.
ReadNode(t) ==
    LET l == Work(t)
        n == k.node
        strong == n.internal_strong_refs > 0 \/ n.local_strong_refs > 0
        weak == Refs(k) # {} \/ n.local_weak_refs > 0 \/ strong
        c == NodeCommand(n, strong, weak)
    IN  /\ k.todo[l] # <<>> /\ Head(k.todo[l]) = "node"
        /\ \/ /\ c.br # "BR_NOOP"
              /\ Reads(t, c.br)
              /\ k' = [k EXCEPT !.node = c.node]
           \/ /\ c.br = "BR_NOOP"
              /\ k' = [k EXCEPT !.todo[l] = Tail(@),
                                !.node = IF weak \/ strong THEN @ ELSE NoNode]
              /\ UNCHANGED brs
        /\ UNCHANGED <<obuf, clientVars, up, parcel, own, user>>

\* BC_ACQUIRE_DONE and BC_INCREFS_DONE
Done(s, strong) ==
    CASE strong /\ s.node.pending_strong_ref ->
           binder_dec_node([s EXCEPT !.node.pending_strong_ref = FALSE], TRUE, FALSE)
      [] ~ strong /\ s.node.pending_weak_ref ->
           binder_dec_node([s EXCEPT !.node.pending_weak_ref = FALSE], FALSE, FALSE)
      [] OTHER -> s

Handle(t) ==
    LET br == Head(brs[t])
    IN  /\ brs[t] # <<>>
        /\ brs' = [brs EXCEPT ![t] = Tail(@)]
        /\ user' = CASE br = "BR_ACQUIRE" -> [user EXCEPT !.strong = @ + 1]
                     [] br = "BR_RELEASE" -> [user EXCEPT !.strong = @ - 1]
                     [] br = "BR_INCREFS" -> [user EXCEPT !.weak = @ + 1]
                     [] br = "BR_DECREFS" -> [user EXCEPT !.weak = @ - 1]
                     [] OTHER -> user
        /\ parcel' = IF br = "BR_TRANSACTION_COMPLETE"
                     THEN [parcel EXCEPT ![t] = "none"] ELSE parcel
        /\ k' = CASE br = "BR_ACQUIRE" -> Done(k, TRUE)
                  [] br = "BR_INCREFS" -> Done(k, FALSE)
                  [] OTHER -> k
        /\ UNCHANGED <<obuf, clientVars, up, own>>

\* BC_FREE_BUFFER of the owner: a target or a BINDER object.  The object may
\* have been kept.
OwnerFrees(kind) ==
    /\ up /\ obuf[kind] > 0
    /\ obuf' = [obuf EXCEPT ![kind] = @ - 1]
    /\ k' = binder_dec_node(k, kind = "strong", FALSE)
    /\ own' \in {own, own \/ kind = "strong"}
    /\ UNCHANGED <<clientVars, up, brs, parcel, user>>

OwnerDrops ==
    /\ own
    /\ own' = FALSE
    /\ UNCHANGED <<k, obuf, clientVars, up, brs, parcel, user>>

OwnerReset ==
    /\ brs' = [t \in Threads |-> <<>>]
    /\ parcel' = [t \in Threads |-> "none"]
    /\ user' = None
    /\ obuf' = None

\* binder_deferred_release of the owner: threads with their lists, the node,
\* the death notifications of its refs, buffers
OwnerDies ==
    /\ up /\ up' = FALSE
    /\ k' = [node |-> IF Refs(k) = {} THEN NoNode
                      ELSE [k.node EXCEPT !.proc = FALSE, !.local_strong_refs = 0,
                                          !.local_weak_refs = 0],
             ref |-> k.ref, todo |-> [l \in Lists |-> <<>>]]
    /\ death' = [c \in Clients |->
                   IF death[c].ref = "set" THEN [death[c] EXCEPT !.ref = "todo"]
                   ELSE death[c]]
    /\ own' = FALSE
    /\ OwnerReset
    /\ UNCHANGED <<held, used>>

\* Another object, of this process or a new one, once this one is forgotten
NewObject ==
    /\ ~ k.node.there /\ ~ Alive /\ held = [c \in Clients |-> None]
    /\ up => /\ user = None /\ \A t \in Threads : brs[t] = <<>> /\ parcel[t] = "none"
             /\ k.todo = [l \in Lists |-> <<>>]
    /\ up' = TRUE /\ own' = TRUE
    /\ OwnerReset
    /\ UNCHANGED <<k, clientVars>>

-----------------------------------------------------------------------------
Init ==
    /\ k = [node |-> NoNode, ref |-> [c \in Clients |-> NoRef],
            todo |-> [l \in Lists |-> <<>>]]
    /\ held = [c \in Clients |-> None] /\ used = [c \in Clients |-> None]
    /\ death = [c \in Clients |-> NoDeath]
    /\ obuf = None
    /\ up = TRUE /\ own = TRUE /\ user = None
    /\ brs = [t \in Threads |-> <<>>] /\ parcel = [t \in Threads |-> "none"]

Client(c) ==
    \/ BC_ACQUIRE(c) \/ BC_INCREFS(c)
    \/ \E kind \in Kinds : BC_RELEASE(c, kind) \/ FreeBuffer(c, kind) \/ Transact(c, kind)
    \/ \E d \in Clients, kind \in Kinds : SendHandle(c, d, kind)
    \/ BC_REQUEST_DEATH_NOTIFICATION(c) \/ BC_CLEAR_DEATH_NOTIFICATION(c)
    \/ ReadDeath(c) \/ BC_DEAD_BINDER_DONE(c) \/ ClientDies(c)

Owner(t) == ReadComplete(t) \/ ReadNode(t) \/ Handle(t)

Next ==
    \/ \E c \in Clients : Client(c)
    \/ \E t \in Threads : Owner(t)
    \/ \E t \in Threads, c \in Clients, kind \in Kinds :
          SendBinder(t, c, kind) \/ SendFails(t, c, kind)
    \/ \E kind \in Kinds : OwnerFrees(kind)
    \/ OwnerDrops \/ OwnerDies \/ NewObject

Spec == Init /\ [][Next]_vars

\* The owner's threads read commands, and handle what they have read.
Fairness ==
    \A t \in Threads : WF_vars(Handle(t)) /\ WF_vars(ReadNode(t) \/ ReadComplete(t))

FairSpec == Spec /\ Fairness

-----------------------------------------------------------------------------
TypeOK ==
    /\ \A f \in {"internal_strong_refs", "local_strong_refs", "local_weak_refs"} :
          k.node[f] \in Nat
    /\ \A c \in Clients : k.ref[c] \in [there : BOOLEAN, strong : Nat, weak : Nat]
    /\ \A l \in Lists : k.todo[l] \in Seq({"node", "complete"})
    /\ Cardinality({l \in Lists : \E i \in DOMAIN k.todo[l] : k.todo[l][i] = "node"}) <= 1
    /\ \A c \in Clients :
          /\ death[c].ref \in {"none", "set", "todo", "delivered", "told"}
          /\ death[c].rest \in {"none", "clear", "dead_and_clear", "delivered_and_clear"}
    /\ user \in [Kinds -> Int]

\* Numbers, from a condition
One(b) == IF b THEN 1 ELSE 0

(***************************************************************************)
(* The counts are those of what there is to count, whatever fails or dies: *)
(* a ref those of its process's buffers and commands, the node those of    *)
(* its refs, its owner's buffers and unacknowledged commands.  Only weak   *)
(* handles to a node whose owner died before it read BR_INCREFS go         *)
(* uncounted: binder_inc_node refuses them and the transaction goes on.    *)
(***************************************************************************)
CountsMatch ==
    /\ \A c \in Clients :
          LET weak == held[c].weak + used[c].weak
          IN  /\ k.ref[c].strong = held[c].strong + used[c].strong
              /\ k.ref[c].there => k.node.there
              /\ k.node.proc \/ k.node.has_weak_ref =>
                    /\ k.ref[c].weak = weak
                    /\ k.ref[c].there => k.ref[c].strong + weak > 0
              /\ k.ref[c].weak <= weak
    /\ k.node.internal_strong_refs = Cardinality({c \in Clients : k.ref[c].strong > 0})
    /\ k.node.local_strong_refs = obuf.strong + One(k.node.proc /\ k.node.pending_strong_ref)
    /\ k.node.local_weak_refs = obuf.weak + One(k.node.proc /\ k.node.pending_weak_ref)

(***************************************************************************)
(* The object outlives the handles: while another process has a strong     *)
(* reference, or the owner an unfreed transaction to the object, the owner *)
(* keeps it, in whichever order its threads handle commands and drop the   *)
(* references of their own.                                                *)
(***************************************************************************)
ObjectKept ==
    /\ up /\ (k.node.internal_strong_refs > 0 \/ k.node.local_strong_refs > 0) => Alive
    /\ user.strong >= 0 /\ user.weak >= 0

(***************************************************************************)
(* Somebody who asked for it is told of the owner's death: a notification  *)
(* is on a list, or was, exactly if the owner is dead (else the BUG() in   *)
(* binder_deferred_release is reached, or the notification is lost).       *)
(***************************************************************************)
DeathTold ==
    \A c \in Clients :
        /\ death[c].ref = "set" => k.ref[c].there /\ k.node.proc
        /\ death[c].ref \in {"todo", "delivered", "told"} => k.ref[c].there /\ ~ k.node.proc

Unwanted == up /\ Refs(k) = {} /\ obuf = None

(***************************************************************************)
(* Nothing is kept for ever: once no process has a handle and no buffer    *)
(* the object, the owner is told to give up the references it took for the *)
(* driver, and the node is deleted.                                        *)
(***************************************************************************)
ReleaseReaches == Unwanted ~> (~ Unwanted \/ (user = None /\ ~ k.node.there))
=============================================================================
