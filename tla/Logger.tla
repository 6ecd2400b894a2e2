------------------------------- MODULE Logger -------------------------------
(***************************************************************************)
(* One log of drivers/staging/android/logger.c: a ring buffer that writers *)
(* overwrite without ever waiting for readers.  Each reader keeps an       *)
(* offset r_off, and new readers start at head; a writer that is about to  *)
(* lap them pulls them forward first.                                      *)
(*                                                                         *)
(* The buffer is modelled byte by byte, because offsets are: a byte is the *)
(* pair <<id, k>>, the k-th byte of entry number id.  The first two bytes  *)
(* of an entry are the length field, the rest of the header and the        *)
(* payload are not looked at by the driver.                                *)
(***************************************************************************)
EXTENDS Integers, Sequences, FiniteSets

CONSTANTS
    Writers, Readers,   \* open files, for writing and for reading
    Size,               \* log->size
    Header,             \* sizeof(struct logger_entry)
    Lengths,            \* header.len plus Header, of the entries written
    MaxWrites,          \* bound on the number of writes
    Faults              \* copying from user space fails "never", at "any" time, or
                        \* only where orig is "fresh", read after the last write

Free == "free"      \* no writer has the mutex

MaxLen == CHOOSE n \in Lengths : \A m \in Lengths : m <= n

\* A power of two above LOGGER_ENTRY_MAX_LEN = 4096 is at least twice that.
ASSUME LoggerAssumption ==
    /\ Free \notin Writers
    /\ Header \in Nat /\ Header >= 2
    /\ Lengths \subseteq Nat /\ Lengths # {} /\ \A n \in Lengths : n > Header
    /\ Size \in Nat /\ \A n \in Lengths : 2 * n <= Size
    /\ MaxWrites \in Nat
    /\ Faults \in {"never", "fresh", "any"}

VARIABLES
    buffer,   \* offset -> byte
    w_off, head,
    r_off,    \* reader -> offset, Closed if the file is not open
    mutex,    \* the writer that holds log->mutex, or Free
    wpc,      \* where each writer is in logger_aio_write
    orig,     \* its local of that name
    ret,      \* payload bytes it has written
    need,     \* Header + header.len
    cur,      \* number of its write, given when it gets the mutex
    rpc,      \* where each reader is in logger_read
    task,     \* its task state
    len,      \* entry number -> total length of the entry
    count,    \* entries begun
    last      \* reader -> number of the last write it has read

logVars == <<buffer, w_off, head, len>>
writerVars == <<mutex, wpc, orig, ret, need, cur, count>>
readerVars == <<r_off, rpc, task, last>>
vars == <<logVars, writerVars, readerVars>>

Closed == -1
Blank == <<0, 0>>

Offsets == 0..(Size - 1)
Open == {r \in Readers : r_off[r] # Closed}

logger_offset(n) == n % Size

\* Bytes 0 and 1 of a header, possibly around the end of the buffer.  Bytes
\* that are no header stand for some length; LogIntact says they are not met.
get_entry_len(b, off) ==
    LET i == b[off][1]
    IN  IF i > 0 /\ b[off] = <<i, 0>> /\ b[logger_offset(off + 1)] = <<i, 1>>
        THEN len[i] ELSE Header

-----------------------------------------------------------------------------
(* The writer: logger_aio_write. *)

\* The loop goes on, from c bytes behind off, to the first end of an entry that
\* is at least n bytes behind it.
get_next_entry(off, n) ==
    LET from[c \in 0..(n - 1)] ==
            LET to == c + get_entry_len(buffer, logger_offset(off + c))
            IN  IF to < n THEN from[to] ELSE logger_offset(off + to)
    IN  from[0]

\* Mutant of clock_interval: an interval around the end of the buffer is empty
IntervalNoWrap(a, b, c) == a < c /\ b >= c

clock_interval(a, b, c) ==
    IF b < a THEN a < c \/ b >= c ELSE a < c /\ b >= c

\* Where fix_up_readers leaves the offset off when n bytes are to be written
FixUp(off, n) ==
    IF clock_interval(w_off, logger_offset(w_off + n), off)
    THEN get_next_entry(off, n) ELSE off

\* Mutant of Store: the bytes are taken one further on
StoreShifted(b, off, id, k, n) ==
    [o \in Offsets |->
        LET d == logger_offset(o - off + Size)
        IN  IF d < n THEN <<id, k + d + 1>> ELSE b[o]]

\* n bytes of entry number id, from its byte k on, stored at offset off
Store(b, off, id, k, n) ==
    [o \in Offsets |->
        LET d == logger_offset(o - off + Size)
        IN  IF d < n THEN <<id, k + d>> ELSE b[o]]

\* The locals of a call that will not use them again
LocalsEnd(w) ==
    /\ orig' = [orig EXCEPT ![w] = 0]
    /\ ret' = [ret EXCEPT ![w] = 0]
    /\ need' = [need EXCEPT ![w] = MaxLen]
    /\ cur' = [cur EXCEPT ![w] = 0]

\* orig = log->w_off, before mutex_lock
WriteStart(w) ==
    /\ wpc[w] = "idle" /\ count < MaxWrites
    /\ orig' = [orig EXCEPT ![w] = w_off]
    /\ \E n \in Lengths : need' = [need EXCEPT ![w] = n]
    /\ wpc' = [wpc EXCEPT ![w] = "lock"]
    /\ UNCHANGED <<logVars, mutex, ret, cur, count, readerVars>>

\* mutex_lock, fix_up_readers and the header
WriteHeader(w) ==
    /\ wpc[w] = "lock" /\ mutex = Free /\ count < MaxWrites
    /\ mutex' = w
    /\ head' = FixUp(head, need[w])
    /\ r_off' = [r \in Readers |->
                   IF r \in Open THEN FixUp(r_off[r], need[w]) ELSE Closed]
    /\ count' = count + 1
    /\ cur' = [cur EXCEPT ![w] = count + 1]
    /\ len' = Append(len, need[w])
    /\ buffer' = Store(buffer, w_off, count + 1, 0, Header)
    /\ w_off' = logger_offset(w_off + Header)
    /\ ret' = [ret EXCEPT ![w] = 0]
    /\ wpc' = [wpc EXCEPT ![w] = "payload"]
    /\ UNCHANGED <<orig, need, rpc, task, last>>

\* do_write_log_from_user for one segment of the payload
WriteSegment(w) ==
    /\ wpc[w] = "payload"
    /\ \E n \in 1..(need[w] - Header - ret[w]) :
          /\ buffer' = Store(buffer, w_off, cur[w], Header + ret[w], n)
          /\ w_off' = logger_offset(w_off + n)
          /\ ret' = [ret EXCEPT ![w] = @ + n]
    /\ UNCHANGED <<head, len, mutex, wpc, orig, need, cur, count, readerVars>>

\* Whether the write of w may fault: at any time, or where orig is the offset
\* the entry was written at, nobody having written since orig was read
MayFault(w) ==
    \/ Faults = "any"
    \/ Faults = "fresh" /\ orig[w] = logger_offset(w_off - Header - ret[w] + Size)

\* copy_from_user fails, having stored n bytes of the segment or none
WriteFault(w) ==
    /\ MayFault(w) /\ wpc[w] = "payload"
    /\ Header + ret[w] < need[w]
    /\ \E n \in 0..(need[w] - Header - ret[w]) :
          buffer' = Store(buffer, w_off, cur[w], Header + ret[w], n)
    /\ w_off' = orig[w]
    /\ mutex' = Free
    /\ wpc' = [wpc EXCEPT ![w] = "idle"]
    /\ LocalsEnd(w)
    /\ UNCHANGED <<head, len, count, readerVars>>

WriteUnlock(w) ==
    /\ wpc[w] = "payload"
    /\ Header + ret[w] = need[w]
    /\ mutex' = Free
    /\ wpc' = [wpc EXCEPT ![w] = "wake"]
    /\ LocalsEnd(w)
    /\ UNCHANGED <<logVars, count, readerVars>>

\* Mutant of Waiting: the reader has left the queue before it sleeps
WaitingUntilCheck(r) == rpc[r] = "check"

\* wake_up_interruptible(&log->wq): readers that wait are on the queue
Waiting(r) == rpc[r] \in {"check", "schedule"}

WriteWake(w) ==
    /\ wpc[w] = "wake"
    /\ task' = [r \in Readers |-> IF Waiting(r) THEN "running" ELSE task[r]]
    /\ wpc' = [wpc EXCEPT ![w] = "idle"]
    /\ UNCHANGED <<logVars, mutex, orig, ret, need, cur, count, r_off, rpc, last>>

\* ioctl LOGGER_FLUSH_LOG
LOGGER_FLUSH_LOG(w) ==
    /\ wpc[w] = "idle" /\ mutex = Free
    /\ head' = w_off
    /\ r_off' = [r \in Readers |-> IF r \in Open THEN w_off ELSE Closed]
    /\ UNCHANGED <<buffer, w_off, len, writerVars, rpc, task, last>>

-----------------------------------------------------------------------------
(* The reader: logger_open, logger_read, logger_release. *)

logger_open(r) ==
    /\ r \notin Open /\ mutex = Free
    /\ r_off' = [r_off EXCEPT ![r] = head]
    /\ last' = [last EXCEPT ![r] = 0]
    /\ UNCHANGED <<logVars, writerVars, rpc, task>>

logger_release(r) ==
    /\ r \in Open /\ rpc[r] = "idle" /\ mutex = Free
    /\ r_off' = [r_off EXCEPT ![r] = Closed]
    /\ last' = [last EXCEPT ![r] = 0]
    /\ UNCHANGED <<logVars, writerVars, rpc, task>>

\* Moves reader r, with its task state
ReaderGoes(r, where, state) ==
    /\ rpc' = [rpc EXCEPT ![r] = where]
    /\ task' = [task EXCEPT ![r] = state]
    /\ UNCHANGED <<logVars, writerVars, r_off, last>>

ReadStart(r) ==
    r \in Open /\ rpc[r] = "idle" /\ ReaderGoes(r, "prepare", "running")

\* prepare_to_wait(&log->wq, &wait, TASK_INTERRUPTIBLE)
ReadPrepare(r) ==
    rpc[r] = "prepare" /\ ReaderGoes(r, "check", "interruptible")

\* w_off == r_off under the mutex.  An empty log ends a read with O_NONBLOCK
\* or a signal (ReadGivesUp), else the reader goes to sleep.
ReadCheck(r) ==
    /\ rpc[r] = "check" /\ mutex = Free
    /\ \/ w_off # r_off[r] /\ ReaderGoes(r, "read", "running")
       \/ w_off = r_off[r] /\ ReaderGoes(r, "schedule", task[r])

ReadGivesUp(r) ==
    /\ rpc[r] = "check" /\ mutex = Free /\ w_off = r_off[r]
    /\ ReaderGoes(r, "idle", "running")

\* schedule() returns once the task has been woken, or on a signal
ReadWoken(r) ==
    /\ rpc[r] = "schedule" /\ task[r] = "running"
    /\ ReaderGoes(r, "prepare", "running")

ReadSignal(r) ==
    /\ rpc[r] = "schedule" /\ task[r] = "interruptible"
    /\ ReaderGoes(r, "schedule", "running")

\* The log was emptied for this reader since the check: goto start
ReadRaced(r) ==
    /\ rpc[r] = "read" /\ mutex = Free /\ w_off = r_off[r]
    /\ ReaderGoes(r, "prepare", "running")

\* -EINVAL for a short buffer, -EFAULT from copy_to_user
ReadFails(r) ==
    /\ rpc[r] = "read" /\ mutex = Free /\ w_off # r_off[r]
    /\ ReaderGoes(r, "idle", "running")

\* Mutant of ReadEntry: r_off is not moved on
ReadAgain(r) ==
    /\ rpc[r] = "read" /\ mutex = Free /\ w_off # r_off[r]
    /\ last' = [last EXCEPT ![r] = buffer[r_off[r]][1]]
    /\ rpc' = [rpc EXCEPT ![r] = "idle"]
    /\ UNCHANGED <<logVars, writerVars, r_off, task>>

\* do_read_log_to_user
ReadEntry(r) ==
    /\ rpc[r] = "read" /\ mutex = Free /\ w_off # r_off[r]
    /\ r_off' = [r_off EXCEPT ![r] =
                    logger_offset(@ + get_entry_len(buffer, @))]
    /\ last' = [last EXCEPT ![r] = buffer[r_off[r]][1]]
    /\ rpc' = [rpc EXCEPT ![r] = "idle"]
    /\ UNCHANGED <<logVars, writerVars, task>>

-----------------------------------------------------------------------------
Init ==
    /\ buffer = [o \in Offsets |-> Blank]
    /\ w_off = 0 /\ head = 0
    /\ r_off = [r \in Readers |-> Closed]
    /\ mutex = Free
    /\ wpc = [w \in Writers |-> "idle"]
    /\ orig = [w \in Writers |-> 0]
    /\ ret = [w \in Writers |-> 0]
    /\ cur = [w \in Writers |-> 0]
    /\ need = [w \in Writers |-> MaxLen]
    /\ rpc = [r \in Readers |-> "idle"]
    /\ task = [r \in Readers |-> "running"]
    /\ len = <<>>
    /\ count = 0
    /\ last = [r \in Readers |-> 0]

Write(w) ==
    \/ WriteStart(w) \/ WriteHeader(w) \/ WriteSegment(w)
    \/ WriteFault(w) \/ WriteUnlock(w) \/ WriteWake(w)

\* The steps of logger_read that its caller cannot choose
Read(r) ==
    \/ ReadPrepare(r) \/ ReadCheck(r) \/ ReadWoken(r)
    \/ ReadRaced(r) \/ ReadEntry(r)

ReadChoice(r) ==
    \/ logger_open(r) \/ logger_release(r) \/ ReadStart(r)
    \/ ReadGivesUp(r) \/ ReadSignal(r) \/ ReadFails(r)

Next ==
    \/ \E w \in Writers : Write(w) \/ LOGGER_FLUSH_LOG(w)
    \/ \E r \in Readers : Read(r) \/ ReadChoice(r)

Spec == Init /\ [][Next]_vars

\* A thread that is inside the driver and can run does run.
Fairness ==
    /\ \A w \in Writers : WF_vars(Write(w) /\ wpc[w] # "idle")
    /\ \A r \in Readers : WF_vars(Read(r))

FairSpec == Spec /\ Fairness

-----------------------------------------------------------------------------
TypeOK ==
    /\ buffer \in [Offsets -> (0..MaxWrites) \X (0..(MaxLen - 1))]
    /\ w_off \in Offsets /\ head \in Offsets
    /\ r_off \in [Readers -> Offsets \cup {Closed}]
    /\ mutex \in Writers \cup {Free}
    /\ wpc \in [Writers -> {"idle", "lock", "payload", "wake"}]
    /\ orig \in [Writers -> Offsets]
    /\ ret \in [Writers -> 0..MaxLen]
    /\ need \in [Writers -> Lengths]
    /\ cur \in [Writers -> 0..MaxWrites]
    /\ rpc \in [Readers -> {"idle", "prepare", "check", "schedule", "read"}]
    /\ task \in [Readers -> {"running", "interruptible"}]
    /\ len \in Seq(Lengths) /\ Len(len) = count
    /\ count \in 0..MaxWrites
    /\ last \in [Readers -> 0..MaxWrites]

\* The j-th byte behind off
Byte(off, j) == buffer[logger_offset(off + j)]

\* Entries lie end to end over the n bytes behind off, oldest first: each byte is
\* one of an entry that lies there whole, behind an older one.
EndToEnd(off, n) ==
    \A j \in 0..(n - 1) :
        LET i == Byte(off, j)[1]
            start == j - Byte(off, j)[2]
        IN  /\ i > 0 /\ start >= 0 /\ start + len[i] <= n
            /\ \A k \in 0..(len[i] - 1) : Byte(off, start + k) = <<i, k>>
            /\ start > 0 => Byte(off, start - 1)[1] < i

\* Bytes from off to the write offset
Unread(off) == logger_offset(w_off - off + Size)

(***************************************************************************)
(* What a reader will be given is intact: between its offset and the write *)
(* offset lie whole entries, end to end and in the order written, however  *)
(* often writers lapped it, failed half way or the log was flushed.  The   *)
(* same holds of the place where new readers start.                        *)
(***************************************************************************)
LogIntact ==
    mutex = Free =>
        \A off \in {head} \cup {r_off[r] : r \in Open} :
            EndToEnd(off, Unread(off))

(***************************************************************************)
(* A reader is given each entry at most once and in the order written,     *)
(* although it may be pulled forward between any two of its steps.         *)
(***************************************************************************)
ReadsInOrder ==
    mutex = Free =>
        \A r \in Open : w_off # r_off[r] => last[r] < buffer[r_off[r]][1]

(***************************************************************************)
(* logger_read: "If there are no log entries to read, blocks until log is  *)
(* written to".  A wake-up is never lost between the check and schedule:   *)
(* a reader does not stay blocked while there is something for it to read. *)
(***************************************************************************)
BlockedReaderWakes ==
    \A r \in Readers :
        (rpc[r] = "schedule" /\ mutex = Free /\ w_off # r_off[r])
            ~> (rpc[r] # "schedule")
=============================================================================
