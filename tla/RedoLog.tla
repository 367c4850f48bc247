------------------------------- MODULE RedoLog -------------------------------
(***************************************************************************)
(* Writing and flushing the InnoDB redo log: log_write_up_to(),            *)
(* log_write_and_flush() and the log_resize_acquire() / _release() section *)
(* of storage/innobase/log/log0log.cc, on top of two group_commit_locks.   *)
(*                                                                         *)
(* An LSN counts mini-transactions.  A redo record is in the log buffer    *)
(* (above write_lsn), in the file system cache (cached) or on disk; a      *)
(* power loss takes the first two.  Each record is a unit of file I/O.     *)
(*                                                                         *)
(* The thread_local waiter and the locals of release() are shared by both  *)
(* locks, since a thread is inside at most one acquire() or release().     *)
(***************************************************************************)
EXTENDS Naturals, FiniteSets

CONSTANTS
    Thread, NoThread, Callback, Dummy, NoCallback, MaxCallbacks,
    Writer,         \* threads that call log_write_up_to()
    Maintainer,     \* threads that take both locks and the latch
    WriteThrough,   \* values innodb_log_file_write_through may take
    MaxLsn          \* bound on the log sequence number

ASSUME RedoLogAssumption ==
    /\ IsFiniteSet(Thread) /\ NoThread \notin Thread
    /\ NoCallback \notin Callback \cup {Dummy} /\ Dummy \notin Callback
    /\ MaxCallbacks \in Nat
    /\ Writer \cup Maintainer = Thread
    /\ WriteThrough # {} /\ WriteThrough \subseteq BOOLEAN
    /\ MaxLsn \in Nat

VARIABLES
    lsn,                  \* log_sys.lsn: the end of the log
    write_lsn,            \* log_sys.write_lsn: the end of the log file
    flushed_to_disk_lsn,  \* log_sys.flushed_to_disk_lsn
    log_write_through,    \* log_sys.log_write_through: O_DSYNC, no fsync()
    latch,                \* who holds log_sys.latch exclusively
    cached,               \* records in the file system cache only
    at,                   \* where each thread is in log0log.cc
    job,                  \* the call it executes, and its locals
    \* flush_lock and write_lock
    f_value, f_pending_value, f_lock, f_waiters_list, f_pending_callbacks, f_pc,
    w_value, w_pending_value, w_lock, w_waiters_list, w_pending_callbacks, w_pc,
    \* of each thread, see GroupCommitLock
    num, cb, leader, sema, lead, wakeup, callbacks, ret,
    fired,
    \* history variables
    asked,                \* with what each callback was passed
    exposed               \* what was cached when O_DSYNC was switched on

F == INSTANCE GroupCommitLock WITH
        m_value <- f_value, m_pending_value <- f_pending_value,
        m_lock <- f_lock, m_waiters_list <- f_waiters_list,
        m_pending_callbacks <- f_pending_callbacks, pc <- f_pc
W == INSTANCE GroupCommitLock WITH
        m_value <- w_value, m_pending_value <- w_pending_value,
        m_lock <- w_lock, m_waiters_list <- w_waiters_list,
        m_pending_callbacks <- w_pending_callbacks, pc <- w_pc

fVars == <<f_value, f_pending_value, f_lock, f_waiters_list,
           f_pending_callbacks, f_pc>>
wVars == <<w_value, w_pending_value, w_lock, w_waiters_list,
           w_pending_callbacks, w_pc>>
threadVars == <<num, cb, leader, sema, lead, wakeup, callbacks, ret, fired>>
fileVars == <<write_lsn, flushed_to_disk_lsn, log_write_through, cached,
              exposed>>
redoVars == <<lsn, latch, fileVars, asked, at, job, fVars, wVars,
              threadVars>>

Lsn == 0..MaxLsn
NotAsked == [lsn |-> 0, durable |-> FALSE]
NoJob == [op |-> "none", lsn |-> 0, durable |-> FALSE, cb |-> NoCallback,
          n |-> 0, owed |-> 0, goal |-> 0]
Job == [op : {"none", "write_up_to", "write_and_flush", "resize"},
        lsn : Lsn,            \* the LSN to reach
        durable : BOOLEAN,
        cb : Callback \cup {Dummy, NoCallback},
        n : Lsn,              \* the LSN being written or flushed
        owed : Lsn,           \* pending_write_lsn
        goal : Lsn]           \* promised to be durable on return (history)

TypeOK ==
    /\ F!TypeOK /\ W!TypeOK
    /\ lsn \in Lsn /\ write_lsn \in Lsn /\ flushed_to_disk_lsn \in Lsn
    /\ log_write_through \in WriteThrough
    /\ latch \in Thread \cup {NoThread}
    /\ cached \subseteq Lsn
    /\ at \in [Thread -> {"idle", "flush", "promise", "write", "write_buf",
                          "wrote", "write_release", "log_flush", "fsync",
                          "fsynced", "flushed", "flush_release",
                          "prepare_flush", "prepare_write", "exclusive"}]
    /\ job \in [Thread -> Job]
    /\ asked \in [Callback -> [lsn : Lsn, durable : BOOLEAN]]
    /\ exposed \subseteq Lsn

Init ==
    /\ lsn = 0 /\ write_lsn = 0 /\ flushed_to_disk_lsn = 0
    /\ log_write_through \in WriteThrough
    /\ latch = NoThread
    /\ cached = {}
    /\ at = [t \in Thread |-> "idle"]
    /\ job = [t \in Thread |-> NoJob]
    /\ F!LockInit /\ W!LockInit /\ F!ThreadInit
    /\ asked = [c \in Callback |-> NotAsked]
    /\ exposed = {}

Larger(a, b) == IF a < b THEN b ELSE a
Go(t, label) == at' = [at EXCEPT ![t] = label]

-----------------------------------------------------------------------------
(* mtr_t::commit() *)

\* Part of the bound: callers of log_write_and_flush() that have yet to
\* append their record.
Reserved == Cardinality({t \in Thread : /\ job[t].op = "write_and_flush"
                                        /\ at[t] \in {"prepare_flush",
                                                      "prepare_write"}})

\* Append a record to the log buffer, under the shared latch.
Append ==
    /\ latch = NoThread
    /\ lsn + Reserved < MaxLsn
    /\ lsn' = lsn + 1
    /\ UNCHANGED <<latch, fileVars, asked, at, job, fVars, wVars, threadVars>>

-----------------------------------------------------------------------------
(* log_write_up_to(lsn, durable, callback) *)

\* From the label repeat, with the locals j.
Repeat(t, j) ==
    /\ job' = [job EXCEPT ![t] = j]
    /\ \/ /\ j.durable
          /\ F!Acquire(t, j.lsn, j.cb)
          /\ Go(t, "flush")
          /\ UNCHANGED wVars
       \/ /\ ~j.durable
          /\ W!Acquire(t, j.lsn, j.cb)
          /\ Go(t, "write")
          /\ UNCHANGED fVars
    /\ UNCHANGED <<lsn, latch, fileVars>>

CallWriteUpTo(t) ==
    /\ t \in Writer
    /\ at[t] = "idle"
    /\ \E l \in 1..lsn, durable \in BOOLEAN :
           \/ /\ Repeat(t, [NoJob EXCEPT !.op = "write_up_to", !.lsn = l,
                                         !.durable = durable,
                                         !.goal = IF durable THEN l ELSE 0])
              /\ UNCHANGED asked
           \/ \E c \in Callback :
                  /\ asked[c] = NotAsked
                  /\ asked' = [asked EXCEPT ![c] = [lsn |-> l,
                                                    durable |-> durable]]
                  /\ Repeat(t, [NoJob EXCEPT !.op = "write_up_to", !.lsn = l,
                                             !.durable = durable, !.cb = c])

\* Return; the results of the last calls go out of scope.
Finish(t) ==
    /\ Go(t, "idle")
    /\ job' = [job EXCEPT ![t] = NoJob]
    /\ f_pc' = [f_pc EXCEPT ![t] = "idle"]
    /\ w_pc' = [w_pc EXCEPT ![t] = "idle"]
    /\ ret' = [ret EXCEPT ![t] = 0]
    /\ UNCHANGED <<lsn, fileVars, asked, f_value, f_pending_value, f_lock,
                   f_waiters_list, f_pending_callbacks, w_value,
                   w_pending_value, w_lock, w_waiters_list,
                   w_pending_callbacks, num, cb, leader, sema, lead, wakeup,
                   callbacks, fired>>

\* flush_lock.acquire() returned something else than ACQUIRED.
FlushCovered(t) ==
    /\ at[t] = "flush"
    /\ f_pc[t] \in {"EXPIRED", "CALLBACK_QUEUED"}
    /\ Finish(t)
    /\ UNCHANGED latch

\* Mutant: the leader aims past the end of the log.
FlushLeadPastEnd(t) ==
    /\ at[t] = "flush"
    /\ F!SetPending(t, lsn)
    /\ job' = [job EXCEPT ![t].lsn = lsn + 1]
    /\ Go(t, "promise")
    /\ UNCHANGED <<lsn, latch, fileVars, asked, wVars>>

\* Mutant: the leader promises more than it will flush.
FlushLeadOverpromise(t) ==
    /\ at[t] = "flush"
    /\ F!SetPending(t, lsn + 1)
    /\ job' = [job EXCEPT ![t].lsn = lsn]
    /\ Go(t, "promise")
    /\ UNCHANGED <<lsn, latch, fileVars, asked, wVars>>

\* This thread leads the flush: promise to flush up to the current LSN.
FlushLead(t) ==
    /\ at[t] = "flush"
    /\ F!SetPending(t, lsn)
    /\ job' = [job EXCEPT ![t].lsn = lsn]
    /\ Go(t, "promise")
    /\ UNCHANGED <<lsn, latch, fileVars, asked, wVars>>

AcquireWriteLock(t) ==
    /\ at[t] = "promise"
    /\ W!Acquire(t, job[t].lsn, NoCallback)
    /\ Go(t, "write")
    /\ UNCHANGED <<lsn, latch, fileVars, asked, job, fVars>>

\* Mutant: if somebody else wrote the log, a durable call does not flush it.
WriteCoveredNoFlush(t) ==
    /\ at[t] = "write"
    /\ w_pc[t] \in {"EXPIRED", "CALLBACK_QUEUED"}
    /\ Finish(t)
    /\ UNCHANGED latch

\* write_lock.acquire() returned something else than ACQUIRED.
WriteCovered(t) ==
    /\ at[t] = "write"
    /\ w_pc[t] \in {"EXPIRED", "CALLBACK_QUEUED"}
    /\ \/ /\ job[t].durable
          /\ Go(t, "log_flush")
          /\ UNCHANGED <<lsn, fileVars, asked, job, fVars, wVars, threadVars>>
       \/ /\ ~job[t].durable
          /\ Finish(t)
    /\ UNCHANGED latch

\* write_buf() up to the unlocking of the latch: what is to be written is
\* fixed, set_pending() announces it.
StartWrite(t) ==
    /\ at[t] = "write"
    /\ w_pc[t] = "ACQUIRED"
    /\ latch \in {NoThread, t}
    /\ job' = [job EXCEPT ![t].n = lsn]
    /\ \/ write_lsn < lsn /\ W!SetPending(t, lsn)
       \/ write_lsn >= lsn /\ UNCHANGED <<wVars, threadVars>>
    /\ Go(t, "write_buf")
    /\ UNCHANGED <<lsn, latch, fileVars, asked, fVars>>

\* The rest of write_buf(): the file is written.
WriteBuf(t) ==
    /\ at[t] = "write_buf"
    /\ write_lsn' = Larger(write_lsn, job[t].n)
    /\ cached' = IF log_write_through THEN cached
                 ELSE cached \cup (write_lsn + 1)..job[t].n
    /\ Go(t, "wrote")
    /\ UNCHANGED <<lsn, latch, flushed_to_disk_lsn, log_write_through, exposed,
                   asked, job, fVars, wVars, threadVars>>

\* Mutant: release the lock for the current LSN, not for what was written.
ReleaseWriteLockLatest(t) ==
    /\ at[t] = "wrote"
    /\ W!Release(t, lsn)
    /\ Go(t, "write_release")
    /\ UNCHANGED <<lsn, latch, fileVars, asked, job, fVars>>

ReleaseWriteLock(t) ==
    /\ at[t] = "wrote"
    /\ W!Release(t, job[t].n)
    /\ Go(t, "write_release")
    /\ UNCHANGED <<lsn, latch, fileVars, asked, job, fVars>>

\* Mutant: flush up to the current LSN, not up to what is written.
LogFlushLatest(t) ==
    /\ at[t] = "log_flush"
    /\ F!SetPending(t, lsn)
    /\ job' = [job EXCEPT ![t].n = lsn]
    /\ Go(t, "fsync")
    /\ UNCHANGED <<lsn, latch, fileVars, asked, wVars>>

\* What log_flush() is called with: log_write_up_to() reads the value of
\* write_lock again, log_write_and_flush() passes what it has written.
FlushTo(t) == IF job[t].op = "write_and_flush" THEN job[t].n ELSE w_value

\* log_flush(): log_t::flush() announces and does the fsync().
LogFlush(t) ==
    /\ at[t] = "log_flush"
    /\ F!SetPending(t, FlushTo(t))
    /\ job' = [job EXCEPT ![t].n = FlushTo(t)]
    /\ Go(t, "fsync")
    /\ UNCHANGED <<lsn, latch, fileVars, asked, wVars>>

\* Mutant: log.flush() is skipped.
FsyncSkipped(t) ==
    /\ at[t] = "fsync"
    /\ Go(t, "fsynced")
    /\ UNCHANGED <<lsn, latch, fileVars, asked, job, fVars, wVars, threadVars>>

Fsync(t) ==
    /\ at[t] = "fsync"
    /\ cached' = IF log_write_through THEN cached ELSE {}
    /\ Go(t, "fsynced")
    /\ UNCHANGED <<lsn, latch, write_lsn, flushed_to_disk_lsn,
                   log_write_through, exposed, asked, job, fVars, wVars,
                   threadVars>>

\* flushed_to_disk_lsn.store(), and log_flush_notify()
PublishFlushed(t) ==
    /\ at[t] = "fsynced"
    /\ flushed_to_disk_lsn' = job[t].n
    /\ Go(t, "flushed")
    /\ UNCHANGED <<lsn, latch, write_lsn, log_write_through, cached, exposed,
                   asked, job, fVars, wVars, threadVars>>

ReleaseFlushLock(t) ==
    /\ at[t] = "flushed"
    /\ F!Release(t, job[t].n)
    /\ Go(t, "flush_release")
    /\ UNCHANGED <<lsn, latch, fileVars, asked, job, wVars>>

\* The end of log_write_up_to() and of log_resize_release(): if a release()
\* returned an LSN, there is no new leader and somebody has to write.
Settle(t, owed) ==
    \/ /\ owed = 0
       /\ Finish(t)
       /\ UNCHANGED latch
    \/ /\ owed # 0
       /\ Repeat(t, [job[t] EXCEPT
                        !.op = "write_up_to", !.lsn = owed, !.owed = 0, !.n = 0,
                        !.cb = IF job[t].op = "resize" THEN NoCallback
                                                       ELSE Dummy])
       /\ UNCHANGED asked

\* write_lock.release() returned.
WriteReleased(t) ==
    /\ at[t] = "write_release"
    /\ w_pc[t] = "released"
    /\ \/ /\ job[t].op # "resize"
          /\ job[t].durable
          /\ job' = [job EXCEPT ![t].owed = ret[t]]
          /\ Go(t, "log_flush")
          /\ UNCHANGED <<lsn, latch, fileVars, asked, fVars, wVars,
                         threadVars>>
       \/ /\ job[t].op = "resize"
          /\ job' = [job EXCEPT ![t].owed = ret[t], ![t].n = f_value]
          /\ Go(t, "flushed")
          /\ UNCHANGED <<lsn, latch, fileVars, asked, fVars, wVars,
                         threadVars>>
       \/ /\ ~job[t].durable
          /\ Settle(t, ret[t])

\* flush_lock.release() returned.  log_write_and_flush() ignores what both
\* release() calls returned; its caller unlocks the latch.
FlushReleased(t) ==
    /\ at[t] = "flush_release"
    /\ f_pc[t] = "released"
    /\ \/ /\ job[t].op # "write_and_flush"
          /\ Settle(t, Larger(job[t].owed, ret[t]))
       \/ /\ job[t].op = "write_and_flush"
          /\ latch' = NoThread
          /\ Finish(t)

-----------------------------------------------------------------------------
(* log_write_and_flush_prepare() and log_resize_acquire() *)

PrepareFlushLock(t) ==
    /\ F!Acquire(t, lsn + 1, NoCallback)
    /\ Go(t, "prepare_flush")
    /\ UNCHANGED <<lsn, latch, fileVars, asked, wVars>>

PrepareWriteLock(t) ==
    /\ W!Acquire(t, lsn + 1, NoCallback)
    /\ Go(t, "prepare_write")
    /\ UNCHANGED <<lsn, latch, fileVars, asked, job, fVars>>

\* mtr_t::commit_shrink() and commit_file()
CallWriteAndFlush(t) ==
    /\ t \in Maintainer
    /\ at[t] = "idle"
    /\ lsn + Reserved < MaxLsn
    /\ job' = [job EXCEPT ![t] = [NoJob EXCEPT !.op = "write_and_flush",
                                               !.durable = TRUE]]
    /\ PrepareFlushLock(t)

\* set_write_through(), set_buffered(), resize_start(), resize_abort()
CallResize(t) ==
    /\ t \in Maintainer
    /\ at[t] = "idle"
    /\ job' = [job EXCEPT ![t] = [NoJob EXCEPT !.op = "resize",
                                               !.durable = TRUE]]
    /\ PrepareFlushLock(t)

\* The two loops: call acquire() again until it returns ACQUIRED.
PrepareAgain(t) ==
    \/ /\ at[t] = "prepare_flush" /\ f_pc[t] = "EXPIRED"
       /\ UNCHANGED job
       /\ PrepareFlushLock(t)
    \/ /\ at[t] = "prepare_flush" /\ f_pc[t] = "ACQUIRED"
       /\ PrepareWriteLock(t)
    \/ /\ at[t] = "prepare_write" /\ w_pc[t] = "EXPIRED"
       /\ PrepareWriteLock(t)

\* latch.wr_lock(); commit_shrink() and commit_file() append their record.
LatchExclusive(t) ==
    /\ at[t] = "prepare_write"
    /\ w_pc[t] = "ACQUIRED"
    /\ latch = NoThread
    /\ latch' = t
    /\ \/ /\ job[t].op = "write_and_flush"
          /\ lsn' = lsn + 1
          /\ job' = [job EXCEPT ![t].lsn = lsn + 1, ![t].goal = lsn + 1]
          /\ Go(t, "write")
       \/ /\ job[t].op = "resize"
          /\ Go(t, "exclusive")
          /\ UNCHANGED <<lsn, job>>
    /\ UNCHANGED <<fileVars, asked, fVars, wVars, threadVars>>

\* The exclusive section of set_write_through() (the others change nothing
\* here) and the start of log_resize_release(), up to write_lock.release().
ResizeSection(t) ==
    /\ at[t] = "exclusive"
    /\ log_write_through' \in WriteThrough
    /\ exposed' = IF log_write_through' /\ ~log_write_through
                  THEN exposed \cup cached ELSE exposed
    /\ latch' = NoThread
    /\ job' = [job EXCEPT ![t].n = w_value]
    /\ Go(t, "wrote")
    /\ UNCHANGED <<lsn, write_lsn, flushed_to_disk_lsn, cached, asked, fVars,
                   wVars, threadVars>>

-----------------------------------------------------------------------------

\* A step inside acquire() or release() of either lock.
LockStep(t) ==
    /\ \/ (F!AcquireStep(t) \/ F!ReleaseStep(t)) /\ UNCHANGED wVars
       \/ (W!AcquireStep(t) \/ W!ReleaseStep(t)) /\ UNCHANGED fVars
    /\ UNCHANGED <<lsn, latch, fileVars, asked, at, job>>

Start(t) ==
    CallWriteUpTo(t) \/ CallWriteAndFlush(t) \/ CallResize(t)

Continue(t) ==
    \/ LockStep(t)
    \/ FlushCovered(t) \/ FlushLead(t) \/ AcquireWriteLock(t)
    \/ WriteCovered(t) \/ StartWrite(t) \/ WriteBuf(t) \/ ReleaseWriteLock(t)
    \/ WriteReleased(t)
    \/ LogFlush(t) \/ Fsync(t) \/ PublishFlushed(t) \/ ReleaseFlushLock(t)
    \/ FlushReleased(t)
    \/ PrepareAgain(t) \/ LatchExclusive(t) \/ ResizeSection(t)

Next == Append \/ \E t \in Thread : Start(t) \/ Continue(t)

Spec == Init /\ [][Next]_redoVars

-----------------------------------------------------------------------------
(* Properties *)

\* The records that a power failure would take.
Volatile == cached \cup (write_lsn + 1)..lsn

\* Up to where somebody was told that the log is durable: get_flushed_lsn()
\* is what the page cleaner and trx_flush_log_if_needed() rely on, and a
\* completion callback sends the result of COMMIT to the client.
Promised ==
    {flushed_to_disk_lsn} \cup
    {asked[c].lsn : c \in {d \in Callback : asked[d].durable /\ fired[d] # 0}}

\* log_flush(): "Ensure that previous log writes are durable."  What was
\* promised to be durable survives a power failure.
Durability == \A l \in Promised : (1..l) \cap Volatile = {}

\* The same, except for what was in the file system cache when
\* set_write_through(true) reopened the log file without an fsync().
DurabilityUnlessSwitched ==
    \A l \in Promised : (1..l) \cap Volatile \subseteq exposed

\* A synchronous durable call of log_write_up_to() and log_write_and_flush()
\* returns only when the log it was called for is durable (with the same
\* exception), whoever led the write and the flush.
ReturnsDurable ==
    [][\A t \in Thread :
           job[t] # NoJob /\ job'[t] = NoJob =>
               (1..job[t].goal) \cap Volatile' \subseteq exposed']_redoVars

\* A callback of a call that is not durable runs only when the log has been
\* written to the file up to its LSN.
WrittenBeforeCallback ==
    \A c \in Callback :
        ~asked[c].durable /\ fired[c] # 0 => asked[c].lsn <= write_lsn

\* The positions of the log never overtake each other, and the assertions
\* ut_a(num >= value()) of set_pending() and release() and
\* ut_ad(lsn >= get_flushed_lsn()) of log_t::flush() hold whenever a thread
\* is about to evaluate them: no leader takes a value back that another
\* leader has set while this one was between its two locks.
PositionsOrdered ==
    /\ f_value <= flushed_to_disk_lsn
    /\ flushed_to_disk_lsn <= write_lsn
    /\ w_value <= write_lsn
    /\ write_lsn <= lsn
    /\ \A t \in Thread :
           /\ at[t] = "log_flush" => flushed_to_disk_lsn <= FlushTo(t)
           /\ at[t] \in {"fsync", "fsynced"} => flushed_to_disk_lsn <= job[t].n
           /\ at[t] = "flushed" => f_value <= job[t].n
           /\ at[t] \in {"write_buf", "wrote"} => w_value <= job[t].n

\* "Acquire all latches that protect the log": while a thread is in the
\* exclusive section of log_resize_acquire(), nobody writes or flushes the
\* file; and the file is written, and flushed, by one thread at a time.
ExclusiveFileAccess ==
    \A t, u \in Thread :
        t # u =>
            /\ ~(at[t] = "write_buf" /\ at[u] = "write_buf")
            /\ ~(at[t] \in {"fsync", "fsynced"} /\ at[u] \in {"fsync", "fsynced"})
            /\ at[t] = "exclusive" =>
                   at[u] \notin {"write_buf", "fsync", "fsynced", "exclusive"}

\* The number that release() returns to log_write_and_flush() and to
\* log_write_up_to() is 0: a leader that writes and flushes everything never
\* leaves pending callbacks without a new leader.  So it is harmless that
\* log_write_and_flush() ignores it; only log_resize_release() has to care.
OrphansOnlyAfterResize ==
    \A t \in Thread :
        /\ job[t].op # "resize"
        /\ \/ at[t] = "write_release" /\ w_pc[t] = "released"
           \/ at[t] = "flush_release" /\ f_pc[t] = "released"
        => ret[t] = 0

\* What a later fsync() has yet to make durable.
Unsynced == cached \ exposed

\* The durable prefix of the log, with the exception of what is exposed.
DurablePrefix ==
    CHOOSE k \in 0..write_lsn :
        /\ (1..k) \cap Unsynced = {}
        /\ k = write_lsn \/ k + 1 \in Unsynced

\* The redo log implements DurableLog: it becomes durable from its start on,
\* and flushed_to_disk_lsn neither goes back nor past what is durable, if
\* what set_write_through(true) leaves in the cache counts as durable.
Abstract == INSTANCE DurableLog WITH appended <- lsn, durable <- DurablePrefix,
                                     promised <- flushed_to_disk_lsn

ImplementsDurableLog == Abstract!Spec

-----------------------------------------------------------------------------
(* Liveness *)

\* A thread that is in a call goes on: it waits only for a semaphore, the
\* latch and m_mtx, and whoever holds one of the latter two lets go of it.
Fairness == \A t \in Thread : WF_redoVars(Continue(t))

FairSpec == Spec /\ Fairness

\* From some time on nobody starts to resize or reconfigure the log.  (Such a
\* section takes the locks and gives them back without progress, and can
\* overtake a leader that has been woken but does not run yet.)
ResizesStop == <>[][\A t \in Thread : ~CallResize(t)]_redoVars

\* Every call returns.
CallsReturn ==
    ResizesStop => \A t \in Thread : at[t] # "idle" ~> at[t] = "idle"

\* Every completion callback runs, although nobody waits for it: neither the
\* thread that left it behind nor any other has to call again.
CallbacksRun ==
    ResizesStop => \A c \in Callback : asked[c] # NotAsked ~> fired[c] = 1
=============================================================================
