# TLA+ models of the MariaDB server's concurrency and durability core

MariaDB is a multi-threaded SQL server with pluggable storage engines. Most of
its source is sequential (parser, optimizer, file formats); what is hard to test
is the small amount of code that every transaction goes through concurrently:
latches, the redo log, group commit, lock managers, read views, thread pools.
This project models that core: InnoDB's redo log, latches, checkpoints, read views
and purge, and the thread pool library.

## Inventory

| Part (source) | State | Operations | Talks to | What is hard | What makes it correct |
|---|---|---|---|---|---|
| Group commit lock (`storage/innobase/log/log0sync.cc`) | value, pending value, lock flag, waiters list, pending callbacks, thread-local waiters | `acquire`, `set_pending`, `release` | redo log; semaphores; completion callbacks | leader hand-over, wakeups after unlocking, asynchronous callbacks | one leader, no lost or left-over wakeup, no stall, callbacks exactly once and in time |
| Redo log write and flush (`log/log0log.cc`) | `lsn`, `write_lsn`, `flushed_to_disk_lsn`, write-through mode, two group commit locks, latch, file | `log_write_up_to`, `write_buf`, `log_flush`, `log_write_and_flush`, `log_resize_acquire/release`, `set_write_through` | mini-transactions append; commit waits; page cleaner relies on the flushed LSN | leaders of write and flush overlap, values read between two locks, power loss | what is promised durable is durable; positions ordered; calls return |
| Slim latches (`include/srw_lock.h`, `sync/srw_lock.cc`) | two 32-bit words, futex sleepers | `rd_/u_/wr_` lock, try, unlock, upgrades, downgrades | index and page latches, `log_sys.latch` | lock-free words changed one at a time, shared wait queue | exclusion, exact counts, no lost wakeup |
| Recursive latch (`include/sux_lock.h`) | owner, U and X recursion counts | `s_/u_/x_` lock, upgrade, downgrade, ownership transfer | slim latch; page I/O | release by another thread, recursion across modes | ownership matches the slim latch |
| Mini-transaction commit, log buffer (`mtr/mtr0mtr.cc`) | `buf_free`, `lsn`, flush list | `append_prepare`, `commit`, `commit_shrink`, `commit_file` | redo log, flush list | a full buffer, the order of the flush list | records contiguous, flush list ordered, no self-deadlock |
| Page cleaner and checkpoint (`buf/buf0flu.cc`) | flush list, checkpoint LSN, fsync flag of data files | page write, its completion, checkpoint | mini-transactions, redo log | LSNs and the flush list in different orders, concurrent checkpoints | no checkpoint passes a change that is not in its file; log before pages |
| Crash recovery (`log/log0recv.cc`) | parsed records | scan, apply | redo log | torn writes | replays exactly the durable prefix |
| MVCC (`read/read0read.cc`, `include/trx0sys.h`) | two counters, lock-free hash of active transactions, view limits | register, assign number, deregister; open, reuse, close, append | purge, transactions, implicit locks | snapshot of a hash that changes, numbers allocated before they are visible | consistent snapshots; purge never outruns a view |
| Record locks (`lock/lock0lock.cc`) | lock queues, wait-for edges | lock, wait, grant, deadlock check | transactions | grant order, victim choice | compatibility, every cycle found |
| Metadata locks (`sql/mdl.cc`) | tickets granted and waiting | acquire, upgrade, downgrade, deadlock search | every statement | fast path, starvation limits | compatibility, no deadlock unresolved |
| Binary log group commit, XA (`sql/log.cc`, `sql/xa.cc`) | commit queues | queue, lead, commit ordered | engines, replication | leader and followers, crash between stages | same order in log and engine |
| Parallel replication (`sql/rpl_parallel.cc`) | worker queues | schedule, wait for prior commit | binlog group commit | retries, stop and error | commit order kept |
| Semi-sync (`sql/semisync_master.cc`) | active transactions, reply position | wait, reply, switch off | replication | timeout against a late reply | nobody waits for ever |
| tpool (`tpool/`) | task queue, worker lists, counts of long and waiting tasks, groups | submit, worker main, maintenance, wait begin/end, disarm, shutdown | InnoDB background work | wake-up and creation of workers, cancellation against execution | no task is lost, stranded or run after disarm |
| `thr_lock`, `waiting_threads`, `lf_alloc`, `lf_hash` (`mysys/`) | queues; graphs; pins | lock, wait; pin, unpin, reclaim | table locks, MDL, hashes | ABA, reclamation | no use after free, deadlocks found |
| Aria (`storage/maria/`) | own log and transaction manager | as InnoDB | server | as InnoDB | as InnoDB |
| Galera glue, other engines, backup, clients, plugins, SQL layer | | | | sequential or external | not modelled |

## Modules

    GroupCommitLock ---- EXTENDED BY --- GroupCommitClients --- GroupCommitProofs
          |  (two INSTANCEs, F and W)          \-- MCGroupCommitClients
          v
       RedoLog ----- refines ----> DurableLog
          |-- RedoLogProofs
          \-- MCRedoLog

    SsuxLock --- SsuxLockProofs

    TrxHash ---- EXTENDED BY --- ReadView --- ReadViewProofs
          |                          \-- MCReadView
          \-- ImplicitLock

    Checkpoint --- CheckpointProofs
          \-- MCCheckpoint
    LogBuffer
    ThreadPool --- ThreadPoolProofs

**GroupCommitLock** is `group_commit_lock`. The variables carry the names of
the members. A call is broken at the points where other threads can run: every
access outside `m_mtx` and every critical section of it is one step. `pc[t]` is
the return code of the last `acquire()` or the position inside a call.
`Acquire` is the entry (lines 198-224), `LoopEnter` ... `WakeUp` the loop,
`Release` the critical section of `release()`, and `WakeLead`, `RunCallback`,
`WakeOther` what follows after unlocking. The waiters list is a set, so every
order of the list is covered. `binary_semaphore` is atomic.

**GroupCommitClients** closes the system with callers that keep the contract of
`log0sync.h`, including the `goto repeat` of `log_write_up_to()`.

**RedoLog** composes two group commit locks (`flush_lock` = F, `write_lock` = W)
with the code of `log0log.cc`. `at[t]` is the position in that code and `job[t]`
holds its locals. An LSN counts mini-transactions; a record is in the log buffer
(above `write_lsn`), in the file system cache (`cached`) or on disk. The
thread-local waiter and the locals of `release()` are one set of variables for
both locks, as in the code. `exposed`, `asked` and `job.goal` are history
variables. **DurableLog** is the promise: a log that becomes durable from its
start on and is reported durable only as far as it is; the refinement mapping counts
what was cached at a switch to write-through as durable.

**SsuxLock** is the futex implementation of `srw_mutex_impl` and
`ssux_lock_impl`. A word is a pair of flag and count; every atomic operation and
every futex call is a step; `pc[t]` is the latch that a thread holds or its
place in a call. A "thread" is whoever holds the latch: that a page latch can be
taken by one thread and released by an I/O thread makes no difference at this
level. Spinning has the outcomes of a wait that returns spuriously.

**TrxHash** is the active set of `trx0sys.h`: `m_max_trx_id`, `m_rw_trx_hash_version` and
the elements of `rw_trx_hash`. Allocating an identifier or number and making it
visible in the hash are two steps, removal from the `lf_hash` is two as well (marked,
unlinked). **ReadView** adds `ReadView::open()` with and without reuse, the iteration
of `snapshot_ids()` one element at a time, in any order and with the restarts of
`l_find()` that report elements twice, `close()`, and the purge coordinator:
`clone_oldest_view()` with `append_to()` per transaction, and `fetch_next_rec()`.
`must`, `stale` and `miscounted` are history variables. **ImplicitLock** extends the
same hash with `find_same_or_older()` and its cache for locking reads.

**Checkpoint** is `mtr_t::commit()`, the flush list, page writes and
`log_checkpoint()`. A step ends wherever `log_sys.latch`, `flush_list_mutex`
or a page latch changes hands. A record has length 1 and a page is its
`FIL_PAGE_LSN`: `page_lsn` in the buffer pool, `file` in the data file, `durable` on
the disk. A page write is three steps: `flush()` latches the page, `submit_io` comes after
the wait for the log, `write_complete` or `WriteError` after the I/O; other threads commit,
flush the log and take checkpoints in between. `logged` remembers which pages the record at
an LSN changed. The log itself is only `lsn` and `flushed_lsn`; RedoLog has its details.
**LogBuffer** looks at the bytes instead: reservation in `append_prepare()`, the wait,
`write_buf()`.

**ThreadPool** is `tpool_generic.cc`, `task.cc` and `task_group.cc`. Workers are
`worker_data` structures that keep `m_state` while in the cache, as the code does. A
critical section is a step. Time is left open: any executing task may count as long, any
idle worker may time out, a thread may fail to be created (`Outcomes`). The destructor
(`Shutdown`) may be called at any time, with tasks queued or running, once the timers are
disarmed: a timer uses its pool when it fires and when it is disarmed, so its owner has to
destroy it first. The unsigned counts wrap
at `UINT_MAX`, a constant that is only assumed to be no smaller than the number of
workers. One timer stands for a task outside of groups whose callback may wait, as
the purge coordinator does for its workers; grouped tasks stand for those workers.

Operators whose comment starts with `Mutant:` are plausible bugs. They are not
part of any specification; each one, put in place of the operator that follows
it, makes TLC find a property of this project violated.

## Runs

| Run | Instance | States | Shows |
|---|---|---|---|
| `group_commit` | 3 threads, 2 callbacks, values up to 2, room for 1 callback | 725,459 | `SingleLeader`, `NoLostOrStaleWakeup`, `NoStall`, `CallbackOnceAndInTime`, `CallbackNotLost` |
| `redo_log_switch` | 2 threads in all roles, write-through switched, LSN up to 2 | 679,597 | `DurabilityUnlessSwitched`, `ReturnsDurable`, `WrittenBeforeCallback`, `PositionsOrdered`, `ExclusiveFileAccess`, `OrphansOnlyAfterResize`, refinement of `DurableLog` |
| `redo_log_live` | 2 writers and a maintenance thread, LSN up to 1 | 151,902 | `CallsReturn`, `CallbacksRun` |
| `redo_log_switch_doc` | as `redo_log_switch` | violation | `Durability` does not survive `set_write_through(true)` |
| `ssux_lock` | 3 threads | 43,417 | `Exclusion`, `WordsExact`, `NoLostWakeup`, `CallsReturn` |
| `read_view` | 2 writers, 1 reader that also writes, purge, 4 identifiers, 1 restart | 1.9 million | `NoDirtyRead`, `SeesCommittedBefore`, `PurgeSafe`, `PurgeViewOldest`, `PurgedInOrder` |
| `implicit_lock_doc` | 3 transactions, 4 identifiers | violation | an implicit lock is overlooked |
| `checkpoint` | 2 mini-transactions, 2 pages, 2 checkpointers, LSN up to 7 | 3.4 million | `CheckpointCovered`, `InsertAboveCheckpoint`, `RecoveryExact`, `FlushListSorted`, `CheckpointMonotonic` |
| `checkpoint_doc` | the same with 1 checkpointer | violation | a checkpoint passes a change that was not synced |
| `thread_pool` | 2 workers, 1 timer, 1 grouped task, 2 submissions each, limits 1 and 2 | 90,824 | `RefsExact`, `GroupBusy`, `TimerQuiet`, `TasksRun`, `ShutdownCompletes` |
| `thread_pool_fixed` | 3 workers, all of them permanent, 2 grouped tasks, no timer, no maintenance | 116,716 | `Drained` |
| `log_buffer_doc` | 3 threads, records of 3 in a buffer of 8 | violation | a record does not fit after a wait |

Bounds. `MaxValue`, `MaxLsn` bound numbers that only grow and are only compared:
2 gives a number below, at and above the value and lets two leaders follow each
other. Three threads are needed for a leader, a designated leader and one that
overtakes it; with `MaxCallbacks` = 1 the overflow path of `release()` (1000 in
the code) happens. Callers of `log_write_and_flush()` reserve their LSN below
the bound (`Reserved`, which is part of the bound and models no code), so that the bound
never makes a thread stop halfway. `redo_log_live` has one LSN only: it shows that calls
return and callbacks run, and does not reach writers that keep advancing the log for ever.
For the latch, three threads are an owner, a waiter for the mutex and a reader.
Four identifiers (`MaxTrxId`) are two transactions with a number each, or an old one
that stays active while others commit; a restart is what makes duplicates in `m_ids`.
`MaxLsn` = 7 leaves room for four records: two mini-transactions and two overlapping
checkpoints, or three mini-transactions and a checkpoint among them; `MaxCompleting` bounds the
writes between `buf_page_write_complete()` and `complete_write()`. In the pool, two
workers over a minimum of one are a worker that may be created, end or block, and one
that must go on; two submissions per task let a task be queued while it runs. Two
callbacks that block at the same time need a third worker and a second timer, with which
the liveness properties no longer finish in minutes. In the fixed pool, three workers
leave one for a second task, one for the group's queue and one that is idle or ends.
States are counted with symmetry where the run uses it; liveness runs use none.
Deadlock is checked for the group commit lock, the redo log and the latch. The
others may stop: all identifiers or LSNs are used up, or a pool has no work.

Fairness. `RedoLog!Fairness` is weak fairness of each thread's `Continue`: a
thread inside a call goes on, as the operating system's scheduler provides; it
waits only for a semaphore, a mutex or the latch, whose holders are threads with
the same fairness. Starting a call is not fair. The liveness properties assume
`ResizesStop`: from some time on nobody starts a reconfiguration. Without it a
thread that repeats `log_resize_acquire()` / `log_resize_release()` for ever can
overtake a woken leader each time, since these sections release both locks
without advancing them. `SsuxLock!Fairness` adds that a holder releases its latch
(`Leave`); `CallsStop` plays the role of `ResizesStop`, because the mutex is not
fair and newcomers may overtake a waiter for ever. Spurious wakeups are possible
but never fair, so no property relies on them. `ThreadPool!FairSpec` says that workers
are scheduled and callbacks end (a blocked one only when the tasks it waits for have
run), that the maintenance timer fires and sometimes gets the thread it asks for, and
that a thread inside `disarm()` goes on. Submissions, idle timeouts and the calls of the
destructor are not fair. ReadView, Checkpoint and LogBuffer have safety properties
only.

## What the runs found

1. `find_same_or_older()` caches in `trx_t::max_inactive_id` that no transaction up to
   an identifier is active. An older transaction between `get_new_trx_id_no_refresh()`
   and `rw_trx_hash.insert()` is not seen then, and is missed for as long as the cache
   covers the page. `lock_sec_rec_some_has_impl()` promises "never false negatives".
2. `log_t::set_write_through(true)` reopens the log file without `fsync()`, and
   `log_t::flush()` stops calling it. Records written before the switch and not
   flushed yet (`innodb_flush_log_at_trx_commit` other than 1, or a write whose flush
   is still to come) are then reported durable while they are in the file system
   cache. `DurabilityUnlessSwitched` shows that nothing else breaks durability.
3. `log_checkpoint()` syncs the data files before it reads the oldest modification.
   A page write that completes in between is passed by the checkpoint without a sync;
   a flag set while `fsync()` runs is cleared by `clear_flush()`. This concerns data
   files in the file system cache only (`innodb_data_file_write_through=OFF`), and
   `CheckpointCovered` shows that the write itself was complete.
4. `append_prepare()` does not repeat its test for a full buffer after
   `append_prepare_wait()`, which releases both latches: a thread that waited reserves
   space although others have filled the buffer meanwhile; `log_t::append()` asserts that
   the record fits.

Seen while modelling, without a run of their own:
- `log0sync.h:46` says that `acquire(num)` returns ACQUIRED only when the value is below
  `num`. A thread marked as leader by `release()` gets the lock also when its number has
  been reached meanwhile, and `NoStall` needs that (mutant `ExpiredLeaderLeaves`).
- `SeesCommittedBefore` and `PurgeSafe` make an exception for `miscounted` views. A
  restarted iteration may put an identifier into `m_ids` twice; the size then matches
  the distance of the limits by accident and `snapshot()` collapses the view, which
  hides transactions that had committed before it was opened.
- `PurgeSafe` makes an exception for `stale` views, the race that the comment of
  `ReadView::open()` describes and accepts.
- A worker that takes a cancelled slot ends with `EXECUTING_TASK` set. Maintenance can
  mark it as long running before `worker_end()`, whose assertion then fails; in a build
  without assertions `m_long_tasks_count` may wrap when the structure is used again.
  Maintenance counts anew, and `TasksRun` shows that no task is lost by it.
- The destructor of a pool that is not of fixed size may return with tasks still queued:
  it disarms maintenance first, and when the last worker ends on a cancelled slot or by
  its idle timeout, or no thread could be created, nobody is left to take them. A pool of
  fixed size never has maintenance, so that a worker lost to a cancelled slot of a timer
  is not replaced. `Drained` states what remains: fixed size, threads created, no timers.
- `task_group::execute()` tests the limit with `==`: after `set_max_tasks()` lowered it
  below the number of running tasks, further tasks start at once.

## Proofs

Every safety property that a passing run checks, invariants and action properties
alike, is also proved by TLAPS for every value of the constants, and so is the
refinement of DurableLog. The assumptions are the named ASSUMEs of the component
modules: null values are no threads, callbacks or tasks; bounds are natural numbers;
the sets of latch users (`ThreadAssumption`, `RedoLogAssumption`), pages
(`PageAssumption`) and workers (`ConstantsAssumption`) are finite; the values `Free`,
`Io` and `Writing` of a page latch are no mini-transactions (`MtrAssumption`); a pool has no more
workers than an unsigned int counts.

In every proof module the argument is: an inductive invariant, one lemma or case per
action, then what the invariant implies. The properties are seldom inductive; what
follows says what had to be added, and why.

**GroupCommitProofs** (any threads, callbacks, `MaxCallbacks`, `MaxValue`):
- `TypeCorrect`: the types, with `asked`.
- `SingleLeaderAlways`: with `TypeOK` this is inductive.
- `WakeupsExact`: inductive with `ReleaseLocals` (outside `release()` the lists of a
  thread are empty).
- `NoStallAlways`: rests on the previous three. A thread that stops being a
  contender either takes the lock, or leaves because the lock is taken, or its
  number is reached, and in the last case `release()` has named another one.
- `CallbackAlwaysOnceAndInTime`, `CallbackNeverLost`: both follow from `CallbacksExact`.
  `Numbers` says that a callback carries the number it was passed with wherever it is;
  `Places` that it is in exactly one place (an argument of `acquire()`, the pending
  list, the local list of `release()`) until it has run.

**SsuxLockProofs** (any finite set of threads):
- `WordsAlwaysExact`, `TypeCorrect`: the invariant is `IInv` = `TypeOK`, `Goals` (where
  calls may lead) and `WordsExact`. A step is first summarised by `Local(t)`: what it
  does to the words and to the place of its thread, others being woken at most. The
  counts then follow from facts on cardinality (`CountsExact`).
- `AlwaysExclusion` follows from `WordsExact`; it is not inductive by itself, since
  X is granted by looking at a count.
- `WakeupsNeverLost` adds `WaitsForReaders` (a writer waits with a copy that has
  readers in it). Its key is `SleeperCounted`: a thread that unlocks or unsubscribes
  and finds nobody else counted leaves no sleeper behind.

**RedoLogProofs** (any finite set of threads in any roles, any callbacks, `MaxLsn`):
- `AlwaysExclusive` needs `Owners`: from the place of a thread in `log0log.cc` follows which
  of the two locks it owns, is acquiring or is releasing.
- `AlwaysOrdered` needs `Positions`: the order of the five positions, and where the
  local target of a leader lies among them; without it a late `log_flush()` could move
  `flushed_to_disk_lsn` back. The proof needed a stronger `PositionsOrdered` than the
  one first written: it also says that no leader of a flush (`FlushTo`) aims below what is
  flushed.
- `AlwaysDurable` needs `Cache`: what of the file is not durable lies above
  `flushed_to_disk_lsn`, up to what `set_write_through(true)` exposed, also while a
  leader is between its `fsync()` and the update of the position.
- `AlwaysWrittenBeforeCallback` needs `CallbackNumbers`: a callback is on the lock that
  `durable` selects, with its number.
- `NoOrphans` and `AlwaysReturnsDurable` (an action property) need `Promises`: a leader other
  than a resize reaches its own number and that of everyone who left a callback behind
  without waiting, so `release()` returns 0 to it; and what a call has yet to make
  durable before it returns.
- `TypeCorrect`: `Room` says that reserved LSNs stay below the bound.
- `Refinement`: each step maps to a step of DurableLog or a stutter. What a switch to
  write-through left in the cache (`exposed`) counts as durable in the refinement mapping;
  `DurableIfNeverSwitched`: without a switch nothing is exposed, and `Durability` holds.

**CheckpointProofs** (any mini-transactions, finitely many pages, any checkpointers):
- `FlushListAlwaysSorted`, `AlwaysInsertAboveCheckpoint`, `CheckpointAlwaysCovered`: rest on
  `Accounted` (every record about a page is in its file, or held back by the page's
  oldest modification, or its mini-transaction is about to add the page) and on
  `LowWater`, which holds of the checkpoint on disk and of the LSN that each
  checkpointer has read.
- `MadeDirty` says that `m_made_dirty`, determined when pages are latched, is still
  right when `commit_log()` acts on it; `Latches` is needed for that.
- `AlwaysRecoveryExact`: from `CheckpointCovered` (what recovery skips is in the files) and
  `WriteAhead` (what is in the files has its log). `WriteAhead` needs `Latches`, `PageLsns` and
  `StampedPages`: the LSN that `flush()` waited for is still that of the page when it is
  written, because nobody else can latch the page until the write is complete.
- `CheckpointNeverMovesBack` (action property): from `Checkpoints`, the relation of
  concurrent checkpoints to the one on disk.

**ReadViewProofs** (any transactions in any roles, any number of restarts):
- `VersionLags`: the counter is ahead of `m_rw_trx_hash_version` by the allocations in
  progress, so a snapshot starts only when there are none. `Registered` and `Numbered` say
  what the place of a transaction tells about its identifier and number.
- `NeverDirtyRead`: from `Views` (what is true of every view, open or closed, of the
  past) and `Scans` (an iteration has met or is going to meet every transaction active
  below its limit, whatever is inserted, removed or visited twice).
- `AlwaysSeesCommittedBefore`, `PurgeViewAlwaysOldest`, `PurgeAlwaysSafe`: need `Knowledge`, what
  purge may take for granted about a view while `clone_oldest_view()` is under way
  and the view is opened, reused or closed. The exceptions `stale` and `miscounted` are those of
  the properties.
- `AlwaysPurgedInOrder`: with `History` (only what is committed and serialised is
  purged).

**ThreadPoolProofs** (any finite set of workers, any tasks, limits, submissions):
- `RefsAlwaysExact`: needs `Held`, that the task a worker has is of the kind its
  place in the code expects, and counting lemmas for the queues (`OccurrencesAppend`,
  `OccurrencesTail`, `OccurrencesCancelled`) and for sets that differ in one worker
  (`CardMove`). Waking and creating workers moves only those without a task
  (`PoolMoves`).
- `GroupAlwaysBusy`: inductive with the types; it relies on limits being positive.
- `TimerAlwaysQuiet`: needs `Callbacks` (`m_running` is positive while exactly one worker
  repeats the callback) and `Bounded` (a disarmed timer has no reference); with
  `RefsExact` no worker holds its task.
- `FixedPoolDrains`: needs `Served`: while the queue of a fixed pool has a task, some
  worker is active and none is about to end. `SubmitServes` is the step that counts:
  `submit_task()` wakes or creates a worker unless enough of them are active, and with
  timers out of the way no slot is cancelled and no count of long or waiting tasks hides
  an active worker.
- `TypeCorrect`: `Blocking` ties `m_waiting_task_count` to the blocked workers, `Callbacks`
  bounds `m_running`. The attempt to prove an earlier `TypeOK` failed for a good reason:
  it bounded `m_running` by the number of workers. Each worker that finds the
  callback running increments the count and goes on to other work, so only the number
  of submissions bounds it.

Only model-checked: liveness (`CallsReturn` of RedoLog and of SsuxLock, `CallbacksRun`,
`TasksRun`, `ShutdownCompletes`), which is out of the prover's reach, and the four
properties that the runs refute.

## Not modelled

In the modelled parts: the memory-mapped (PMEM) log, whose `persist()` takes
another path; the bytes and blocks of the log file, encryption and checksums; the
second file of an online log resize; a failing
`fsync()` (`ut_a` stops the server); weak memory ordering (all models are
sequentially consistent); the futex inside `binary_semaphore`; the non-futex
variants of the latches, and lock elision. A crash needs no action: `Durability`,
`RecoveryExact`, `CheckpointCovered` and `CheckpointDurable` are about what would survive
it, in every state.

In TrxHash and ReadView: prepared and recovered transactions, temporary tables, the
purge of records once an undo log is chosen, truncation of history. In Checkpoint:
which pages the page cleaner picks and how fast, eviction, freed pages, the
doublewrite buffer (which waits for the log of a batch of pages before it writes them),
`FILE_MODIFY` records, how recovery applies the records that it finds. In ThreadPool:
throttling by time, the switching of the maintenance timer's period,
`set_concurrency()`, `disable()` / `enable()` of tasks, `task_group::cancel_pending()` of a null
pointer, which nobody calls, asynchronous I/O, the Windows pool.

The components that are not modelled at all, with reasons, are listed in
`PROJECT.json`.

## Plan

1. *Proofs about what the refuted properties leave*: the part of `NoFalseNegatives` that
   holds without the cache `max_inactive_id`; `CheckpointDurable` for data files that are
   written through; the bound on the overshoot in LogBuffer.
2. *Append path with both locks*: LogBuffer composed with RedoLog, for the possible
   self-deadlock of `commit_shrink()` in the hazard list.
3. *SuxLock*: `sux_lock` on an INSTANCE of SsuxLock, with recursion and transfer of
   ownership.
4. *Record locks* and *metadata locks*: compatibility, grant order, deadlock search.
5. *Semi-sync* waits with a timeout; `lf_alloc` pins.
