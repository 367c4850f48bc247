----------------------------- MODULE Checkpoint -----------------------------
(***************************************************************************)
(* Mini-transactions, the flush list, page writes and log checkpoints of   *)
(* InnoDB: mtr_t::commit(), buf_pool_t::flush_list, buf_page_t::flush(),   *)
(* buf_page_write_complete(), fil_flush_file_spaces() and log_checkpoint().*)
(*                                                                         *)
(* A record has length 1, and so has FILE_CHECKPOINT.  The contents of a   *)
(* page is the LSN its header carries: pages change only under their latch *)
(* and LSNs grow.  log_sys.latch is shared by committing mini-transactions;*)
(* everything done under the exclusive latch is one step that no committer *)
(* overlaps.  Pages with oldest_modification()=1, which everybody takes    *)
(* off the flush list on sight, are not in the list here.  Data files are  *)
(* buffered: a completed write reaches the disk at the next fsync().       *)
(***************************************************************************)
EXTENDS Naturals, Sequences, SequencesExt, FiniteSets

CONSTANTS
    Mtr,            \* threads that execute mini-transactions
    Page,           \* pages of one tablespace
    Checkpointer,   \* threads that call log_checkpoint()
    MaxLsn,         \* bound on log_sys.lsn
    MaxCompleting   \* bound on the writes in IORequest::write_complete()

FIRST_LSN == 3

ASSUME MaxLsnAssumption == MaxLsn \in Nat /\ MaxLsn >= FIRST_LSN
ASSUME MaxCompletingAssumption == MaxCompleting \in Nat

Free    == "free"       \* a page latch nobody holds
Io      == "io"         \* U-latched by flush(), which waits for the log
Writing == "writing"    \* U-latched, the write is submitted

ASSUME PageAssumption == IsFiniteSet(Page)
ASSUME MtrAssumption == {Free, Io, Writing} \cap Mtr = {}

VARIABLES
    lsn, flushed_lsn,       \* log_sys.lsn, log_sys.flushed_to_disk_lsn
    latch,                  \* the mini-transactions that share log_sys.latch
    last_checkpoint_lsn, next_checkpoint_lsn, checkpoint_pending,
    disk_checkpoint,        \* the checkpoint in the header of the log file
    page_lock,              \* per page: Free, Io, Writing or who holds it
    page_lsn,               \* per page: FIL_PAGE_LSN in the buffer pool
    om,                     \* per page: oldest_modification(), 0 when clean
    flush_list,             \* dirty pages, newest first
    file, durable,          \* per page: its LSN in the file, and on the disk
    needs_fsync,            \* fil_space_t::NEEDS_FSYNC of the tablespace
    completing,             \* writes with fil_space_t::complete_write() to come
    logged,                 \* per LSN: the pages of the record that starts there
    pc, pages, start, made_dirty,   \* of the mini-transactions
    cpc, oldest, limit      \* of the checkpoints

log  == <<lsn, flushed_lsn, latch, logged>>
ckpt == <<last_checkpoint_lsn, next_checkpoint_lsn, checkpoint_pending,
          disk_checkpoint>>
pool == <<page_lock, page_lsn, om, flush_list>>
disk == <<file, durable, needs_fsync, completing>>
mtr  == <<pc, pages, start, made_dirty>>
call == <<cpc, oldest, limit>>
vars == <<log, ckpt, pool, disk, mtr, call>>

Lsns == 0 .. MaxLsn

(* Every variable stays within its type, and the flush list holds exactly  *)
(* the dirty pages, once each.                                             *)
TypeOK ==
    /\ {lsn, flushed_lsn, last_checkpoint_lsn, next_checkpoint_lsn,
        disk_checkpoint} \subseteq FIRST_LSN .. MaxLsn
    /\ latch \subseteq Mtr
    /\ checkpoint_pending \in BOOLEAN
    /\ page_lock \in [Page -> Mtr \cup {Free, Io, Writing}]
    /\ page_lsn \in [Page -> Lsns]
    /\ om \in [Page -> Lsns]
    /\ flush_list \in Seq(Page)
    /\ IsInjective(flush_list)
    /\ ToSet(flush_list) = {p \in Page : om[p] # 0}
    /\ file \in [Page -> Lsns]
    /\ durable \in [Page -> Lsns]
    /\ needs_fsync \in BOOLEAN
    /\ completing \in 0 .. MaxCompleting
    /\ logged \in [Lsns -> SUBSET Page]
    /\ pc \in [Mtr -> {"idle", "modified", "appended", "inserted",
                       "unlatched"}]
    /\ pages \in [Mtr -> SUBSET Page]
    /\ start \in [Mtr -> Lsns]
    /\ made_dirty \in [Mtr -> BOOLEAN]
    /\ cpc \in [Checkpointer -> {"idle", "clear", "oldest", "log", "decide",
                                 "header", "complete"}]
    /\ oldest \in [Checkpointer -> Lsns]
    /\ limit \in [Checkpointer -> Lsns]

Init ==
    /\ lsn = FIRST_LSN
    /\ flushed_lsn = FIRST_LSN
    /\ latch = {}
    /\ last_checkpoint_lsn = FIRST_LSN
    /\ next_checkpoint_lsn = FIRST_LSN
    /\ checkpoint_pending = FALSE
    /\ disk_checkpoint = FIRST_LSN
    /\ page_lock = [p \in Page |-> Free]
    /\ page_lsn = [p \in Page |-> 0]
    /\ om = [p \in Page |-> 0]
    /\ flush_list = <<>>
    /\ file = [p \in Page |-> 0]
    /\ durable = [p \in Page |-> 0]
    /\ needs_fsync = FALSE
    /\ completing = 0
    /\ logged = [l \in Lsns |-> {}]
    /\ pc = [t \in Mtr |-> "idle"]
    /\ pages = [t \in Mtr |-> {}]
    /\ start = [t \in Mtr |-> 0]
    /\ made_dirty = [t \in Mtr |-> FALSE]
    /\ cpc = [c \in Checkpointer |-> "idle"]
    /\ oldest = [c \in Checkpointer |-> 0]
    /\ limit = [c \in Checkpointer |-> 0]

Goto(t, from, to) ==
    /\ pc[t] = from
    /\ pc' = [pc EXCEPT ![t] = to]

-----------------------------------------------------------------------------
(* Mini-transactions *)

(* Pages are latched exclusively and modified; mtr_t::set_modified() notes *)
(* whether one of them was clean.                                          *)
Modify(t) ==
    /\ Goto(t, "idle", "modified")
    /\ \E ps \in SUBSET Page \ {{}} :
         /\ \A p \in ps : page_lock[p] = Free
         /\ page_lock' = [p \in Page |-> IF p \in ps THEN t ELSE page_lock[p]]
         /\ pages' = [pages EXCEPT ![t] = ps]
         /\ made_dirty' = [made_dirty EXCEPT ![t] = \E p \in ps : om[p] = 0]
    /\ UNCHANGED <<log, ckpt, page_lsn, om, flush_list, disk, start, call>>

(* do_write(): log_sys.latch.rd_lock(), append_prepare(), append(). *)
do_write(t) ==
    /\ Goto(t, "modified", "appended")
    /\ lsn < MaxLsn
    /\ latch' = latch \cup {t}
    /\ start' = [start EXCEPT ![t] = lsn]
    /\ logged' = [logged EXCEPT ![lsn] = pages[t]]
    /\ lsn' = lsn + 1
    /\ UNCHANGED <<flushed_lsn, ckpt, pool, disk, pages, made_dirty, call>>

(* FIL_PAGE_LSN of the pages of t: m_commit_lsn, the end of its record. *)
Stamped(t) ==
    [p \in Page |-> IF p \in pages[t] THEN start[t] + 1 ELSE page_lsn[p]]

(* Mutant: pages are always added to the front. *)
PositionFront(l) == {0}

(* prepare_insert_into_flush_list(): how many pages at the front of the    *)
(* list were modified later than l; there is exactly one such number.      *)
Position(l) ==
    {n \in 0 .. Len(flush_list) :
        /\ \A i \in 1 .. n : om[flush_list[i]] > l
        /\ n < Len(flush_list) => om[flush_list[n + 1]] <= l}

(* Mutant: pages that are dirty already are inserted again. *)
InsertDirtyAgain(t) ==
    /\ made_dirty[t]
    /\ Goto(t, "appended", "inserted")
    /\ page_lsn' = Stamped(t)
    /\ om' = [p \in Page |-> IF p \in pages[t] THEN start[t] ELSE om[p]]
    /\ \E s \in SetToSeqs(pages[t]) : flush_list' = s \o flush_list
    /\ UNCHANGED <<log, ckpt, page_lock, disk, pages, start, made_dirty, call>>

(* commit_log() of a mini-transaction with m_made_dirty: the pages that    *)
(* were clean enter the flush list while log_sys.latch is still shared.    *)
InsertDirty(t) ==
    LET new == {p \in pages[t] : om[p] = 0}
    IN  /\ made_dirty[t]
        /\ Goto(t, "appended", "inserted")
        /\ page_lsn' = Stamped(t)
        /\ om' = [p \in Page |-> IF p \in new THEN start[t] ELSE om[p]]
        /\ \E n \in Position(start[t]), s \in SetToSeqs(new) :
             flush_list' = SubSeq(flush_list, 1, n) \o s
                             \o SubSeq(flush_list, n + 1, Len(flush_list))
        /\ UNCHANGED <<log, ckpt, page_lock, disk, pages, start, made_dirty,
                       call>>

(* commit_log(): log_sys.latch.rd_unlock(). *)
Unlatch(t) ==
    /\ Goto(t, IF made_dirty[t] THEN "inserted" ELSE "appended", "unlatched")
    /\ latch' = latch \ {t}
    /\ UNCHANGED <<lsn, flushed_lsn, logged, ckpt, pool, disk, pages, start,
                   made_dirty, call>>

(* commit_log(): the page latches are released; without m_made_dirty the   *)
(* LSN is stamped only now.                                                *)
Release(t) ==
    /\ Goto(t, "unlatched", "idle")
    /\ page_lsn' = IF made_dirty[t] THEN page_lsn ELSE Stamped(t)
    /\ page_lock' = [p \in Page |-> IF p \in pages[t] THEN Free
                                                      ELSE page_lock[p]]
    /\ pages' = [pages EXCEPT ![t] = {}]
    /\ start' = [start EXCEPT ![t] = 0]
    /\ made_dirty' = [made_dirty EXCEPT ![t] = FALSE]
    /\ UNCHANGED <<log, ckpt, om, flush_list, disk, call>>

(* log_write_up_to(): writing the buffer takes log_sys.latch exclusively,  *)
(* so the records below lsn are complete.  RedoLog has the details.        *)
FlushLog ==
    /\ latch = {}
    /\ flushed_lsn < lsn
    /\ flushed_lsn' = lsn
    /\ UNCHANGED <<lsn, latch, logged, ckpt, pool, disk, mtr, call>>

-----------------------------------------------------------------------------
(* Page writes *)

(* buf_page_t::flush() of a dirty page that is not freed and whose U-latch *)
(* is available.                                                           *)
flush(p) ==
    /\ om[p] # 0
    /\ page_lock[p] = Free
    /\ page_lock' = [page_lock EXCEPT ![p] = Io]
    /\ UNCHANGED <<log, ckpt, page_lsn, om, flush_list, disk, mtr, call>>

(* Mutant: the write waits for the first change since the page was clean,  *)
(* not for the last one.                                                   *)
submit_ioOldest(p) ==
    /\ page_lock[p] = Io
    /\ om[p] < flushed_lsn
    /\ page_lock' = [page_lock EXCEPT ![p] = Writing]
    /\ UNCHANGED <<log, ckpt, page_lsn, om, flush_list, disk, mtr, call>>

(* flush(): log_write_up_to() has returned for the LSN that was read from  *)
(* the page; space->io() submits the write.                                *)
submit_io(p) ==
    /\ page_lock[p] = Io
    /\ page_lsn[p] <= flushed_lsn
    /\ page_lock' = [page_lock EXCEPT ![p] = Writing]
    /\ UNCHANGED <<log, ckpt, page_lsn, om, flush_list, disk, mtr, call>>

(* The write is done; buf_page_write_complete(). *)
write_complete(p) ==
    /\ page_lock[p] = Writing
    /\ completing < MaxCompleting
    /\ page_lock' = [page_lock EXCEPT ![p] = Free]
    /\ file' = [file EXCEPT ![p] = page_lsn[p]]
    /\ om' = [om EXCEPT ![p] = 0]
    /\ \E i \in DOMAIN flush_list :
         flush_list[i] = p /\ flush_list' = RemoveAt(flush_list, i)
    /\ completing' = completing + 1
    /\ UNCHANGED <<log, ckpt, page_lsn, durable, needs_fsync, mtr, call>>

(* buf_page_write_complete() of a failed write: the page stays dirty. *)
WriteError(p) ==
    /\ page_lock[p] = Writing
    /\ completing < MaxCompleting
    /\ page_lock' = [page_lock EXCEPT ![p] = Free]
    /\ completing' = completing + 1
    /\ UNCHANGED <<log, ckpt, page_lsn, om, flush_list, file, durable,
                   needs_fsync, mtr, call>>

(* IORequest::write_complete(): only then fil_space_t::complete_write(). *)
complete_write ==
    /\ completing > 0
    /\ completing' = completing - 1
    /\ needs_fsync' = TRUE
    /\ UNCHANGED <<log, ckpt, pool, file, durable, mtr, call>>

-----------------------------------------------------------------------------
(* log_checkpoint() of thread c *)

Continue(c, from, to) ==
    /\ cpc[c] = from
    /\ cpc' = [cpc EXCEPT ![c] = to]

(* fil_flush_file_spaces(): flush_low() invokes fsync() if the flag is set *)
(* and clears the flag after that.                                         *)
FsyncData(c) ==
    /\ Continue(c, "idle", IF needs_fsync THEN "clear" ELSE "oldest")
    /\ durable' = IF needs_fsync THEN file ELSE durable
    /\ UNCHANGED <<log, ckpt, pool, file, needs_fsync, completing, mtr, oldest,
                   limit>>

(* The flag is cleared, and fil_flush_file_spaces() looks again. *)
clear_flush(c) ==
    /\ Continue(c, "clear", "idle")
    /\ needs_fsync' = FALSE
    /\ UNCHANGED <<log, ckpt, pool, file, durable, completing, mtr, oldest,
                   limit>>

(* Mutant: the wrong end of the list. *)
get_oldest_modificationFirst(empty_lsn) ==
    IF flush_list = <<>> THEN empty_lsn ELSE om[Head(flush_list)]

(* buf_pool_t::get_oldest_modification() *)
get_oldest_modification(empty_lsn) ==
    IF flush_list = <<>> THEN empty_lsn ELSE om[Last(flush_list)]

(* log_checkpoint_low() up to the release of the exclusive latch: unless   *)
(* nothing has happened, a FILE_CHECKPOINT record is appended.             *)
Nothing(old) ==
    \/ old = last_checkpoint_lsn
    \/ old = lsn /\ old = last_checkpoint_lsn + 1

(* Mutant: mini-transactions between append and flush list are ignored. *)
DetermineOldestNoLatch(c) ==
    /\ LET old == get_oldest_modification(lsn)
       IN  IF Nothing(old)
           THEN /\ Continue(c, "oldest", "idle")
                /\ UNCHANGED <<lsn, oldest, limit>>
           ELSE /\ Continue(c, "oldest", "log")
                /\ lsn < MaxLsn
                /\ lsn' = lsn + 1
                /\ oldest' = [oldest EXCEPT ![c] = old]
                /\ limit' = [limit EXCEPT ![c] = lsn + 1]
    /\ UNCHANGED <<flushed_lsn, latch, logged, ckpt, pool, disk, mtr>>

DetermineOldest(c) ==
    /\ latch = {}
    /\ LET old == get_oldest_modification(lsn)
       IN  IF Nothing(old)
           THEN /\ Continue(c, "oldest", "idle")
                /\ UNCHANGED <<lsn, oldest, limit>>
           ELSE /\ Continue(c, "oldest", "log")
                /\ lsn < MaxLsn
                /\ lsn' = lsn + 1
                /\ oldest' = [oldest EXCEPT ![c] = old]
                /\ limit' = [limit EXCEPT ![c] = lsn + 1]
    /\ UNCHANGED <<flushed_lsn, latch, logged, ckpt, pool, disk, mtr>>

(* log_checkpoint_low(): log_write_up_to(flush_lsn, true) returns. *)
LogFlushed(c) ==
    /\ Continue(c, "log", "decide")
    /\ flushed_lsn >= limit[c]
    /\ limit' = [limit EXCEPT ![c] = 0]
    /\ UNCHANGED <<log, ckpt, pool, disk, mtr, oldest>>

(* Mutant: last_checkpoint_lsn is not tested again. *)
DecideNoRecheck(c) ==
    /\ latch = {}
    /\ IF checkpoint_pending
       THEN /\ Continue(c, "decide", "idle")
            /\ UNCHANGED <<next_checkpoint_lsn, checkpoint_pending>>
       ELSE /\ Continue(c, "decide", "header")
            /\ next_checkpoint_lsn' = oldest[c]
            /\ checkpoint_pending' = TRUE
    /\ oldest' = [oldest EXCEPT ![c] = 0]
    /\ UNCHANGED <<log, last_checkpoint_lsn, disk_checkpoint, pool, disk, mtr,
                   limit>>

(* log_checkpoint_low(), exclusive latch again: another thread may have    *)
(* been faster, or be at it.                                               *)
Decide(c) ==
    /\ latch = {}
    /\ IF last_checkpoint_lsn >= oldest[c] \/ checkpoint_pending
       THEN /\ Continue(c, "decide", "idle")
            /\ UNCHANGED <<next_checkpoint_lsn, checkpoint_pending>>
       ELSE /\ Continue(c, "decide", "header")
            /\ next_checkpoint_lsn' = oldest[c]
            /\ checkpoint_pending' = TRUE
    /\ oldest' = [oldest EXCEPT ![c] = 0]
    /\ UNCHANGED <<log, last_checkpoint_lsn, disk_checkpoint, pool, disk, mtr,
                   limit>>

(* write_checkpoint(): the header is written and synced without the latch. *)
WriteHeader(c) ==
    /\ Continue(c, "header", "complete")
    /\ disk_checkpoint' = next_checkpoint_lsn
    /\ UNCHANGED <<log, last_checkpoint_lsn, next_checkpoint_lsn,
                   checkpoint_pending, pool, disk, mtr, oldest, limit>>

(* write_checkpoint(): the checkpoint is complete. *)
CompleteCheckpoint(c) ==
    /\ latch = {}
    /\ Continue(c, "complete", "idle")
    /\ checkpoint_pending' = FALSE
    /\ last_checkpoint_lsn' = next_checkpoint_lsn
    /\ UNCHANGED <<log, next_checkpoint_lsn, disk_checkpoint, pool, disk, mtr,
                   oldest, limit>>

-----------------------------------------------------------------------------
Next ==
    \/ \E t \in Mtr : \/ Modify(t) \/ do_write(t) \/ InsertDirty(t)
                      \/ Unlatch(t) \/ Release(t)
    \/ FlushLog
    \/ \E p \in Page : \/ flush(p) \/ submit_io(p) \/ write_complete(p)
                       \/ WriteError(p)
    \/ complete_write
    \/ \E c \in Checkpointer : \/ FsyncData(c) \/ clear_flush(c)
                               \/ DetermineOldest(c) \/ LogFlushed(c)
                               \/ Decide(c) \/ WriteHeader(c)
                               \/ CompleteCheckpoint(c)

Spec == Init /\ [][Next]_vars

-----------------------------------------------------------------------------
(* Properties *)

(* The pages of the records below l, all that recovery starting at l would *)
(* not replay, are in `where' with those changes.                          *)
Covered(l, where) ==
    \A m \in Lsns : m < l => \A p \in logged[m] : where[p] > m

(* A checkpoint never passes a change that was not written to its data     *)
(* file, in particular not one of a mini-transaction that has an LSN but   *)
(* has not reached the flush list, or one that is out of order there.      *)
CheckpointCovered == Covered(disk_checkpoint, file)

(* What is dirty, or has an LSN and is about to become dirty, is not older *)
(* than the checkpoint: prepare_insert_into_flush_list() and               *)
(* log_checkpoint_low() assert it of last_checkpoint_lsn.                  *)
InsertAboveCheckpoint ==
    /\ \A p \in Page : om[p] # 0 => om[p] >= disk_checkpoint
    /\ \A t \in Mtr : pc[t] = "appended" => start[t] >= disk_checkpoint
    /\ last_checkpoint_lsn <= disk_checkpoint

(* Should the server be killed now, recovery brings back the changes of    *)
(* exactly the durable log records, for every page of each of them: none   *)
(* is lost below the checkpoint, and no data file holds a change that      *)
(* comes after the end of the durable log.  A change is in the file, or it *)
(* is replayed from the checkpoint on.                                     *)
RecoveryExact ==
    \A m \in Lsns : \A p \in logged[m] :
        (file[p] > m \/ m \in disk_checkpoint .. flushed_lsn - 1)
            <=> m < flushed_lsn

(* The flush list is sorted although mini-transactions insert pages in     *)
(* another order than they obtained their LSNs; get_oldest_modification()  *)
(* looks at its last page only.                                            *)
FlushListSorted ==
    \A i, j \in 1 .. Len(flush_list) :
        i < j => om[flush_list[i]] >= om[flush_list[j]]

(* The checkpoint in the log header never moves back, whichever of several *)
(* concurrent checkpoints writes it.                                       *)
CheckpointMonotonic == [][disk_checkpoint' >= disk_checkpoint]_vars

(* Data files are synced "before checkpoint": whatever recovery would not  *)
(* replay is on the disk.                                                  *)
CheckpointDurable == Covered(disk_checkpoint, durable)
=============================================================================
