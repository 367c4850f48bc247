----------------------------- MODULE LogBuffer ------------------------------
(***************************************************************************)
(* Space in the redo log buffer: log_t::append_prepare(), its wait for a   *)
(* full buffer, log_t::write_buf(), and the write that mtr_t::commit_log() *)
(* triggers.  Records are counted in units of bytes; the log is not memory *)
(* mapped.  RedoLog has the group commit around write_buf().               *)
(***************************************************************************)
EXTENDS Naturals, FiniteSets

CONSTANTS
    Thread,         \* threads that commit mini-transactions
    Sizes,          \* lengths of their log records, well below BufSize
    BufSize,        \* buf_size
    MaxBufFree,     \* max_buf_free
    WriteSize,      \* write_size
    MaxLsn          \* bound on lsn

VARIABLES
    lsn, buf_free, write_lsn,
    latch,          \* the threads that share log_sys.latch
    writing,        \* the LSN of a log_write_buf() in progress, or 0
    pc, size,
    b,              \* per thread: the position of its record in the buffer
    target          \* per thread: the LSN that log_write_up_to() waits for

log  == <<lsn, buf_free, write_lsn, writing>>
vars == <<log, latch, pc, size, b, target>>

Init ==
    /\ lsn = 0
    /\ buf_free = 0
    /\ write_lsn = 0
    /\ latch = {}
    /\ writing = 0
    /\ pc = [t \in Thread |-> "idle"]
    /\ size = [t \in Thread |-> 0]
    /\ b = [t \in Thread |-> 0]
    /\ target = [t \in Thread |-> 0]

Goto(t, from, to) ==
    /\ pc[t] = from
    /\ pc' = [pc EXCEPT ![t] = to]

(* do_write(): a record of some length, and log_sys.latch.rd_lock(). *)
do_write(t) ==
    /\ Goto(t, "idle", "prepare")
    /\ \E s \in Sizes : lsn + s <= MaxLsn /\ size' = [size EXCEPT ![t] = s]
    /\ latch' = latch \cup {t}
    /\ UNCHANGED <<log, b, target>>

(* append_prepare(), the reservation under the lsn lock. *)
Reserve(t) ==
    /\ b' = [b EXCEPT ![t] = buf_free]
    /\ lsn' = lsn + size[t]
    /\ buf_free' = buf_free + size[t]
    /\ UNCHANGED <<write_lsn, writing, latch, size>>

append_prepare(t) ==
    /\ buf_free + size[t] < BufSize
    /\ Goto(t, "prepare", "append")
    /\ Reserve(t)
    /\ UNCHANGED target

(* append_prepare_wait(): both locks are released; ... *)
append_prepare_wait(t) ==
    /\ buf_free + size[t] >= BufSize
    /\ Goto(t, "prepare", "wait")
    /\ latch' = latch \ {t}
    /\ target' = [target EXCEPT ![t] = lsn]
    /\ UNCHANGED <<log, size, b>>

(* ... log_write_up_to() returns and the latch is acquired; ... *)
WaitReturn(t) ==
    /\ Goto(t, "wait", "reserve")
    /\ write_lsn >= target[t]
    /\ latch' = latch \cup {t}
    /\ UNCHANGED <<log, size, b, target>>

(* ... and append_prepare() goes on with the current position. *)
AfterWait(t) ==
    /\ Goto(t, "reserve", "append")
    /\ Reserve(t)
    /\ UNCHANGED target

(* append(), and commit_log() up to the release of the latch: when the     *)
(* buffer is more than half full, a part of it has to be written.          *)
get_write_target ==
    IF buf_free < MaxBufFree THEN 0 ELSE write_lsn + MaxBufFree \div 2

commit_log(t) ==
    /\ Goto(t, "append", IF get_write_target = 0 THEN "idle" ELSE "write")
    /\ latch' = latch \ {t}
    /\ target' = [target EXCEPT ![t] = get_write_target]
    /\ size' = [size EXCEPT ![t] = 0]
    /\ b' = [b EXCEPT ![t] = 0]
    /\ UNCHANGED log

(* commit_log(): log_write_up_to() returns. *)
Written(t) ==
    /\ Goto(t, "write", "idle")
    /\ write_lsn >= target[t]
    /\ UNCHANGED <<log, latch, size, b, target>>

(* write_buf() of some thread in log_write_up_to(), under the exclusive    *)
(* latch: the last, incomplete block goes into the other buffer.           *)
SwapBuffers ==
    /\ latch = {}
    /\ writing = 0
    /\ write_lsn < lsn
    /\ writing' = lsn
    /\ buf_free' = IF buf_free < WriteSize THEN buf_free
                                           ELSE buf_free % WriteSize
    /\ UNCHANGED <<lsn, write_lsn, latch, pc, size, b, target>>

(* log_write_buf() and write_lock.release() *)
log_write_buf ==
    /\ writing # 0
    /\ write_lsn' = writing
    /\ writing' = 0
    /\ UNCHANGED <<lsn, buf_free, latch, pc, size, b, target>>

Next ==
    \/ \E t \in Thread : \/ do_write(t) \/ append_prepare(t)
                         \/ append_prepare_wait(t) \/ WaitReturn(t)
                         \/ AfterWait(t) \/ commit_log(t) \/ Written(t)
    \/ SwapBuffers
    \/ log_write_buf

Spec == Init /\ [][Next]_vars

(* append() asserts that the record fits into the buffer, also after       *)
(* append_prepare_wait(), during which other threads may have filled it.   *)
RecordFits == \A t \in Thread : pc[t] = "append" => b[t] + size[t] <= BufSize
=============================================================================
